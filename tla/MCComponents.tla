---------------------------- MODULE MCComponents ----------------------------
(***************************************************************************)
(* Components one at a time, each fed any message, event, file or answer   *)
(* in any order: what their handlers may never do.  In every behaviour one *)
(* of them runs and the others rest.                                       *)
(***************************************************************************)
EXTENDS SenderSession, ReceiverSession, SenderDisplay, SenderPointer, AnnexB, Framing,
        DesktopPlan, Discovery, ConvertStage, Capture, Outputs, OutputLock, KwinLayout,
        GnomeMonitor, CursorThread, ReceiverVideo, SleepWatch, Detect

VARIABLE part       \* the component that runs

Parts == {"sender", "receiver", "display", "pointer", "annexb", "framing",
          "plan", "discovery", "stage", "capture", "outputs", "lock",
          "kwin", "mutter", "cursor", "decoder", "sleep", "detect"}

\* Where a component may begin in several ways, it rests in one of them.
ComponentsInit ==
    /\ part \in Parts
    /\ SenderInit
    /\ ReceiverInit /\ (part # "receiver" => rcv.offer = None)
    /\ DisplayInit /\ PointerInit /\ AnnexBInit /\ FramingInit /\ DesktopInit /\ DiscoveryInit
    /\ StageInit /\ (part # "stage" => stage.format = "none")
    /\ CaptureInit /\ (part # "capture" => cap.path = "ext")
    /\ OutputsInit /\ (part # "outputs" => wm.kind = "sway")
    /\ LockInit /\ KwinInit /\ GnomeInit
    /\ CursorInit
    /\ part # "cursor" =>
         /\ scene.at = CHOOSE s \in CursorSpots : TRUE
         /\ scene.image = CHOOSE i \in Shapes : TRUE
    /\ VideoOutInit /\ (part # "decoder" => ~out.pinned /\ gst.works \cup gst.silent = {})
    /\ SleepInit /\ DetectInit

OthersRest(p) ==
    /\ UNCHANGED part
    /\ p # "sender" => UNCHANGED snd
    /\ p # "receiver" => UNCHANGED rcv
    /\ p # "display" => UNCHANGED displayVars
    /\ p # "pointer" => UNCHANGED pointerVars
    /\ p # "annexb" => UNCHANGED annexbVars
    /\ p # "framing" => UNCHANGED framingVars
    /\ p # "plan" => UNCHANGED desktopVars
    /\ p # "discovery" => UNCHANGED searchVars
    /\ p # "stage" => UNCHANGED stage
    /\ p # "capture" => UNCHANGED captureVars
    /\ p # "outputs" => UNCHANGED outputsVars
    /\ p # "lock" => UNCHANGED lockVars
    /\ p # "kwin" => UNCHANGED kwinVars
    /\ p # "mutter" => UNCHANGED gnomeVars
    /\ p # "cursor" => UNCHANGED cursorVars
    /\ p # "decoder" => UNCHANGED videoOutVars
    /\ p # "sleep" => UNCHANGED sleepVars
    /\ p # "detect" => UNCHANGED walk

ComponentsNext ==
    \/ part = "sender" /\ SenderNext /\ OthersRest("sender")
    \/ part = "receiver" /\ ReceiverNext /\ OthersRest("receiver")
    \/ part = "display" /\ DisplayNext /\ OthersRest("display")
    \/ part = "pointer" /\ PointerNext /\ OthersRest("pointer")
    \/ part = "annexb" /\ AnnexBNext /\ OthersRest("annexb")
    \/ part = "framing" /\ FramingNext /\ OthersRest("framing")
    \/ part = "plan" /\ DesktopNext /\ OthersRest("plan")
    \/ part = "discovery" /\ DiscoveryNext /\ OthersRest("discovery")
    \/ part = "stage" /\ StageNext /\ OthersRest("stage")
    \/ part = "capture" /\ CaptureNext /\ OthersRest("capture")
    \/ part = "outputs" /\ OutputsNext /\ OthersRest("outputs")
    \/ part = "lock" /\ LockNext /\ OthersRest("lock")
    \/ part = "kwin" /\ KwinNext /\ OthersRest("kwin")
    \/ part = "mutter" /\ GnomeNext /\ OthersRest("mutter")
    \/ part = "cursor" /\ CursorNext /\ OthersRest("cursor")
    \/ part = "decoder" /\ VideoOutNext /\ OthersRest("decoder")
    \/ part = "sleep" /\ SleepNext /\ OthersRest("sleep")
    \/ part = "detect" /\ DetectNext /\ OthersRest("detect")

componentsVars ==
    <<snd, rcv, displayVars, pointerVars, annexbVars, framingVars,
      desktopVars, searchVars, stage, captureVars, outputsVars, lockVars,
      kwinVars, gnomeVars, cursorVars, videoOutVars, sleepVars, walk, part>>

ComponentsSpec ==
    /\ ComponentsInit
    /\ [][ComponentsNext]_componentsVars

(* Every component keeps its type, whichever one runs: what the handlers   *)
(* of that component store.                                                *)
ComponentsTypeOK ==
    /\ SenderTypeOK /\ ReceiverTypeOK /\ DisplayTypeOK /\ PointerTypeOK /\ AnnexBTypeOK
    /\ FramingTypeOK /\ DesktopTypeOK /\ DiscoveryTypeOK /\ StageTypeOK /\ CaptureTypeOK
    /\ OutputsTypeOK /\ LockTypeOK /\ KwinTypeOK /\ GnomeTypeOK /\ CursorThreadTypeOK
    /\ VideoOutTypeOK /\ SleepTypeOK /\ DetectTypeOK

(* What an encoder's bytes are split into, and a connection's: the link    *)
(* may drop the one unit by unit, and loses nothing of the other (AnnexB,  *)
(* Framing).                                                               *)
BytesArrive == UnitsAreSound /\ FramesInTime

(* What is decided once and never looked at again fits what it was decided *)
(* from: the picture asked of the display (DesktopPlan), and the           *)
(* compositor it is made on with the protocol that captures it (Detect).   *)
DecisionsFit == PlanFits /\ BackendFits
=============================================================================

----------------------------- MODULE MCProgress -----------------------------
(***************************************************************************)
(* The components that wait, for a timer, a lock, another thread, the      *)
(* compositor or their turn at a receiver, one at a time: what they must   *)
(* come to do.  In every behaviour one of them runs, with the fairness of  *)
(* its own specification, and the others rest.                             *)
(***************************************************************************)
EXTENDS SenderDisplay, Latest, OutputLock, Capture, InputSinks, PipeWire, Adoption

VARIABLE part       \* the component that runs

Parts == {"display", "channel", "lock", "capture", "input", "pipewire",
          "adoption"}

\* Where a component may begin in several ways, it rests in one of them.
ProgressInit ==
    /\ part \in Parts
    /\ DisplayInit /\ LatestInit /\ LockInit
    /\ CaptureInit /\ (part # "capture" => cap.path = "ext")
    /\ SinkInit /\ (part # "input" => owner.kind = "kde")
    /\ PipeWireInit /\ AdoptionInit

OthersRest(p) ==
    /\ UNCHANGED part
    /\ p # "display" => UNCHANGED displayVars
    /\ p # "channel" => UNCHANGED channelVars
    /\ p # "lock" => UNCHANGED lockVars
    /\ p # "capture" => UNCHANGED captureVars
    /\ p # "input" => UNCHANGED sinkVars
    /\ p # "pipewire" => UNCHANGED pw
    /\ p # "adoption" => UNCHANGED vars

ProgressNext ==
    \/ part = "display" /\ DisplayNext /\ OthersRest("display")
    \/ part = "channel" /\ LatestNext /\ OthersRest("channel")
    \/ part = "lock" /\ LockNext /\ OthersRest("lock")
    \/ part = "capture" /\ CaptureNext /\ OthersRest("capture")
    \/ part = "input" /\ SinkNext /\ OthersRest("input")
    \/ part = "pipewire" /\ PipeWireNext /\ OthersRest("pipewire")
    \/ part = "adoption" /\ AdoptionNext /\ OthersRest("adoption")

progressVars ==
    <<displayVars, channelVars, lockVars, captureVars, sinkVars, pw, vars, part>>

\* The fairness of each component's specification, while it runs.
DisplayIsFair ==
    /\ WF_displayVars(part = "display" /\ TimePasses)
    /\ WF_displayVars(part = "display" /\ Settle)
    /\ WF_displayVars(part = "display" /\ ProbeStarts)
    /\ WF_displayVars(part = "display" /\ ProbeAnswer)
    /\ WF_displayVars(part = "display" /\ ProbeDone)

ChannelIsFair ==
    /\ WF_channelVars(part = "channel" /\ Tx) /\ WF_channelVars(part = "channel" /\ Rx)
    /\ SF_channelVars(part = "channel" /\ TxLocks)
    /\ SF_channelVars(part = "channel" /\ RxLocks)

LockIsFair ==
    /\ \A p \in Senders : WF_lockVars(part = "lock" /\ SenderSteps(p))
    /\ \A t \in Tools : WF_lockVars(part = "lock" /\ at[t] # "try" /\ ToolSteps(t))

CaptureIsFair ==
    /\ WF_captureVars(part = "capture" /\ CaptureWorks)
    /\ WF_captureVars(part = "capture" /\ ~cap.stop /\ LeaseDropped)
    /\ WF_captureVars(part = "capture" /\ AnswersRoundtrip)

InputIsFair == \A i \in Sinks : WF_sinkVars(part = "input" /\ SinkThread(i))

PipeWireIsFair ==
    /\ WF_pw(part = "pipewire" /\ PwCaller)
    /\ WF_pw(part = "pipewire" /\ PwThread)
    /\ WF_pw(part = "pipewire" /\ LoopQuits)

AdoptionIsFair ==
    /\ WF_vars(part = "adoption" /\ ReceiverHost)
    /\ \A c \in Conns : WF_vars(part = "adoption" /\ Accept(c))
    /\ \A c \in Conns : WF_vars(part = "adoption" /\ NewcomerGoes(c))
    /\ \A c \in Conns : WF_vars(part = "adoption" /\ NewcomerSpeaks(c))
    /\ \A p \in Rivals : WF_vars(part = "adoption" /\ Sender(p))

ProgressSpec ==
    /\ ProgressInit
    /\ [][ProgressNext]_progressVars
    /\ DisplayIsFair /\ ChannelIsFair /\ LockIsFair
    /\ CaptureIsFair /\ InputIsFair /\ PipeWireIsFair /\ AdoptionIsFair

(* As long as nobody is told to leave and nobody dies, one of the senders  *)
(* that share the lock ends up with the output (try_lock, open).           *)
LockFinds == part = "lock" => SomeoneDrives

(* A capture that is over is told of, and a capture that is stopped gives  *)
(* its thread and buffers back, over Wayland (Capture), where it takes a   *)
(* compositor that answers a roundtrip, and over PipeWire (PipeWire).      *)
CapturesEnd == CaptureEnds /\ StreamEnds

(* Left alone, the senders of one desktop and the newcomers they make come *)
(* to rest: in the end one of them drives the output and is served for     *)
(* good, whoever dialed when, and the others are gone (adopt, run).        *)
SettlesAlone ==
    /\ <>[](part = "adoption" => \E p \in Rivals : Served(p))
    /\ NewcomersLeave
=============================================================================

------------------------------ MODULE Capture ------------------------------
(***************************************************************************)
(* A capture thread of the sender and its buffers: shm_pool.rs, capture.rs *)
(* and screencopy.rs in linux/crates/od-sender/src/wayland.  Which of the  *)
(* two protocols captures is CaptureChoice's.                              *)
(*                                                                         *)
(* A buffer is an index into the thread's list, and a lease the index with *)
(* the generation the pool was in when the buffer was lent.  The list is   *)
(* emptied when the picture's size changes, so an index only means         *)
(* something within a generation.                                          *)
(*                                                                         *)
(* The compositor is external: its events are dispatched, one or several,  *)
(* where the thread dispatches (Listening).  What it does with a frame it  *)
(* was asked for is up to it, and so is an output that goes away.  At its  *)
(* two ends the thread waits for the answer to a roundtrip, without a time *)
(* limit and without a look at stop ("bind", "bye").  Who holds the leases *)
(* is in ConvertStage; here any may be dropped any time.                   *)
(***************************************************************************)
EXTENDS CaptureChoice, Naturals, FiniteSets

CONSTANTS
    MaxBuffers,     \* MAX_BUFFERS
    MaxFailures,    \* MAX_CONSECUTIVE_FAILURES
    OutputSizes,    \* sizes the output may have
    MaxResizes      \* bound on changes of size

ASSUME CaptureAssumption ==
    /\ MaxBuffers \in Nat \ {0}
    /\ MaxFailures \in Nat \ {0}
    /\ MaxResizes \in Nat
    /\ OutputSizes # {}
    /\ None \notin Nat

VARIABLES
    cap,            \* the capture thread
    pool            \* the Recycler's free list and the leases that are out

captureVars == <<cap, pool>>

Indices == 0 .. MaxBuffers - 1
Lease == [index : Indices, gen : Nat]

-----------------------------------------------------------------------------
(* shm_pool.rs: the free list.                                             *)

NewPool == [free |-> {}, gen |-> 0, out |-> {}]
WithoutFree(i) == [pool EXCEPT !.free = @ \ {i}]
Released(i) == [pool EXCEPT !.free = @ \cup {i}]
ResetPool == [pool EXCEPT !.free = {}, !.gen = @ + 1]
LeaseOf(i) == [index |-> i, gen |-> pool.gen]
Lent(i) == [pool EXCEPT !.out = @ \cup {LeaseOf(i)}]

\* Mutant: a lease of buffers that are gone is returned like any other.
ComesBackAnyway(lease) == TRUE

\* Lease::drop: a lease of an older generation does not come back.
ComesBack(lease) == lease.gen = pool.gen

LeaseDropped ==
    /\ \E lease \in pool.out :
         pool' = [pool EXCEPT
                    !.out = @ \ {lease},
                    !.free = IF ComesBack(lease) THEN @ \cup {lease.index} ELSE @]
    /\ UNCHANGED cap

-----------------------------------------------------------------------------
(* The thread.                                                             *)

CaptureTypeOK ==
    /\ cap \in [path : Paths,
                at : {"bind", "setup", "top", "ask", "await",      \* ext
                      "wtop", "describe", "wtake", "copy",         \* wlr
                      "bye", "left", "gone"},
                buffers : 0 .. MaxBuffers,
                fitted : OutputSizes,             \* the size of the buffers
                size : OutputSizes,               \* the size the compositor last named
                described : BOOLEAN,
                attached : Indices \cup {None},
                ready : BOOLEAN,
                failed : {"no", "unknown", "constraints", "stopped"},
                over : BOOLEAN,             \* session stopped, output removed
                failures : 0 .. MaxFailures,
                resizes : 0 .. MaxResizes,
                stop : BOOLEAN,             \* CaptureThread::stop
                told : BOOLEAN]             \* the session got Ended
    /\ pool.free \subseteq Indices
    /\ pool.gen \in 0 .. 2 * MaxResizes
    /\ pool.out \subseteq Lease

CapturesOn(path, size) ==
    [path |-> path, at |-> "bind",
     buffers |-> 0, fitted |-> size, size |-> size, described |-> FALSE,
     attached |-> None, ready |-> FALSE, failed |-> "no", over |-> FALSE,
     failures |-> 0, resizes |-> 0, stop |-> FALSE, told |-> FALSE]

CaptureInit ==
    /\ \E choice \in Paths \cup {"auto"}, preference \in Paths \cup {None},
          offered \in SUBSET Paths :
         LET chosen == SelectPath(choice, preference, offered) IN
         /\ chosen # None
         /\ cap = CapturesOn(chosen, CHOOSE s \in OutputSizes : TRUE)
    /\ pool = NewPool

\* The session joins the thread: build, or the end of the session.
AskStop ==
    /\ ~cap.stop
    /\ cap' = [cap EXCEPT !.stop = TRUE]
    /\ UNCHANGED pool

\* Mutant: a thread that ends by itself says nothing.
LeavesCaptureQuietly ==
    /\ cap.at = "left"
    /\ cap' = [cap EXCEPT !.at = "gone"]
    /\ UNCHANGED pool

\* After the capture function returned or panicked: Ended, unless stopping.
LeavesCapture ==
    /\ cap.at = "left"
    /\ cap' = [cap EXCEPT !.at = "gone", !.told = ~cap.stop]
    /\ UNCHANGED pool

\* With an error it leaves at once; else it says goodbye to the compositor.
LeftCapture == [cap EXCEPT !.at = "left"]
SaysBye == [cap EXCEPT !.at = "bye"]

-----------------------------------------------------------------------------
(* What the compositor says, as far as it was dispatched.                  *)

Listening == cap.at \in {"setup", "ask", "await", "wtop", "describe", "copy"}
FramePending == cap.at \in {"await", "copy"} /\ ~cap.ready /\ cap.failed = "no"

\* BufferSize with Done, or Buffer with BufferDone.
Describes ==
    /\ Listening
    /\ \E s \in OutputSizes :
         /\ s # cap.size => cap.resizes < MaxResizes
         /\ cap.path = "wlr" => cap.at = "describe" /\ ~cap.described
         /\ cap' = [cap EXCEPT
                      !.size = s, !.described = TRUE,
                      !.resizes = IF s = cap.size THEN @ ELSE @ + 1]
    /\ UNCHANGED pool

SaysReady ==
    /\ FramePending
    /\ cap' = [cap EXCEPT !.ready = TRUE]
    /\ UNCHANGED pool

\* "constraints" comes with a new size, of which the next event may tell.
SaysFailed ==
    /\ FramePending \/ (cap.at = "describe" /\ cap.failed = "no")
    /\ \E why \in {"unknown", "constraints", "stopped"} :
         /\ why = "constraints" => cap.path = "ext" /\ pool.gen < MaxResizes
         /\ why = "stopped" => cap.path = "ext"
         /\ cap' = [cap EXCEPT !.failed = why]
    /\ UNCHANGED pool

\* The session's stopped event, or the output's global is removed.
SaysOver ==
    /\ Listening
    /\ cap' = [cap EXCEPT !.over = TRUE]
    /\ UNCHANGED pool

\* The connection is lost: dispatching is an error.
LosesConnection ==
    /\ Listening \/ cap.at \in {"bind", "bye"}
    /\ cap' = LeftCapture
    /\ UNCHANGED pool

\* queue.roundtrip: at setup it names what there is, or something is lacking.
AnswersRoundtrip ==
    /\ \/ /\ cap.at = "bind"
          /\ \/ cap' = [cap EXCEPT !.at = IF cap.path = "ext" THEN "setup" ELSE "wtop"]
             \/ cap' = LeftCapture
       \/ /\ cap.at = "bye"
          /\ cap' = LeftCapture
    /\ UNCHANGED pool

-----------------------------------------------------------------------------
(* capture_shm: ext-image-copy-capture.                                    *)

\* Described, or given up: stopped, over, or the 5 s have passed.
ExtSetup ==
    /\ cap.at = "setup"
    /\ \/ /\ cap.described /\ ~cap.over
          /\ cap' = [cap EXCEPT !.at = "top", !.fitted = cap.size]
       \/ cap' = LeftCapture
    /\ UNCHANGED pool

CaptureGoes == ~cap.over /\ ~cap.stop

ExtEnds ==
    /\ cap.at = "top"
    /\ ~CaptureGoes
    /\ cap' = SaysBye
    /\ UNCHANGED pool

Refitted == [cap EXCEPT !.buffers = 0, !.fitted = cap.size]
Misfit == cap.buffers > 0 /\ cap.fitted # cap.size

\* The size changed, even with a frame in flight on an old buffer.
ExtReallocate ==
    /\ cap.at = "top"
    /\ CaptureGoes
    /\ Misfit
    /\ cap' = Refitted
    /\ pool' = ResetPool

\* The take and the push of both paths: a free buffer, else a new one.
HasBuffer == pool.free # {} \/ cap.buffers < MaxBuffers

Picks(at) ==
    \/ \E i \in pool.free :
         /\ pool' = WithoutFree(i)
         /\ cap' = [cap EXCEPT !.at = at, !.attached = i]
    \/ /\ pool.free = {} /\ cap.buffers < MaxBuffers
       /\ cap' = [cap EXCEPT !.at = at, !.attached = cap.buffers,
                             !.buffers = @ + 1, !.fitted = cap.size]
       /\ UNCHANGED pool

AllocationFails ==
    /\ pool.free = {} /\ cap.buffers < MaxBuffers
    /\ cap' = LeftCapture
    /\ UNCHANGED pool

\* Without a buffer it waits here for a lease to come back.
ExtTop ==
    /\ cap.at = "top"
    /\ CaptureGoes
    /\ ~Misfit
    /\ IF cap.attached # None
       THEN cap' = [cap EXCEPT !.at = "await"] /\ UNCHANGED pool
       ELSE Picks("ask") \/ AllocationFails

\* A frame is asked for after one more look at the events.  An index that
\* is out of the list is a panic, and the thread ends as on an error.
ExtAsk ==
    /\ cap.at = "ask"
    /\ CASE ~CaptureGoes ->
              cap' = [SaysBye EXCEPT !.attached = None] /\ pool' = Released(cap.attached)
         [] CaptureGoes /\ cap.attached >= cap.buffers ->
              cap' = LeftCapture /\ UNCHANGED pool
         [] CaptureGoes /\ cap.attached < cap.buffers /\ cap.fitted # cap.size ->
              /\ cap' = [cap EXCEPT !.at = "top", !.attached = None]
              /\ pool' = Released(cap.attached)
         [] OTHER ->
              /\ cap' = [cap EXCEPT !.at = "await", !.ready = FALSE, !.failed = "no"]
              /\ UNCHANGED pool

\* Nothing for 250 ms, or nothing about the frame.
ExtIdle ==
    /\ cap.at = "await"
    /\ ~cap.ready /\ cap.failed = "no"
    /\ Misfit \/ ~CaptureGoes
    /\ cap' = [cap EXCEPT !.at = "top"]
    /\ UNCHANGED pool

\* The frame is ready: its buffer is lent out with the picture.
ExtLends ==
    /\ cap.at = "await"
    /\ cap.ready
    /\ cap.attached < cap.buffers
    /\ cap' = [cap EXCEPT !.at = "top", !.attached = None]
    /\ pool' = Lent(cap.attached)

\* A frame on a buffer that has left the list: an index out of bounds.
ExtPanics ==
    /\ cap.at = "await"
    /\ cap.ready
    /\ cap.attached >= cap.buffers
    /\ cap' = LeftCapture
    /\ UNCHANGED pool

ExtFailed ==
    /\ cap.at = "await"
    /\ ~cap.ready
    /\ \/ /\ cap.failed = "unknown"
          /\ cap' = [cap EXCEPT !.at = "top", !.attached = None, !.failed = "no"]
          /\ pool' = Released(cap.attached)
       \/ /\ cap.failed = "constraints"
          /\ cap' = [Refitted EXCEPT !.at = "top", !.attached = None, !.failed = "no"]
          /\ pool' = ResetPool
       \/ /\ cap.failed = "stopped"
          /\ cap' = [cap EXCEPT !.at = "top", !.over = TRUE, !.failed = "no"]
          /\ UNCHANGED pool

-----------------------------------------------------------------------------
(* capture_wlr: wlr-screencopy.                                            *)

WlrTop ==
    /\ cap.at = "wtop"
    /\ cap' = IF CaptureGoes
              THEN [cap EXCEPT !.at = "describe", !.described = FALSE,
                               !.ready = FALSE, !.failed = "no"]
              ELSE SaysBye
    /\ UNCHANGED pool

\* after_failure: the next frame, or the end.
AfterFailure ==
    IF cap.stop \/ cap.over \/ cap.failures + 1 >= MaxFailures
    THEN [SaysBye EXCEPT !.attached = None]
    ELSE [cap EXCEPT !.at = "wtop", !.attached = None, !.failures = @ + 1]

WlrDescribed ==
    /\ cap.at = "describe"
    /\ cap.described /\ cap.failed = "no"
    /\ IF Misfit
       THEN cap' = [Refitted EXCEPT !.at = "wtake"] /\ pool' = ResetPool
       ELSE cap' = [cap EXCEPT !.at = "wtake"] /\ UNCHANGED pool

WlrNotDescribed ==
    /\ cap.at = "describe"
    /\ cap.failed # "no" \/ (~cap.described /\ ~CaptureGoes)
    /\ cap' = AfterFailure
    /\ UNCHANGED pool

WlrTake ==
    /\ cap.at = "wtake"
    /\ \/ Picks("copy")
       \/ AllocationFails
       \/ ~HasBuffer /\ cap.stop /\ cap' = SaysBye /\ UNCHANGED pool

WlrLends ==
    /\ cap.at = "copy"
    /\ cap.ready /\ cap.failed = "no"
    /\ cap' = [cap EXCEPT !.at = "wtop", !.attached = None, !.failures = 0]
    /\ pool' = Lent(cap.attached)

\* Failed, stopped or removed before the picture was there.
WlrNoCopy ==
    /\ cap.at = "copy"
    /\ ~cap.ready
    /\ cap.failed # "no" \/ ~CaptureGoes
    /\ cap' = AfterFailure
    /\ pool' = Released(cap.attached)

-----------------------------------------------------------------------------
CompositorSpeaks ==
    Describes \/ SaysReady \/ SaysFailed \/ SaysOver \/ LosesConnection \/ AnswersRoundtrip

CaptureWorks ==
    \/ ExtSetup \/ ExtEnds \/ ExtReallocate \/ ExtTop \/ ExtAsk
    \/ ExtIdle \/ ExtLends \/ ExtPanics \/ ExtFailed
    \/ WlrTop \/ WlrDescribed \/ WlrNotDescribed \/ WlrTake \/ WlrLends \/ WlrNoCopy
    \/ LeavesCapture

CaptureNext == AskStop \/ CompositorSpeaks \/ LeaseDropped \/ CaptureWorks

\* The thread runs on, with the 250 ms time-outs of its waits.  The encode
\* thread drops what it holds while the session takes its units, which a
\* session that joins this thread does not.  The compositor answers a
\* roundtrip; of everything else it may stay silent.
CaptureSpec ==
    /\ CaptureInit
    /\ [][CaptureNext]_captureVars
    /\ WF_captureVars(CaptureWorks)
    /\ WF_captureVars(~cap.stop /\ LeaseDropped)
    /\ WF_captureVars(AnswersRoundtrip)

-----------------------------------------------------------------------------
(* Properties.                                                             *)

\* A buffer of the list is free, with the compositor, or lent out once: the
\* compositor never writes into a picture someone reads, across every
\* reallocation with leases still out (the promise of shm_pool.rs).
BuffersApart ==
    LET lent == {lease.index : lease \in {l \in pool.out : l.gen = pool.gen}} IN
    /\ lent \cap pool.free = {}
    /\ cap.attached # None /\ cap.attached < cap.buffers
         => cap.attached \notin lent \cup pool.free

\* A capture that is stopped, or whose output is gone, ends, though every
\* buffer be lent out or no frame come, as long as the compositor answers
\* roundtrips; if it was not stopped the session hears of it
\* (CaptureThread::stop joins the thread).
CaptureEnds == cap.stop \/ cap.over ~> cap.at = "gone" /\ (cap.stop \/ cap.told)
=============================================================================

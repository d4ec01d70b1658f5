------------------------------ MODULE WindowPort ------------------------------
(***************************************************************************)
(* A channel whose type is a window (Ports.h, Ports.cpp): WriteChannelPort   *)
(* cuts every message into frames and hands them to its backend one by one, *)
(* ReadChannelPort puts them together again.  The two ports are those of a   *)
(* loopback: the backend (external) is a queue with limited room that keeps  *)
(* frames in order and offers a refused frame again.                        *)
(*                                                                          *)
(* A frame carries the message it was cut from, its place in the window and, *)
(* in the list frame, an element and the last flag; offsets and copies of    *)
(* bytes are left out.  One thread writes; the backend reads.               *)
(*                                                                          *)
(* A window may have frames after its list frame.  They are written, but for *)
(* the reader the message is complete at the end of the list: it takes them  *)
(* for frames of the next message.                                          *)
(***************************************************************************)
EXTENDS Integers, Sequences, SequencesExt

CONSTANTS
    MaxFixed,       \* bound: frames before the list frame
    MaxAfter,       \* bound: frames after it
    MaxList,        \* bound: elements of a list
    MaxMessages,    \* bound: calls of write() and tryWrite()
    MaxReconnects,  \* bound: disconnect() and connect() of the read port
    Room            \* frames the backend holds

ASSUME WindowAssumption ==
    /\ {MaxFixed, MaxAfter, MaxList, MaxMessages, MaxReconnects} \subseteq Nat
    /\ Room \in Nat \ {0}

VARIABLES
    shape,     \* the window: fixed frames, perhaps a list frame and frames after it
    wport,     \* translationBuffer and translationBufferIdx of the write port
    call,      \* the call the writing thread is in
    link,      \* frames in the backend
    rport,     \* translation state of the read port
    received,  \* translated messages the reader has accepted
    offered,   \* history: the messages cut into frames, in order
    pending,   \* what the caller knows: tryWrite() said yes, flush() not yet
    clean,     \* history: no call failed with a message cut half way
    aligned,   \* history: the read port was never reconnected inside a message
    calls, reconnects

writerVars == <<wport, call, offered, pending, clean, calls>>
readerVars == <<rport, received, aligned, reconnects>>
vars == <<shape, writerVars, link, readerVars>>

-----------------------------------------------------------------------------
(* Messages and frames *)

Shapes ==
    {s \in [fixed : 0..MaxFixed, list : BOOLEAN, after : 0..MaxAfter] :
        IF s.list THEN TRUE ELSE s.fixed > 0 /\ s.after = 0}

\* The frames of the window have one place each.
NumFrames == shape.fixed + (IF shape.list THEN 1 + shape.after ELSE 0)
Places == 1..NumFrames

\* What a caller may pass: a source that is too small, one with an empty list or
\* a list length that does not fit, or a list of one or more elements.
Sources ==
    {[kind |-> "short", len |-> 0]}
    \cup (IF shape.list THEN {[kind |-> "badList", len |-> 0]}
                             \cup [kind : {"good"}, len : 1..MaxList]
          ELSE {[kind |-> "good", len |-> 0]})

Message(source) == [id |-> calls + 1, kind |-> source.kind, len |-> source.len]

\* n frames without a list, from the place after p.
FixedFrames(msg, p, n) ==
    [i \in 1..n |-> [id |-> msg.id, place |-> p + i, elem |-> 0, last |-> FALSE]]

ListFrames(msg) ==
    [k \in 1..msg.len |-> [id |-> msg.id, place |-> shape.fixed + 1, elem |-> k,
                              last |-> (k = msg.len)]]

\* translateOutgoing: does it throw, and the frames it has queued by then.
Throws(msg) == msg.kind # "good"

FramesOf(msg) ==
    IF msg.kind = "short" THEN <<>>
    ELSE FixedFrames(msg, 0, shape.fixed)
         \o (IF shape.list /\ ~Throws(msg)
             THEN ListFrames(msg) \o FixedFrames(msg, shape.fixed + 1, shape.after)
             ELSE <<>>)

\* The message a reader should see.
Translated(msg) ==
    [fields |-> [i \in Places |-> [id |-> msg.id, place |-> i]],
     list |-> IF shape.list THEN [k \in 1..msg.len |-> [id |-> msg.id, elem |-> k]]
              ELSE <<>>]

-----------------------------------------------------------------------------
(* State *)

NoMessage == [none |-> TRUE]
Blank == [i \in Places |-> [id |-> 0, place |-> 0]]

\* resetTranslationState
ResetReader ==
    [nextFrame |-> 1, accumulating |-> FALSE, fields |-> Blank, list |-> <<>>,
     translated |-> NoMessage]

NoFrames == [buf |-> <<>>, idx |-> 1]
Idle == [pc |-> "idle", msg |-> NoMessage, i |-> 0]

Init ==
    /\ shape \in Shapes
    /\ wport = NoFrames
    /\ call = Idle
    /\ link = <<>> /\ rport = ResetReader /\ received = <<>>
    /\ offered = <<>> /\ pending = FALSE /\ clean = TRUE /\ aligned = TRUE
    /\ calls = 0 /\ reconnects = 0

-----------------------------------------------------------------------------
(* The writing thread *)

HasRoom == Len(link) < Room

\* The rest of write() or tryWrite() after translateOutgoing, which appends to a
\* the translation buffer of w.  When it throws, the frames queued so far stay there
\* and the call ends; otherwise the call goes on at pc.
TranslateOutgoing(w, msg, pc) ==
    /\ wport' = [w EXCEPT !.buf = @ \o FramesOf(msg)]
    /\ call' = IF Throws(msg) THEN Idle ELSE [pc |-> pc, msg |-> msg, i |-> 1]
    /\ clean' = (clean /\ (Throws(msg) => FramesOf(msg) = <<>>))
    /\ offered' = IF Throws(msg) THEN offered ELSE Append(offered, msg)

\* write().  The caller has flushed what tryWrite() may have left.
Write ==
    /\ call.pc = "idle" /\ ~pending /\ calls < MaxMessages
    /\ calls' = calls + 1
    /\ \E source \in Sources : TranslateOutgoing(wport, Message(source), "write")
    /\ UNCHANGED <<shape, link, pending, readerVars>>

\* The loop of write(): writeImpl blocks until the backend takes the frame.
WriteFrame ==
    /\ call.pc = "write" /\ call.i <= Len(wport.buf) /\ HasRoom
    /\ link' = Append(link, wport.buf[call.i])
    /\ call' = [call EXCEPT !.i = @ + 1]
    /\ UNCHANGED <<shape, wport, offered, pending, clean, calls, readerVars>>

WriteReturns ==
    /\ call.pc = "write" /\ call.i > Len(wport.buf)
    /\ wport' = [wport EXCEPT !.buf = <<>>]
    /\ call' = Idle
    /\ UNCHANGED <<shape, link, offered, pending, clean, calls, readerVars>>

\* tryWrite() first flushes.
TryWrite ==
    /\ call.pc = "idle" /\ calls < MaxMessages
    /\ calls' = calls + 1
    /\ \E source \in Sources : call' = [pc |-> "tryOld", msg |-> Message(source), i |-> 0]
    /\ UNCHANGED <<shape, wport, link, offered, pending, clean, readerVars>>

Flush ==
    /\ call.pc = "idle" /\ pending
    /\ call' = [pc |-> "flush", msg |-> NoMessage, i |-> 0]
    /\ UNCHANGED <<shape, wport, link, offered, pending, clean, calls, readerVars>>

Flushing == call.pc \in {"tryOld", "tryNew", "flush"}

\* flush(): tryWriteImpl takes a frame.
FlushFrame ==
    /\ Flushing /\ wport.idx <= Len(wport.buf) /\ HasRoom
    /\ link' = Append(link, wport.buf[wport.idx])
    /\ wport' = [wport EXCEPT !.idx = @ + 1]
    /\ UNCHANGED <<shape, call, offered, pending, clean, calls, readerVars>>

\* flush() is refused a frame.  tryWrite() returns false if the old frames are not
\* gone, and true if only the new ones are not.
FlushRefused ==
    /\ Flushing /\ wport.idx <= Len(wport.buf) /\ ~HasRoom
    /\ call' = Idle
    /\ pending' = (pending \/ call.pc = "tryNew")
    /\ UNCHANGED <<shape, wport, link, offered, clean, calls, readerVars>>

\* flush() has written everything.  tryWrite() goes on with the new message, or
\* returns; its caller cannot tell whether everything has been flushed.
FlushDone ==
    /\ Flushing /\ wport.idx > Len(wport.buf)
    /\ IF call.pc = "tryOld"
       THEN TranslateOutgoing(NoFrames, call.msg, "tryNew") /\ UNCHANGED pending
       ELSE /\ wport' = NoFrames
            /\ call' = Idle
            /\ pending' = (call.pc = "tryNew")
            /\ UNCHANGED <<offered, clean>>
    /\ UNCHANGED <<shape, link, calls, readerVars>>

-----------------------------------------------------------------------------
(* The read port, called by the backend with the oldest frame *)

\* Have all frames been received, in a window without a list?
WasLastFixed == rport.nextFrame = NumFrames

\* translateIncoming: what frame f leads to.  The last flag of a frame that is
\* taken for a list frame and is not one may read as anything.
Incoming(f) ==
    LET first  == rport.nextFrame = 1 /\ ~rport.accumulating
        fields == [(IF first THEN Blank ELSE rport.fields) EXCEPT
                      ![rport.nextFrame] = [id |-> f.id, place |-> f.place]]
        isList == shape.list /\ rport.nextFrame = shape.fixed + 1
        list   == IF isList THEN Append(IF first THEN <<>> ELSE rport.list,
                                        [id |-> f.id, elem |-> f.elem])
                  ELSE <<>>
        lasts  == IF ~isList THEN {WasLastFixed}
                  ELSE IF f.place = rport.nextFrame THEN {f.last} ELSE BOOLEAN
    IN  {IF last
         THEN [ResetReader EXCEPT !.translated = [fields |-> fields, list |-> list]]
         ELSE [nextFrame |-> rport.nextFrame + (IF isList THEN 0 ELSE 1),
               accumulating |-> isList, fields |-> fields, list |-> list,
               translated |-> NoMessage] : last \in lasts}

\* The translations the oldest frame may lead to; a translated message that was
\* refused is offered again instead of translating its last frame a second time.
AfterFrame ==
    IF rport.translated = NoMessage THEN Incoming(Head(link)) ELSE {rport}

\* Mutant: a frame that does not complete its message is refused.
TakeFrame_Refused ==
    /\ link # <<>>
    /\ \E r \in AfterFrame : r.translated = NoMessage
    /\ UNCHANGED vars

\* The frame is not the last of its message.
TakeFrame ==
    /\ link # <<>>
    /\ \E r \in AfterFrame : r.translated = NoMessage /\ rport' = r
    /\ link' = Tail(link)
    /\ UNCHANGED <<shape, writerVars, received, aligned, reconnects>>

\* The reader (a callback, or the queue of the polling mode) accepts the message.
AcceptMessage ==
    /\ link # <<>>
    /\ \E r \in AfterFrame :
          /\ r.translated # NoMessage
          /\ received' = Append(received, r.translated)
          /\ rport' = [r EXCEPT !.translated = NoMessage]
    /\ link' = Tail(link)
    /\ UNCHANGED <<shape, writerVars, aligned, reconnects>>

\* Mutant: the translated message is not kept for the retry.
RefuseMessage_Forgets ==
    /\ link # <<>>
    /\ \E r \in AfterFrame :
          r.translated # NoMessage /\ rport' = [r EXCEPT !.translated = NoMessage]
    /\ UNCHANGED <<shape, writerVars, link, received, aligned, reconnects>>

\* The reader refuses it: the backend keeps the frame and offers it again.
RefuseMessage ==
    /\ link # <<>>
    /\ \E r \in AfterFrame : r.translated # NoMessage /\ rport' = r
    /\ UNCHANGED <<shape, writerVars, link, received, aligned, reconnects>>

\* disconnect() and connect(): both reset the translation state; frames wait in
\* the backend meanwhile.
Reconnect ==
    /\ reconnects < MaxReconnects
    /\ reconnects' = reconnects + 1
    /\ rport' = ResetReader
    /\ aligned' = (aligned /\ rport.nextFrame = 1 /\ ~rport.accumulating
                           /\ rport.translated = NoMessage)
    /\ UNCHANGED <<shape, writerVars, link, received>>

-----------------------------------------------------------------------------
WriterNext ==
    \/ Write \/ WriteFrame \/ WriteReturns
    \/ TryWrite \/ Flush \/ FlushFrame \/ FlushRefused \/ FlushDone

ReaderNext == TakeFrame \/ AcceptMessage \/ RefuseMessage \/ Reconnect

\* Every call has returned, everything was flushed and read.
Finished ==
    /\ call.pc = "idle" /\ ~pending /\ calls = MaxMessages /\ link = <<>>
    /\ UNCHANGED vars

Next == WriterNext \/ ReaderNext \/ Finished

\* A call that has begun goes on, the caller flushes until nothing is pending, and
\* the backend goes on offering the oldest frame to a reader that accepts in the end.
FairSpec ==
    /\ Init /\ [][Next]_vars
    /\ WF_vars(Flush \/ WriteFrame \/ WriteReturns \/ FlushFrame \/ FlushRefused \/ FlushDone)
    /\ WF_vars(TakeFrame \/ AcceptMessage)

-----------------------------------------------------------------------------
(* Properties *)

\* The read port delivers the messages given to the write port: whole, in order, each
\* once, however the frames of a message are spread over flushes and whatever the
\* reader refuses, as long as no call failed half way and the read port was
\* reconnected between messages only.  The list frame, if there is one, is the last of
\* the window: frames after it break this.
RoundTrip ==
    shape.after = 0 /\ clean /\ aligned =>
        IsPrefix(received, [n \in 1..Len(offered) |-> Translated(offered[n])])

\* A message that was queued reaches the reader, if its caller goes on flushing: the
\* reader gets as many messages, in a window with frames after the list too.
EveryMessageArrives ==
    \A n \in 1..MaxMessages :
        Len(offered) >= n ~> (Len(received) >= n \/ ~clean \/ ~aligned)

=============================================================================

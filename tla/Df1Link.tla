------------------------------ MODULE Df1Link -------------------------------
(***************************************************************************)
(* The DF1 serial line of src/tuxsql/TuxDf1/src/df1.c: send_DF1 and        *)
(* rcv_DF1, called one after the other by read_A2, write_AA and write_AB,  *)
(* and the processor at the other end of the line.                         *)
(*                                                                         *)
(* The line is two queues of DF1 symbols.  A frame to the processor is one *)
(* symbol; a frame from it is STX and ETX, because send_DF1, which waits   *)
(* for an answer, takes each of the two for one.  The bytes between them   *)
(* are what get_symbol calls data, and nobody looks at them there.         *)
(***************************************************************************)
EXTENDS Naturals, Sequences, SequencesExt

CONSTANTS MaxCalls,   \* commands given in a behaviour
          TnsRange,   \* a transaction number is a word: 2^16 in the code
          MaxNAK,     \* 3 in send_DF1: NAKs after which it resends
          MaxENQ,     \* 3 in send_DF1: ENQs it sends
          MaxTries,   \* how often the processor repeats a reply or asks for its ACK
          MaxJobs,    \* commands the processor holds before it answers NAK
          MaxNoise,   \* symbols lost or damaged on the line
          Nothing     \* no reply, no transaction

ASSUME Df1Assumption == /\ {MaxCalls, MaxNAK, MaxENQ, MaxTries, MaxJobs, MaxNoise} \subseteq Nat
                        /\ TnsRange \in Nat /\ TnsRange > MaxCalls

VARIABLES doing,      \* where the call is: idle, await (send_DF1), reply, frame (rcv_DF1)
          call,       \* the command being given, a ghost number
          tns,        \* the transaction number of df1.c
          nbr_NAK, nbr_ENQ,
          toPlc, fromPlc,
          result,     \* ghost: what each command returned
          taken,      \* ghost: the command whose reply each success took
          plcTns,     \* the last transaction the processor accepted
          plcRsp,     \* its last response, which it repeats after an ENQ
          plcJobs,    \* accepted commands without a reply
          plcOut,     \* the reply it wants an ACK for
          plcTries,
          executions, \* ghost: how often it executed each command
          noise

daemon   == <<doing, call, tns, nbr_NAK, nbr_ENQ, result, taken>>
plc      == <<plcTns, plcRsp, plcJobs, plcOut, plcTries, executions>>
lineVars == <<daemon, plc, toPlc, fromPlc, noise>>

Calls == 1 .. MaxCalls
Tns   == 0 .. TnsRange - 1
Replies == [call : Calls, tns : Tns, sts : {0, 1}]

ASSUME Df1NoReply == Nothing \notin Replies

Control(c)  == [sym |-> c, crc |-> "none"]
Command     == [sym |-> "frame", call |-> call', tns |-> tns', crc |-> "good"]
ReplyEnd(r) == [sym |-> "ETX", reply |-> r, crc |-> "good"]
ReplyFrame(r) == <<Control("STX"), ReplyEnd(r)>>

LineInit ==
    /\ doing = "idle" /\ call = 0 /\ nbr_NAK = 0 /\ nbr_ENQ = 0
    /\ tns \in Tns                             \* the clock, in Df1_open_device
    /\ toPlc = <<>> /\ fromPlc = <<>>
    /\ result = [c \in Calls |-> "unborn"] /\ taken = [c \in Calls |-> 0]
    /\ plcTns = Nothing /\ plcRsp = "NAK" /\ plcJobs = <<>> /\ plcOut = Nothing /\ plcTries = 0
    /\ executions = [c \in Calls |-> 0]
    /\ noise = MaxNoise

-----------------------------------------------------------------------------
(***************************************************************************)
(* The daemon.                                                             *)
(***************************************************************************)

Return(r) ==
    /\ doing' = "idle"
    /\ result' = [result EXCEPT ![call'] = r]

Say(c) == toPlc' = Append(toPlc, Control(c))

\* write of the frame, then the wait for an answer; a device that takes only
\* a part of the frame ends the call.
WriteFrame ==
    \/ /\ toPlc' = Append(toPlc, Command)
       /\ doing' = "await"
       /\ result' = [result EXCEPT ![call'] = "pending"]
    \/ Return("failure") /\ UNCHANGED toPlc

NextTns == (tns + 1) % TnsRange

\* read_A2, write_AA or write_AB: a new transaction number, and send_DF1.
Begin ==
    /\ doing = "idle" /\ call < MaxCalls
    /\ call' = call + 1
    /\ tns' = NextTns
    /\ nbr_NAK' = 0 /\ nbr_ENQ' = 0
    /\ WriteFrame
    /\ UNCHANGED <<fromPlc, taken, plc, noise>>

\* Mutant: a resent command gets a transaction number of its own.
Resend_NewTns == tns' = NextTns /\ WriteFrame

\* The same frame again, with the same transaction number.
Resend == tns' = tns /\ WriteFrame

\* send_DF1 after a control symbol: only ACK ends it and only NAK is
\* counted, but the frame goes again after any other symbol too.
AckOrResend(c) ==
    /\ nbr_NAK' = nbr_NAK + (IF c = "NAK" THEN 1 ELSE 0)
    /\ \/ /\ c = "ACK"
          /\ doing' = "reply" /\ UNCHANGED <<result, toPlc, tns>>
       \/ /\ c # "ACK" /\ nbr_NAK' <= MaxNAK
          /\ Resend
       \/ /\ c # "ACK" /\ nbr_NAK' > MaxNAK
          /\ Return("failure") /\ UNCHANGED <<toPlc, tns>>

Answered ==
    /\ doing = "await" /\ fromPlc # <<>>
    /\ fromPlc' = Tail(fromPlc)
    /\ call' = call
    /\ AckOrResend(Head(fromPlc).sym)
    /\ UNCHANGED <<nbr_ENQ, taken, plc, noise>>

\* A second without an answer: ENQ, or the end of the call.  The answer may
\* arrive between the end of the second and the ENQ.
Unanswered ==
    /\ doing = "await"
    /\ nbr_ENQ' = nbr_ENQ + 1
    /\ call' = call
    /\ \/ nbr_ENQ' > MaxENQ /\ Return("failure") /\ UNCHANGED toPlc
       \/ nbr_ENQ' <= MaxENQ /\ Say("ENQ") /\ UNCHANGED <<doing, result>>
    /\ UNCHANGED <<tns, nbr_NAK, fromPlc, taken, plc, noise>>

\* rcv_DF1 waits for a frame: STX begins one; to everything else, ENQ
\* included, it says NAK, because last_response is reset at each round.
ReplyBegins ==
    /\ doing = "reply" /\ fromPlc # <<>>
    /\ fromPlc' = Tail(fromPlc)
    /\ IF Head(fromPlc).sym = "STX" THEN doing' = "frame" /\ UNCHANGED toPlc
                                    ELSE Say("NAK") /\ UNCHANGED doing
    /\ UNCHANGED <<call, tns, nbr_NAK, nbr_ENQ, result, taken, plc, noise>>

\* Mutant: rcv_DF1 ignores an error of get_symbol, as send_DF1 does.
NoReply_Ignored == doing = "reply" /\ fromPlc = <<>> /\ UNCHANGED lineVars

\* The rest of the second that send_DF1 began passes.
NoReply ==
    /\ doing = "reply" /\ fromPlc = <<>>
    /\ call' = call /\ Return("failure")
    /\ UNCHANGED <<tns, nbr_NAK, nbr_ENQ, toPlc, fromPlc, taken, plc, noise>>

\* Mutant: the transaction number of the reply is not compared.
Finish_AnyTns(r) ==
    IF r.sts = 0 THEN Return("success") /\ taken' = [taken EXCEPT ![call] = r.call]
                 ELSE Return("failure") /\ UNCHANGED taken

\* read_A2, write_AA and write_AB with the reply in hand.
Finish(r) ==
    IF r.tns = tns /\ r.sts = 0
    THEN Return("success") /\ taken' = [taken EXCEPT ![call] = r.call]
    ELSE Return("failure") /\ UNCHANGED taken

\* Inside a frame rcv_DF1 takes bytes until a control symbol.  Only ETX may
\* end a frame, and its two bytes of CRC must come and fit.  While nothing
\* comes there is no step: the loop has no way out.
FrameEnds ==
    /\ doing = "frame" /\ fromPlc # <<>>
    /\ fromPlc' = Tail(fromPlc) /\ call' = call
    /\ LET s == Head(fromPlc) IN
       \/ /\ s.sym = "ETX" /\ s.crc = "good"
          /\ Say("ACK") /\ Finish(s.reply)
       \/ /\ s.sym # "ETX" \/ s.crc = "bad"
          /\ Say("NAK") /\ doing' = "reply" /\ UNCHANGED <<result, taken>>
       \/ /\ s.sym = "ETX" /\ s.crc = "missing"
          /\ Return("failure") /\ UNCHANGED <<toPlc, taken>>
    /\ UNCHANGED <<tns, nbr_NAK, nbr_ENQ, plc, noise>>

-----------------------------------------------------------------------------
(***************************************************************************)
(* The processor, not in src/: it accepts a frame with a right CRC, drops  *)
(* one with the transaction number of the last, answers ENQ with its last  *)
(* response, executes or refuses a command when it comes to it, and        *)
(* repeats a reply until it gets an ACK or has tried often enough.         *)
(***************************************************************************)

Hears(c) == /\ toPlc # <<>> /\ Head(toPlc).sym = c
            /\ toPlc' = Tail(toPlc)
            /\ UNCHANGED <<daemon, noise>>

Respond(c) == plcRsp' = c /\ fromPlc' = Append(fromPlc, Control(c))

PlcGetsFrame ==
    /\ Hears("frame")
    /\ LET f == Head(toPlc)
           new == f.tns # plcTns IN
       \/ /\ f.crc = "good" /\ (new => Len(plcJobs) < MaxJobs)
          /\ Respond("ACK")
          /\ plcTns' = f.tns
          /\ plcJobs' = IF new THEN Append(plcJobs, [call |-> f.call, tns |-> f.tns]) ELSE plcJobs
       \/ /\ f.crc # "good" \/ (new /\ Len(plcJobs) = MaxJobs)
          /\ Respond("NAK")
          /\ UNCHANGED <<plcTns, plcJobs>>
    /\ UNCHANGED <<plcOut, plcTries, executions>>

PlcReplies ==
    /\ plcJobs # <<>> /\ plcOut = Nothing
    /\ \E sts \in {0, 1} :
         LET j == Head(plcJobs)
             r == [call |-> j.call, tns |-> j.tns, sts |-> sts] IN
         /\ executions' = [executions EXCEPT ![j.call] = @ + 1 - sts]
         /\ plcOut' = r
         /\ fromPlc' = fromPlc \o ReplyFrame(r)
    /\ plcJobs' = Tail(plcJobs) /\ plcTries' = 0
    /\ UNCHANGED <<daemon, toPlc, plcTns, plcRsp, noise>>

PlcGetsAck ==
    /\ Hears("ACK")
    /\ plcOut' = Nothing
    /\ UNCHANGED <<fromPlc, plcTns, plcRsp, plcJobs, plcTries, executions>>

PlcGetsNak ==
    /\ Hears("NAK")
    /\ \/ /\ plcOut # Nothing /\ plcTries < MaxTries
          /\ plcTries' = plcTries + 1
          /\ fromPlc' = fromPlc \o ReplyFrame(plcOut)
          /\ UNCHANGED plcOut
       \/ /\ plcOut = Nothing \/ plcTries = MaxTries
          /\ plcOut' = Nothing
          /\ UNCHANGED <<plcTries, fromPlc>>
    /\ UNCHANGED <<plcTns, plcRsp, plcJobs, executions>>

PlcGetsEnq ==
    /\ Hears("ENQ")
    /\ Respond(plcRsp)
    /\ UNCHANGED <<plcTns, plcJobs, plcOut, plcTries, executions>>

\* No ACK for its reply: the processor asks for one, and in the end gives up.
PlcAsks ==
    /\ plcOut # Nothing
    /\ \/ /\ plcTries < MaxTries
          /\ plcTries' = plcTries + 1
          /\ fromPlc' = Append(fromPlc, Control("ENQ"))
          /\ UNCHANGED plcOut
       \/ /\ plcTries = MaxTries
          /\ plcOut' = Nothing
          /\ UNCHANGED <<plcTries, fromPlc>>
    /\ UNCHANGED <<daemon, toPlc, plcTns, plcRsp, plcJobs, executions, noise>>

-----------------------------------------------------------------------------
(***************************************************************************)
(* The line loses a symbol, or damages the bytes of a frame or cuts off    *)
(* its CRC.                                                                *)
(***************************************************************************)

Damage(s, crc) == IF s.crc = "none" THEN s ELSE [s EXCEPT !.crc = crc]

Disturbed(q) == {RemoveAt(q, i) : i \in DOMAIN q}
                \cup {[q EXCEPT ![i] = Damage(@, crc)] : i \in DOMAIN q, crc \in {"bad", "missing"}}

Noise ==
    /\ noise > 0 /\ noise' = noise - 1
    /\ \/ toPlc' \in Disturbed(toPlc) /\ UNCHANGED fromPlc
       \/ fromPlc' \in Disturbed(fromPlc) /\ UNCHANGED toPlc
    /\ UNCHANGED <<daemon, plc>>

-----------------------------------------------------------------------------
Daemon == Begin \/ Answered \/ Unanswered \/ ReplyBegins \/ NoReply \/ FrameEnds
Plc == PlcGetsFrame \/ PlcReplies \/ PlcGetsAck \/ PlcGetsNak \/ PlcGetsEnq \/ PlcAsks

LineNext == Daemon \/ Plc \/ Noise

\* df1.c is a loop without waiting for anything but the line and the clock:
\* a call that can go on does.  The processor and the line promise nothing.
LineSpec == LineInit /\ [][LineNext]_lineVars /\ WF_lineVars(Daemon)

-----------------------------------------------------------------------------
LineTypeOK ==
    /\ doing \in {"idle", "await", "reply", "frame"}
    /\ call \in 0 .. MaxCalls /\ tns \in Tns
    /\ nbr_NAK \in 0 .. MaxNAK + 1 /\ nbr_ENQ \in 0 .. MaxENQ + 1
    /\ result \in [Calls -> {"unborn", "pending", "success", "failure"}]
    /\ taken \in [Calls -> 0 .. MaxCalls]
    /\ plcTns \in Tns \cup {Nothing} /\ plcRsp \in {"ACK", "NAK"}
    /\ plcJobs \in Seq([call : Calls, tns : Tns]) /\ Len(plcJobs) <= MaxJobs
    /\ plcOut \in Replies \cup {Nothing} /\ plcTries \in 0 .. MaxTries
    /\ executions \in [Calls -> Nat]
    /\ noise \in 0 .. MaxNoise

\* A command that returns SUCCESS took the reply to itself: no reply that
\* was late, repeated after a NAK or left on the line by an earlier command
\* gives its data or its status to a later one (read_A2, write_AA).
TakenIsOwn == LineTypeOK /\ \A c \in Calls : result[c] = "success" => taken[c] = c

\* Whatever is lost, repeated or late, a command is executed at most once
\* and SUCCESS means that it was: send_DF1 repeats a frame with its
\* transaction number, rcv_DF1 takes replies of one number only.
Remote == INSTANCE RemoteCall
ImplementsRemoteCall == Remote!Spec

\* send_DF1 and rcv_DF1 come to an end whatever the processor does, with the
\* one exception of a line that falls silent inside a frame.
CallsReturn == []<>(doing = "idle") \/ <>[](doing = "frame" /\ fromPlc = <<>>)
=============================================================================

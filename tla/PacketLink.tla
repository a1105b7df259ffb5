----------------------------- MODULE PacketLink ------------------------------
(***************************************************************************)
(* The half-duplex link of packet.rs: a request goes out, the servo        *)
(* executes it and puts a reply on the line, async_read takes the first    *)
(* reply it finds there.  Replies carry neither a sequence number nor the  *)
(* command they answer, so what async_read takes may be an overdue reply   *)
(* to an earlier request.                                                  *)
(*                                                                         *)
(* Fragments and noise are skipped by async_read's header search, so on    *)
(* this model's line they are the same as a reply that was lost.           *)
(***************************************************************************)
EXTENDS ServoDevice

CONSTANTS MaxStale,   \* overdue replies the line holds at once (a bound)
          MaxFaults   \* faults in a behaviour (a bound)

ASSUME BoundsAssumption == MaxStale \in Nat /\ MaxFaults \in Nat

VARIABLES line,       \* replies in transit or buffered by the host, in order
          answered,   \* the last reply on the line answers the request in progress
          faults      \* faults so far

linkVars == << line, answered, faults >>

\* A reply is good, or it arrives with a wrong checksum or with fault flags
\* set: async_read refuses both alike.
Reply == [answers : Request, data : Images, good : BOOLEAN]

LinkTypeOK ==
    /\ line \in Seq(Reply)
    /\ answered \in BOOLEAN
    /\ faults \in 0 .. MaxFaults

LinkInit == line = << >> /\ answered = FALSE /\ faults = 0

Fault == faults < MaxFaults /\ faults' = faults + 1

\* Parameter bytes of a reply, and of the reply that request q calls for.
DataLength(q) == IF q.cmd = "Read" THEN Width(q.reg) ELSE 0

\* What the servo answers to q: a READ carries the register, the rest nothing.
ReplyTo(q, good) ==
    [answers |-> q,
     data    |-> IF q.cmd = "Read" THEN eeprom[q.motor][q.reg] ELSE Zero,
     good    |-> good]

\* Variant: parse_data takes whatever parameter bytes it finds.
LengthUnchecked(q, reply) == TRUE

\* async_read's checks: the id, the checksum, the fault flags, and in
\* parse_data the number of parameter bytes.  The comparison of response and
\* request types in async_readwrite adds nothing: parse_data names the
\* response after the request.
SameMotor(q, reply) == reply.answers.motor = q.motor
Intact(reply) == reply.good
SameLength(q, reply) == DataLength(reply.answers) = DataLength(q)

Accepts(q, reply) == SameMotor(q, reply) /\ Intact(reply) /\ SameLength(q, reply)

(***************************************************************************)
(* Fates of a request.                                                     *)
(***************************************************************************)
Answered(q) ==
    /\ Execute(q)
    /\ line' = Append(line, ReplyTo(q, TRUE))
    /\ answered' = TRUE
    /\ UNCHANGED faults

RequestLost(q) ==
    /\ Fault
    /\ answered' = FALSE
    /\ UNCHANGED << deviceVars, line >>

ReplyLost(q) ==
    /\ Fault
    /\ Execute(q)
    /\ answered' = FALSE
    /\ UNCHANGED line

ReplyBad(q) ==
    /\ Fault
    /\ Execute(q)
    /\ line' = Append(line, ReplyTo(q, FALSE))
    /\ answered' = TRUE

\* No fault of the link, and not counted as one.
AnsweredUncommitted(q) ==
    /\ CommitLost(q)
    /\ line' = Append(line, ReplyTo(q, TRUE))
    /\ answered' = TRUE
    /\ UNCHANGED faults

Transmit(q) ==
    Answered(q) \/ RequestLost(q) \/ ReplyLost(q) \/ ReplyBad(q) \/ AnsweredUncommitted(q)

(***************************************************************************)
(* Ends of the wait for a reply.                                           *)
(***************************************************************************)
TakeReply ==
    /\ line # << >>
    /\ line' = Tail(line)
    /\ answered' = FALSE
    /\ UNCHANGED << deviceVars, faults >>

\* The timer fires.  If the servo did answer, its reply is overdue and stays
\* on the line for whoever reads next.
WaitExpires ==
    /\ IF answered THEN Fault /\ Len(line) <= MaxStale ELSE UNCHANGED faults
    /\ answered' = FALSE
    /\ UNCHANGED << deviceVars, line >>

\* drain() reads until 5 ms of silence: it discards what has arrived by then.
DiscardArrived ==
    /\ \E n \in 0 .. Len(line) : line' = SubSeq(line, n + 1, Len(line))
    /\ UNCHANGED << deviceVars, answered, faults >>
==============================================================================

-------------------------------- MODULE WorkLog --------------------------------
(***************************************************************************)
(* What the publication of active work promises: one history of packets,   *)
(* begun once with a packet that was qualified and admitted, whatever else *)
(* it says, and extended by one requested transition of its last packet at *)
(* a time                                                                  *)
(* (.github/scripts/control-gateway-active-work-publisher.js and           *)
(* control-gateway/src/github-authority-bootstrap.js).                     *)
(***************************************************************************)
EXTENDS ActiveWorkPacket

VARIABLE log

\* What assertEnvelopeMatchesRequest asks of the first packet: not that it is at work, nor
\* that its history is empty, and a standing may have been lost since it was qualified.
Genesis(p) == p \in Packet /\ Valid(p) /\ p.standing # "PENDING"

\* RECORD_A01_QUALIFICATION_PASS
RecordPass(p) ==
  IF p.state = "ACTIVE" /\ p.standing = "PENDING" THEN UpdateStanding(p, "PASSED") ELSE {}

\* One candidate alone is offered.
OfferedAlone(q, c) == [q EXCEPT !.candidates = {c}]

\* AUTHORIZE_AND_START_SUCCESSOR: rebind, offer one candidate alone and start it.
AuthorizeAndStart(p) ==
  LET staged == Finalized({OfferedAlone(q, c) : q \in Rebind(p), c \in UNION Offers})
  IN {q \in UNION {Start(s) : s \in staged} : q.candidates = {}}

\* What a request may make of a packet, with the parameters its caller chose.
Transitions(p) ==
  {q \in Terminate(p) \union Rebind(p) \union RecordPass(p) \union AuthorizeAndStart(p) :
     q.epoch <= MaxEpoch}

Init == log = << >>

Begin ==
  /\ log = << >> /\ Len(log') = 1 /\ log' = <<log'[1]>>
  /\ Genesis(log'[1])

Advance ==
  /\ log # << >>
  /\ \E q \in Transitions(log[Len(log)]) : log' = Append(log, q)

Next == Begin \/ Advance

Spec == Init /\ [][Next]_log
=============================================================================

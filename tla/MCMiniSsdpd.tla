----------------------------- MODULE MCMiniSsdpd -----------------------------
EXTENDS MiniSsdpd

Device(u, s, n) == [url |-> u, st |-> s, usn |-> n]

\* Lengths at the border of one and two bytes, no device, and one that does not
\* fit or ends just before the end of the buffer.
Lists ==
  { <<>>,
    <<Device(2, 0, 1), Device(0, 3, 2)>>,
    <<Device(127, 1, 0), Device(128, 2, 1)>>,
    <<Device(129, 130, 127)>>,
    <<Device(2, 278, 1), Device(1, 1, 1)>>,
    <<Device(2, 291, 1)>>, <<Device(2, 292, 1)>>, <<Device(2, 294, 0)>> }
MCAnswers == {[devices |-> a, bytes |-> Bytes(a)] : a \in Lists}
MCLeftover == {0, 1, 65, 129}

\* What the theorem on the list assumes of the answers.
ASSUME AnswersAssumption == \A a \in MCAnswers : WellFormed(a)
=============================================================================

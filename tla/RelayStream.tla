----------------------------- MODULE RelayStream -----------------------------
(***************************************************************************)
(* What the relay promises its consumers: a record is either kept for      *)
(* later or published at once, never both; one that is published reaches a *)
(* stream at most once; only what is kept may be replayed, and only on the *)
(* base channel; nothing else ever appears in a stream, and a stream is    *)
(* never rewritten.                                                        *)
(***************************************************************************)
EXTENDS Naturals, Sequences

CONSTANTS Name, Class

VARIABLES log,   \* the records kept, by class
          out    \* the sequence of records of each stream

Streams == Name \X Class

Init == log = [k \in Class |-> {}] /\ out = [s \in Streams |-> <<>>]

Fresh(r) ==
    /\ \A k \in Class : r \notin log[k]
    /\ \A s \in Streams : \A i \in DOMAIN out[s] : out[s][i] # r

AppendTo(S, r) == [s \in Streams |-> IF s \in S THEN Append(out[s], r) ELSE out[s]]

Keep(k) ==
    /\ UNCHANGED out
    /\ \E r \in log'[k] \ log[k] : Fresh(r) /\ log' = [log EXCEPT ![k] = @ \cup {r}]

Publish(k) ==
    /\ UNCHANGED log
    /\ LET S == {s \in Name \X {k} : out'[s] # out[s]}
       IN  \E s \in S : \E r \in {out'[s][Len(out'[s])]} : Fresh(r) /\ out' = AppendTo(S, r)

Replay(k) ==
    /\ UNCHANGED log
    /\ \E r \in log[k] : out' = AppendTo({<<"base", k>>}, r)

Next == \E k \in Class : Keep(k) \/ Publish(k) \/ Replay(k)

Spec == Init /\ [][Next]_<<log, out>>
=============================================================================

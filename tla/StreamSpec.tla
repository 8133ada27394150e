----------------------------- MODULE StreamSpec -----------------------------
(***************************************************************************)
(* What a virtual stream promises to those who read it, whatever the ring  *)
(* buffer, the parked requests and the callbacks behind it do              *)
(* (agent/tcf/services/streamsservice.h).                                  *)
(*                                                                         *)
(* A stream is a growing log of bytes that may be closed.  A reader joins  *)
(* at a recent place and is given what follows it, without a gap, a        *)
(* repetition or a reordering; it is told the end only when it has had     *)
(* everything; and whoever fills the stream is held back, so that no       *)
(* reader is ever more than Size bytes behind.                             *)
(***************************************************************************)
EXTENDS Integers, Sequences, SequencesExt

CONSTANTS Readers, Size

VARIABLES
  log,     \* every byte the stream has accepted
  closed,  \* no more bytes will come
  at       \* reader -> where it joined, what it was given, was it told the end

absVars == <<log, closed, at>>

Off   == [on |-> FALSE, start |-> 0, got |-> <<>>, eos |-> FALSE]
At(n) == [on |-> TRUE, start |-> n, got |-> <<>>, eos |-> FALSE]

Place(a) == a.start + Len(a.got)

\* What reader state a may say of a log l, closed or not.
Served(a, l, c) ==
  /\ Place(a) <= Len(l)
  /\ a.got = SubSeq(l, a.start + 1, Place(a))
  /\ a.eos => c /\ Place(a) = Len(l)
  /\ Len(l) - Place(a) <= Size

SpecInit == log = <<>> /\ closed = FALSE /\ at = [r \in Readers |-> Off]

Join == /\ UNCHANGED <<log, closed>>
        /\ \A r \in Readers : \/ at'[r] = at[r]
                              \/ /\ ~at[r].on
                                 /\ \E n \in 0..Size : at'[r] = At(Len(log) - n)
                                 /\ at'[r].start >= 0

Leave == /\ UNCHANGED <<log, closed>>
         /\ \A r \in Readers : at'[r] \in {at[r], Off}

Transfer ==
  /\ IsPrefix(log, log')
  /\ closed => closed' /\ log' = log
  /\ \A r \in Readers :
       IF at[r].on
       THEN /\ at'[r].on /\ at'[r].start = at[r].start
            /\ IsPrefix(at[r].got, at'[r].got)
            /\ at[r].eos => at'[r].eos
            /\ Served(at'[r], log', closed')
       ELSE at'[r] = at[r]

SpecNext == Join \/ Leave \/ Transfer

AbsSpec == SpecInit /\ [][SpecNext]_absVars
=============================================================================

-------------------------------- MODULE Tig --------------------------------
(***************************************************************************)
(* TIG as the pool sees it, modelled from how the pool uses it: what       *)
(* becomes of the request of each attempt, and the window of recent        *)
(* precommits that get-benchmarks serves.                                  *)
(*                                                                         *)
(* A request is "unsent", then on the "wire" (where it may stay for any    *)
(* time, whatever its sender has concluded), then "refused" or applied.    *)
(* An applied precommit is "pending", then "confirmed", and is "past" once *)
(* it has left the window.                                                 *)
(***************************************************************************)
EXTENDS WriteLedger

VARIABLE tig    \* tig[a]: what became of the request of attempt a

TigStates == {"unsent", "wire", "refused", "pending", "confirmed", "past"}

TigTypeOK == tig \in [Attempts -> TigStates]

TigInit == tig = [a \in Attempts |-> "unsent"]

Applied(a) == tig[a] \in {"pending", "confirmed", "past"}

Windows == [shown : SUBSET Attempts, confirmed : SUBSET Attempts]

NoWindow == [shown |-> {}, confirmed |-> {}]

TigWindow ==
  [shown |-> {a \in Attempts : tig[a] \in {"pending", "confirmed"}},
   confirmed |-> {a \in Attempts : tig[a] = "confirmed"}]

Transmit(a) ==
  /\ tig[a] = "unsent"
  /\ tig' = [tig EXCEPT ![a] = "wire"]

(* TIG processes a request, confirms what it applied in a later block, and *)
(* in time stops showing it; it may also drop a precommit it never         *)
(* confirmed.                                                              *)
TigMoves(a) ==
  \/ /\ tig[a] = "wire"
     /\ \E s \in {"refused", "pending"} : tig' = [tig EXCEPT ![a] = s]
  \/ /\ tig[a] = "pending"
     /\ \E s \in {"confirmed", "past"} : tig' = [tig EXCEPT ![a] = s]
  \/ /\ tig[a] = "confirmed"
     /\ tig' = [tig EXCEPT ![a] = "past"]

=============================================================================

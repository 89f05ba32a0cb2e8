----------------------------- MODULE FencedGrants -----------------------------
(***************************************************************************)
(* What the ownership protocol promises, without links, claims or tasks:   *)
(* fencing tokens.  An arbiter moves items between holders and numbers     *)
(* every move.  A holder may learn a token only while it is current, may   *)
(* keep it for as long as it likes (nothing takes it back, because a       *)
(* holder can be out of reach), and may lose it at any time.               *)
(***************************************************************************)
EXTENDS Integers

CONSTANTS Items, Arbiter, Holders, NoHolder

VARIABLES
  owner,  \* the current owner of each item
  epoch,  \* the number of the move that made it so
  held    \* every token a holder has, in memory, on disk or on its way to it

fencedVars == <<owner, epoch, held>>

Token == [instance: Items, epoch: Nat]

FencedInit ==
  /\ owner = [i \in Items |-> NoHolder]
  /\ epoch = [i \in Items |-> 0]
  /\ held = [h \in Holders |-> {}]

\* The arbiter moves some items to h; each move takes the next number.
Move(h, moved) ==
  /\ \A i \in moved : owner[i] # h
  /\ owner' = [i \in Items |-> IF i \in moved THEN h ELSE owner[i]]
  /\ epoch' = [i \in Items |-> IF i \in moved THEN epoch[i] + 1 ELSE epoch[i]]
  /\ held' = held

\* Holders learn current tokens of their own and forget any they like.
LearnAndForget ==
  /\ UNCHANGED <<owner, epoch>>
  /\ held' \in [Holders -> SUBSET Token]
  /\ \A h \in Holders : \A t \in held'[h] :
       \/ t \in held[h]
       \/ owner[t.instance] = h /\ t.epoch = epoch[t.instance]

FencedNext ==
  \/ \E h \in Holders \cup {Arbiter}, moved \in SUBSET Items : Move(h, moved)
  \/ LearnAndForget

FencedSpec == FencedInit /\ [][FencedNext]_fencedVars

(***************************************************************************)
(* Fencing.  No two holders ever hold the same token, no token is newer    *)
(* than the arbiter's, and one that is as new belongs to the owner: so a   *)
(* write stamped with a token names one writer, and an arbiter comparing   *)
(* numbers can always tell the current owner from a stale one.             *)
(***************************************************************************)
TokensAreExclusive ==
  \A g, h \in Holders : g # h => held[g] \cap held[h] = {}

CurrentTokensAreOwners ==
  \A h \in Holders : \A t \in held[h] :
    /\ t.epoch <= epoch[t.instance]
    /\ t.epoch = epoch[t.instance] => owner[t.instance] = h

FencedTypeOK ==
  /\ owner \in [Items -> Holders \cup {Arbiter, NoHolder}]
  /\ epoch \in [Items -> Nat]
  /\ held \in [Holders -> SUBSET Token]
===============================================================================

-------------------------- MODULE FencedGrantsProofs --------------------------
(***************************************************************************)
(* Fenced grants keep their promise for every set of items and holders.    *)
(* The invariant is inductive as it stands: a token only enters a holder's *)
(* hands while it is current and his, and a move leaves it behind.         *)
(***************************************************************************)
EXTENDS FencedGrants, TLAPS

FencedInv == FencedTypeOK /\ TokensAreExclusive /\ CurrentTokensAreOwners

\* Nobody holds anything at the start.
LEMMA FencedInitially == FencedInit => FencedInv
BY DEF FencedInit, FencedInv, FencedTypeOK, TokensAreExclusive,
       CurrentTokensAreOwners

\* A move only makes tokens older.
LEMMA MoveKeepsInv ==
  ASSUME FencedInv,
         NEW h \in Holders \cup {Arbiter}, NEW moved \in SUBSET Items,
         Move(h, moved)
  PROVE  FencedInv'
<1> USE DEF FencedInv
<1>1. FencedTypeOK'
  BY DEF FencedTypeOK, Move
<1>2. TokensAreExclusive'
  BY DEF TokensAreExclusive, Move
<1>3. CurrentTokensAreOwners'
  <2> SUFFICES ASSUME NEW g \in Holders, NEW t \in held'[g]
               PROVE  /\ t.epoch <= epoch'[t.instance]
                      /\ t.epoch = epoch'[t.instance] => owner'[t.instance] = g
    BY DEF CurrentTokensAreOwners
  <2>1. t \in held[g] /\ t.instance \in Items /\ t.epoch \in Nat
    BY DEF Move, FencedTypeOK, Token
  <2>2. t.epoch <= epoch[t.instance] /\ epoch[t.instance] \in Nat
    BY <2>1 DEF CurrentTokensAreOwners, FencedTypeOK
  <2>3. CASE t.instance \in moved
    <3>1. epoch'[t.instance] = epoch[t.instance] + 1
      BY <2>1, <2>3 DEF Move
    <3> QED BY <3>1, <2>1, <2>2
  <2>4. CASE t.instance \notin moved
    BY <2>1, <2>2, <2>4 DEF Move, CurrentTokensAreOwners
  <2> QED BY <2>3, <2>4
<1> QED BY <1>1, <1>2, <1>3

\* A token learned now is the owner's, so nobody else can have it already.
LEMMA LearningKeepsInv ==
  ASSUME FencedInv, LearnAndForget
  PROVE  FencedInv'
<1> USE DEF FencedInv
<1>1. FencedTypeOK'
  BY DEF FencedTypeOK, LearnAndForget
<1>2. TokensAreExclusive'
  <2> SUFFICES ASSUME NEW g \in Holders, NEW h \in Holders, g # h,
                      NEW t \in held'[g], t \in held'[h]
               PROVE  FALSE
    BY DEF TokensAreExclusive
  <2>1. \/ t \in held[g]
        \/ owner[t.instance] = g /\ t.epoch = epoch[t.instance]
    BY DEF LearnAndForget
  <2>2. \/ t \in held[h]
        \/ owner[t.instance] = h /\ t.epoch = epoch[t.instance]
    BY DEF LearnAndForget
  <2> QED BY <2>1, <2>2 DEF TokensAreExclusive, CurrentTokensAreOwners
<1>3. CurrentTokensAreOwners'
  <2> SUFFICES ASSUME NEW h \in Holders, NEW t \in held'[h]
               PROVE  /\ t.epoch <= epoch[t.instance]
                      /\ t.epoch = epoch[t.instance] => owner[t.instance] = h
    BY DEF CurrentTokensAreOwners, LearnAndForget
  <2>1. t \in Token
    BY DEF LearnAndForget
  <2>2. epoch[t.instance] \in Nat
    BY <2>1 DEF Token, FencedTypeOK
  <2>3. CASE t \in held[h]
    BY <2>3 DEF CurrentTokensAreOwners
  <2>4. CASE owner[t.instance] = h /\ t.epoch = epoch[t.instance]
    BY <2>2, <2>4
  <2> QED BY <2>3, <2>4 DEF LearnAndForget
<1> QED BY <1>1, <1>2, <1>3

\* The invariant is inductive.
LEMMA FencedInvKept == FencedInv /\ [FencedNext]_fencedVars => FencedInv'
<1> SUFFICES ASSUME FencedInv, [FencedNext]_fencedVars
             PROVE  FencedInv'
  OBVIOUS
<1>1. CASE UNCHANGED fencedVars
  BY <1>1 DEF fencedVars, FencedInv, FencedTypeOK, TokensAreExclusive,
              CurrentTokensAreOwners
<1>2. CASE FencedNext
  BY <1>2, MoveKeepsInv, LearningKeepsInv DEF FencedNext
<1> QED BY <1>1, <1>2

(***************************************************************************)
(* Fencing tokens fence: in every behaviour no two holders hold the same   *)
(* token, and whoever holds the current one is the owner.                  *)
(***************************************************************************)
THEOREM FencedGrantsFence ==
  FencedSpec => [](TokensAreExclusive /\ CurrentTokensAreOwners)
<1>1. FencedInv => TokensAreExclusive /\ CurrentTokensAreOwners
  BY DEF FencedInv
<1> QED BY <1>1, FencedInitially, FencedInvKept, PTL DEF FencedSpec
===============================================================================

---------------------------- MODULE AccountsProofs ----------------------------
(* Proofs about Accounts, for any identities, connections and bounds.      *)
EXTENDS Accounts, TLAPS

\* With no crossed call, at most one call is under way; the list it is about to write
\* is that of the accounts, and the file is when there is none.
Uncrossed ==
  boot = Serving /\ ~crossed =>
    /\ \A c, d \in Callers : InCall(c) /\ InCall(d) => c = d
    /\ \A c \in Callers : call[c].pc = "persist" => call[c].list = Names
    /\ (\A c \in Callers : ~InCall(c)) => file = Names

AccountsInv == AccountsTypeOK /\ NoDanglingLinks /\ LinksFollow /\ Uncrossed

\* The pc of a call tells whether it is one.
LEMMA CallPcs ==
  ASSUME AccountsTypeOK, NEW c \in Callers
  PROVE  /\ InCall(c) <=> call[c].pc # "idle"
         /\ InCall(c) <=> call[c].pc \in {"recompute", "scan", "persist"}
         /\ call[c].pc = "persist" => call[c].list \in SUBSET Who
BY DEF AccountsTypeOK, Calls, InCall, Idle

LEMMA BootPcs ==
  ASSUME AccountsTypeOK
  PROVE  /\ boot = Serving <=> boot.pc = "serving"
         /\ boot.pc \in {"serving", "insert", "recompute", "persist"}
         /\ boot.pc = "insert" => /\ boot = [pc |-> "insert", todo |-> boot.todo, added |-> boot.added]
                                  /\ boot.todo \in SUBSET Who /\ boot.added \in BOOLEAN
BY DEF AccountsTypeOK, Boots, Serving

LEMMA NamesAreWho == ASSUME AccountsTypeOK PROVE Names \subseteq Who
BY DEF AccountsTypeOK, Names, Stored

LEMMA DerivedHolds == Derived \subseteq SUBSET Stored
BY DEF Derived

LEMMA InitHolds == AccountsInit => AccountsInv
<1> SUFFICES ASSUME AccountsInit PROVE AccountsInv
  OBVIOUS
<1> USE AccountsAssumption DEF AccountsAssumption, AccountsInit, Booting
<1>1. Stored = {} /\ Names = {}
  BY DEF Stored, Names
<1>b. boot \in Boots /\ boot.todo \cap Names = {}
  BY <1>1 DEF Boots
<1>c. call \in [Callers -> Calls] /\ \A c \in Callers : ~InCall(c)
  BY DEF Calls, InCall
<1>d. accounts \in [Id -> Who \cup {NoOne}] /\ made \in 0..MaxAccounts /\ restarts \in 0..MaxRestarts
  OBVIOUS
<1>2. AccountsTypeOK
  BY <1>1, <1>b, <1>c, <1>d DEF AccountsTypeOK
<1>3. Derived = {}
  BY <1>1 DEF Derived
<1>4. boot # Serving
  BY DEF Serving
<1> QED
  BY <1>1, <1>2, <1>3, <1>4 DEF AccountsInv, NoDanglingLinks, LinksFollow, Uncrossed

LEMMA TypesStep == AccountsTypeOK /\ [AccountsNext]_accountsVars => AccountsTypeOK'
<1> SUFFICES ASSUME AccountsTypeOK, [AccountsNext]_accountsVars PROVE AccountsTypeOK'
  OBVIOUS
<1> USE AccountsAssumption DEF AccountsAssumption
<1>i. ASSUME NEW who \in Who, Insert(who)
      PROVE  /\ accounts' \in [Id -> Who \cup {NoOne}]
             /\ made' \in 0..MaxAccounts /\ \A i \in Stored' : i <= made'
             /\ Names' \subseteq Names \cup {who}
  BY <1>i DEF Insert, AccountsTypeOK, Stored, Names, Id
<1>1. ASSUME NEW c \in Callers, NEW who \in Who, Create(c, who) PROVE AccountsTypeOK'
  BY <1>1, <1>i, BootPcs DEF Create, Begin, Goes, AccountsTypeOK, Calls, InCall, Idle, Serving
<1>2. ASSUME NEW c \in Callers, NEW i \in 1..made, Delete(c, i) PROVE AccountsTypeOK'
  <2>1. accounts' \in [Id -> Who \cup {NoOne}] /\ made' = made /\ Stored' \subseteq Stored
    BY <1>2 DEF Delete, AccountsTypeOK, Stored
  <2>2. call' \in [Callers -> Calls] /\ crossed' \in BOOLEAN /\ boot = Serving
    BY <1>2 DEF Delete, Begin, Goes, AccountsTypeOK, Calls, InCall
  <2> QED
    BY <1>2, <2>1, <2>2 DEF Delete, AccountsTypeOK, Serving
<1>3. ASSUME NEW c \in Callers, RecomputeLinks(c) PROVE AccountsTypeOK'
  <2>1. links' \subseteq SUBSET Id
    BY <1>3, DerivedHolds DEF RecomputeLinks, Recompute, Stored
  <2>2. boot = Serving
    BY <1>3, CallPcs DEF RecomputeLinks, AccountsTypeOK
  <2> QED
    BY <1>3, <2>1, <2>2 DEF RecomputeLinks, Recompute, Goes, AccountsTypeOK, Calls, Names, Stored, Serving
<1>4. ASSUME NEW c \in Callers, ScanAccounts(c) PROVE AccountsTypeOK'
  <2>1. boot = Serving
    BY <1>4, CallPcs DEF ScanAccounts, AccountsTypeOK
  <2> QED
    BY <1>4, <2>1, NamesAreWho DEF ScanAccounts, Goes, AccountsTypeOK, Calls, Names, Stored, Serving
<1>5. ASSUME NEW c \in Callers, PersistAccounts(c) PROVE AccountsTypeOK'
  <2>1. boot = Serving /\ call[c].list \in SUBSET Who
    BY <1>5, CallPcs DEF PersistAccounts, AccountsTypeOK
  <2> QED
    BY <1>5, <2>1 DEF PersistAccounts, Goes, AccountsTypeOK, Calls, Names, Stored, Serving
<1>6. ASSUME NEW who \in Who, SeedInsert(who) PROVE AccountsTypeOK'
  <2>1. boot' \in Boots /\ boot'.pc = "insert" /\ boot'.todo = boot.todo \ {who}
    BY <1>6, BootPcs DEF SeedInsert, Boots
  <2>2. boot'.todo \cap Names' = {}
    BY <1>6, <1>i, <2>1 DEF SeedInsert, AccountsTypeOK
  <2>3. \A c \in Callers : ~InCall(c)'
    BY <1>6, BootPcs DEF SeedInsert, AccountsTypeOK, InCall, Idle
  <2>4. Insert(who) /\ UNCHANGED <<links, file, call, crossed, lost, restarts>>
    BY <1>6 DEF SeedInsert
  <2> QED
    BY <1>i, <2>1, <2>2, <2>3, <2>4 DEF AccountsTypeOK
<1>7. CASE SeedInserted
  BY <1>7, BootPcs DEF SeedInserted, AfterInserts, AccountsTypeOK, Boots, Names, Stored, InCall, Idle
<1>8. CASE SeedRecompute
  <2>1. links' \subseteq SUBSET Id
    BY <1>8, DerivedHolds DEF SeedRecompute, Recompute, Stored
  <2> QED
    BY <1>8, <2>1, BootPcs DEF SeedRecompute, Recompute, AccountsTypeOK, Boots, Names, Stored, InCall, Idle
<1>9. CASE SeedPersist
  BY <1>9, NamesAreWho DEF SeedPersist, AccountsTypeOK, Boots, Names, Stored, InCall, Idle, Serving
<1>10. CASE Restart
  <2>1. Names' = Names /\ Stored' = Stored
    BY <1>10 DEF Restart, Names, Stored
  <2>2. boot' \in Boots /\ boot'.todo \cap Names' = {}
    BY <1>10, <2>1 DEF Restart, Booting, AccountsTypeOK, Boots
  <2>3. call' \in [Callers -> Calls] /\ \A c \in Callers : ~InCall(c)'
    BY <1>10 DEF Restart, Calls, InCall
  <2>4. restarts' \in 0..MaxRestarts
    <3>1. restarts < MaxRestarts /\ restarts' = restarts + 1
      BY <1>10 DEF Restart
    <3>2. restarts \in 0..MaxRestarts
      BY DEF AccountsTypeOK
    <3> QED
      BY <3>1, <3>2
  <2>5. crossed' \in BOOLEAN
    <3>1. crossed' = FALSE
      BY <1>10 DEF Restart
    <3> QED
      BY <3>1, Zenon
  <2>6. lost' \in BOOLEAN
    <3>1. lost' = Unlinked
      BY <1>10 DEF Restart
    <3>2. Unlinked \in BOOLEAN
      BY Zenon DEF Unlinked
    <3> QED
      BY <3>1, <3>2
  <2>7. UNCHANGED <<accounts, made, links, file>>
    BY <1>10 DEF Restart
  <2> QED
    BY <2>1, <2>2, <2>3, <2>4, <2>5, <2>6, <2>7 DEF AccountsTypeOK
<1>11. CASE UNCHANGED accountsVars
  BY <1>11 DEF accountsVars, AccountsTypeOK, Names, Stored, InCall, Idle, Serving
<1> QED
  BY <1>1, <1>2, <1>3, <1>4, <1>5, <1>6, <1>7, <1>8, <1>9, <1>10, <1>11 DEF AccountsNext

LEMMA DanglingStep ==
  AccountsTypeOK /\ NoDanglingLinks /\ [AccountsNext]_accountsVars => NoDanglingLinks'
<1> SUFFICES ASSUME AccountsTypeOK, NoDanglingLinks, [AccountsNext]_accountsVars
             PROVE  NoDanglingLinks'
  OBVIOUS
<1>1. ASSUME NEW who \in Who, Insert(who), UNCHANGED links PROVE NoDanglingLinks'
  <2>1. Stored \subseteq Stored'
    BY <1>1, AccountsAssumption DEF AccountsAssumption, Insert, AccountsTypeOK, Stored, Id
  <2> QED
    BY <1>1, <2>1 DEF NoDanglingLinks
<1>2. ASSUME Recompute, UNCHANGED accounts PROVE NoDanglingLinks'
  BY <1>2, DerivedHolds DEF Recompute, NoDanglingLinks, Stored
<1>3. ASSUME NEW c \in Callers, NEW i \in 1..made, Delete(c, i) PROVE NoDanglingLinks'
  BY <1>3 DEF Delete, NoDanglingLinks, AccountsTypeOK, Stored
<1>4. ASSUME UNCHANGED <<accounts, links>> PROVE NoDanglingLinks'
  BY <1>4 DEF NoDanglingLinks, Stored
<1> QED
  BY <1>1, <1>2, <1>3, <1>4
  DEF AccountsNext, Create, RecomputeLinks, ScanAccounts, PersistAccounts, SeedInsert,
      SeedInserted, SeedRecompute, SeedPersist, Restart, accountsVars

LEMMA LinksStep ==
  AccountsTypeOK /\ LinksFollow /\ [AccountsNext]_accountsVars => LinksFollow'
<1> SUFFICES ASSUME AccountsTypeOK, LinksFollow, [AccountsNext]_accountsVars
             PROVE  LinksFollow'
  OBVIOUS
<1>1. ASSUME NEW c \in Callers, call' = [call EXCEPT ![c] = [pc |-> "recompute"]]
      PROVE  LinksFollow'
  BY <1>1 DEF LinksFollow, Unlinked, AccountsTypeOK
<1>2. ASSUME Recompute, UNCHANGED accounts PROVE LinksFollow'
  BY <1>2 DEF Recompute, LinksFollow, Derived, Stored
<1>3. ASSUME UNCHANGED <<accounts, links>>, Unlinked => Unlinked' PROVE LinksFollow'
  BY <1>3 DEF LinksFollow, Derived, Stored
<1>4. ASSUME NEW who \in Who, SeedInsert(who) PROVE LinksFollow'
  BY <1>4 DEF SeedInsert, LinksFollow, Unlinked
<1>5. ASSUME NEW c \in Callers, ScanAccounts(c) \/ PersistAccounts(c) PROVE LinksFollow'
  <2>1. Unlinked => Unlinked'
    BY <1>5, CallPcs DEF ScanAccounts, PersistAccounts, Goes, Unlinked, AccountsTypeOK, Idle
  <2> QED
    BY <1>3, <1>5, <2>1 DEF ScanAccounts, PersistAccounts
<1>6. CASE SeedInserted
  <2>1. Unlinked => Unlinked'
    BY <1>6 DEF SeedInserted, AfterInserts, Unlinked
  <2> QED
    BY <1>3, <1>6, <2>1 DEF SeedInserted
<1>7. CASE SeedPersist
  <2>1. Unlinked => Unlinked'
    BY <1>7 DEF SeedPersist, Unlinked
  <2> QED
    BY <1>3, <1>7, <2>1 DEF SeedPersist
<1>8. CASE Restart
  <2>1. Unlinked => Unlinked'
    BY <1>8 DEF Restart, Unlinked
  <2> QED
    BY <1>3, <1>8, <2>1 DEF Restart
<1>9. CASE UNCHANGED accountsVars
  BY <1>3, <1>9 DEF accountsVars, Unlinked
<1> QED
  BY <1>1, <1>2, <1>4, <1>5, <1>6, <1>7, <1>8, <1>9
  DEF AccountsNext, Create, Delete, Goes, RecomputeLinks, SeedRecompute

LEMMA UncrossedStep ==
  AccountsTypeOK /\ Uncrossed /\ [AccountsNext]_accountsVars => Uncrossed'
<1> SUFFICES ASSUME AccountsTypeOK, Uncrossed, [AccountsNext]_accountsVars PROVE Uncrossed'
  OBVIOUS
<1>0. ASSUME boot'.pc # "serving" PROVE Uncrossed'
  BY <1>0 DEF Uncrossed, Serving
<1>1. ASSUME NEW c \in Callers, Begin(c), Goes(c, [pc |-> "recompute"]) PROVE Uncrossed'
  BY <1>1 DEF Begin, Goes, Uncrossed, InCall, AccountsTypeOK, Idle
<1>2. ASSUME NEW c \in Callers, UNCHANGED <<accounts, boot, crossed>>,
             InCall(c), NEW next, Goes(c, next),
             \/ next.pc = "scan" /\ UNCHANGED file
             \/ next.pc = "persist" /\ next.list = Names /\ UNCHANGED file
             \/ next = Idle /\ call[c].pc = "persist" /\ file' = call[c].list
      PROVE  Uncrossed'
  <2> SUFFICES ASSUME boot' = Serving, ~crossed'
               PROVE  /\ \A e, d \in Callers : InCall(e)' /\ InCall(d)' => e = d
                      /\ \A e \in Callers : call'[e].pc = "persist" => call'[e].list = Names'
                      /\ (\A e \in Callers : ~InCall(e)') => file' = Names'
    BY DEF Uncrossed
  <2>1. /\ \A e, d \in Callers : InCall(e) /\ InCall(d) => e = d
        /\ \A e \in Callers : call[e].pc = "persist" => call[e].list = Names
    BY <1>2 DEF Uncrossed
  <2>2. Names' = Names /\ call'[c] = next /\ \A e \in Callers \ {c} : call'[e] = call[e]
    BY <1>2 DEF Names, Stored, Goes, AccountsTypeOK
  <2>3. \A e \in Callers \ {c} : ~InCall(e) /\ ~InCall(e)'
    BY <1>2, <2>1, <2>2 DEF InCall
  <2>4. next # Idle => InCall(c)'
    BY <2>2 DEF InCall
  <2>5. next = Idle => file' = Names'
    BY <1>2, <2>1, <2>2 DEF Idle
  <2>6. call'[c].pc = "persist" => call'[c].list = Names'
    BY <1>2, <2>2 DEF Idle
  <2> QED
    BY <2>1, <2>2, <2>3, <2>4, <2>5, <2>6
<1>3. ASSUME NEW c \in Callers, RecomputeLinks(c) PROVE Uncrossed'
  BY <1>2, <1>3, CallPcs DEF RecomputeLinks
<1>4. ASSUME NEW c \in Callers, ScanAccounts(c) PROVE Uncrossed'
  BY <1>2, <1>4, CallPcs DEF ScanAccounts
<1>5. ASSUME NEW c \in Callers, PersistAccounts(c) PROVE Uncrossed'
  BY <1>2, <1>5, CallPcs DEF PersistAccounts
<1>6. CASE SeedPersist
  <2>1. /\ \A c \in Callers : call'[c] = call[c] /\ ~InCall(c) /\ call[c].pc = "idle"
        /\ file' = Names'
    BY <1>6, CallPcs, BootPcs DEF SeedPersist, AccountsTypeOK, Names, Stored
  <2> QED
    BY <2>1 DEF Uncrossed, InCall
<1>7. CASE UNCHANGED accountsVars
  BY <1>7 DEF accountsVars, Uncrossed, Names, Stored, InCall
<1> QED
  BY <1>0, <1>1, <1>3, <1>4, <1>5, <1>6, <1>7
  DEF AccountsNext, Create, Delete, SeedInsert, SeedInserted, AfterInserts, SeedRecompute,
      Restart, Booting

\* The four together are inductive.
LEMMA Invariance == AccountsSpec => []AccountsInv
<1>1. AccountsInv /\ [AccountsNext]_accountsVars => AccountsInv'
  BY TypesStep, DanglingStep, LinksStep, UncrossedStep DEF AccountsInv
<1> QED
  BY InitHolds, <1>1, PTL DEF AccountsSpec

(***************************************************************************)
(* Type correctness of the account manager, and that startup never has an  *)
(* account left to import that is stored.                                  *)
(***************************************************************************)
THEOREM AccountsTypes == AccountsSpec => []AccountsTypeOK
BY Invariance, PTL DEF AccountsInv

(***************************************************************************)
(* Deleting an account never leaves a link to it, for any number of        *)
(* overlapping calls.                                                      *)
(***************************************************************************)
THEOREM LinksNeverDangle == AccountsSpec => []NoDanglingLinks
BY Invariance, PTL DEF AccountsInv

(***************************************************************************)
(* The links are those of the accounts when none are left to derive.       *)
(***************************************************************************)
THEOREM LinksFollowAccounts == AccountsSpec => []LinksFollow
BY Invariance, PTL DEF AccountsInv

(***************************************************************************)
(* The config file lists the accounts after a call that no other crossed,  *)
(* and after every start.                                                  *)
(***************************************************************************)
THEOREM FileFollowsAccounts == AccountsSpec => []FileFollows
<1>1. AccountsInv => FileFollows
  BY DEF AccountsInv, Uncrossed, FileFollows, Quiet
<1> QED
  BY Invariance, <1>1, PTL
===============================================================================

------------------------------- MODULE Accounts -------------------------------
(***************************************************************************)
(* The account manager of the global server (sandpolis-account,            *)
(* management.rs): clients create and delete accounts, links between those *)
(* that share an identity are derived from them, and the accounts are      *)
(* written to the realm's config file, which a restart imports from.       *)
(*                                                                         *)
(* A request is handled to its end by the task of its connection, but in   *)
(* several transactions, and the requests of several connections overlap.  *)
(***************************************************************************)
EXTENDS Integers, FiniteSets

CONSTANTS
  Who,         \* identities: a domain with a user name or an email
  Shares,      \* pairs of identities that share a name or an email
  NoOne,
  Callers,     \* connections of clients
  MaxAccounts, \* bound: accounts inserted
  MaxRestarts  \* bound: times the process is started again

ASSUME AccountsAssumption ==
  /\ NoOne \notin Who
  /\ Shares \subseteq SUBSET Who
  /\ MaxAccounts \in Nat /\ MaxRestarts \in Nat

Id == 1..MaxAccounts

VARIABLES
  accounts, \* the identity of each account stored
  made,     \* the ids given so far
  links,    \* the derived links, pairs of accounts
  file,     \* the identities the config file lists
  call,     \* what each connection's handler is doing
  boot,     \* what startup is doing
  crossed,  \* history: whether the last call began while another ran
  lost,     \* history: whether a process died between an account and its links
  restarts

accountsVars == <<accounts, made, links, file, call, boot, crossed, lost, restarts>>

Stored == {i \in Id : accounts[i] # NoOne}
Names  == {accounts[i] : i \in Stored}

\* derive_links finds a link between two accounts.
Related(w, v) == w = v \/ {w, v} \in Shares

Derived ==
  {p \in SUBSET Stored : \E i, j \in p : i # j /\ p = {i, j} /\ Related(accounts[i], accounts[j])}

Idle    == [pc |-> "idle"]
Serving == [pc |-> "serving"]
InCall(c) == call[c] # Idle
Quiet     == boot = Serving /\ \A c \in Callers : ~InCall(c)

Calls == {Idle, [pc |-> "recompute"], [pc |-> "scan"]} \cup [pc : {"persist"}, list : SUBSET Who]
Boots == {Serving, [pc |-> "recompute"], [pc |-> "persist"]}
           \cup [pc : {"insert"}, todo : SUBSET Who, added : BOOLEAN]

\* What startup has left to import is not stored.
AccountsTypeOK ==
  /\ accounts \in [Id -> Who \cup {NoOne}]
  /\ made \in 0..MaxAccounts /\ \A i \in Stored : i <= made
  /\ links \subseteq SUBSET Id /\ file \subseteq Who
  /\ call \in [Callers -> Calls] /\ boot \in Boots
  /\ boot.pc = "insert" => boot.todo \cap Names = {}
  /\ boot # Serving => \A c \in Callers : ~InCall(c)
  /\ crossed \in BOOLEAN /\ lost \in BOOLEAN
  /\ restarts \in 0..MaxRestarts

-----------------------------------------------------------------------------
(* Startup: seed.                                                          *)

\* Mutant of Booting: accounts that are stored are imported again.
BootingAnew(names) == [pc |-> "insert", todo |-> file, added |-> FALSE]

\* The accounts of the file that are not stored are to be imported.
Booting(names) == [pc |-> "insert", todo |-> file \ names, added |-> FALSE]

\* Someone has written the file.
AccountsInit ==
  /\ accounts = [i \in Id |-> NoOne] /\ made = 0 /\ links = {}
  /\ file \in SUBSET Who
  /\ call = [c \in Callers |-> Idle] /\ boot = Booting({})
  /\ crossed = FALSE /\ lost = FALSE /\ restarts = 0

Insert(who) ==
  /\ made < MaxAccounts
  /\ made' = made + 1
  /\ accounts' = [accounts EXCEPT ![made + 1] = who]

Recompute == links' = Derived /\ lost' = FALSE

SeedInsert(who) ==
  /\ boot.pc = "insert" /\ who \in boot.todo
  /\ Insert(who)
  /\ boot' = [pc |-> "insert", todo |-> boot.todo \ {who}, added |-> TRUE]
  /\ UNCHANGED <<links, file, call, crossed, lost, restarts>>

\* Mutant of AfterInserts: the file is written if something was imported.
AfterInsertsOnly == IF boot.added THEN [pc |-> "recompute"] ELSE Serving

\* The links are derived again if something was imported; the file is written anyway.
AfterInserts == IF boot.added THEN [pc |-> "recompute"] ELSE [pc |-> "persist"]

SeedInserted ==
  /\ boot.pc = "insert" /\ boot.todo = {}
  /\ boot' = AfterInserts
  /\ UNCHANGED <<accounts, made, links, file, call, crossed, lost, restarts>>

SeedRecompute ==
  /\ boot.pc = "recompute"
  /\ Recompute
  /\ boot' = [pc |-> "persist"]
  /\ UNCHANGED <<accounts, made, file, call, crossed, restarts>>

SeedPersist ==
  /\ boot.pc = "persist"
  /\ file' = Names
  /\ boot' = Serving
  /\ UNCHANGED <<accounts, made, links, call, crossed, lost, restarts>>

\* A change is committed whose links are still to be derived.
Unlinked ==
  \/ lost \/ (\E c \in Callers : call[c].pc = "recompute")
  \/ boot.pc = "recompute" \/ (boot.pc = "insert" /\ boot.added)

\* The process dies in whatever it was doing, and is started again.
Restart ==
  /\ restarts < MaxRestarts
  /\ restarts' = restarts + 1
  /\ lost' = Unlinked
  /\ call' = [c \in Callers |-> Idle] /\ boot' = Booting(Names) /\ crossed' = FALSE
  /\ UNCHANGED <<accounts, made, links, file>>

-----------------------------------------------------------------------------
(* A client's request: handle.                                             *)

Goes(c, to) == call' = [call EXCEPT ![c] = to]

Begin(c) ==
  /\ boot = Serving /\ ~InCall(c)
  /\ crossed' = \E d \in Callers : InCall(d)

\* Mutant of Create: the links are left for the next deletion.
CreateUnlinked(c, who) ==
  /\ Begin(c)
  /\ Insert(who)
  /\ Goes(c, [pc |-> "scan"])
  /\ UNCHANGED <<links, file, boot, lost, restarts>>

\* An account may be created twice.
Create(c, who) ==
  /\ Begin(c)
  /\ Insert(who)
  /\ Goes(c, [pc |-> "recompute"])
  /\ UNCHANGED <<links, file, boot, lost, restarts>>

\* Mutant of Delete: the links go when they are derived again.
DeleteOnlyAccount(c, i) ==
  /\ Begin(c)
  /\ accounts' = [accounts EXCEPT ![i] = NoOne]
  /\ Goes(c, [pc |-> "recompute"])
  /\ UNCHANGED <<made, links, file, boot, lost, restarts>>

\* The id may be one that is deleted already.
Delete(c, i) ==
  /\ Begin(c)
  /\ accounts' = [accounts EXCEPT ![i] = NoOne]
  /\ links' = {p \in links : i \notin p}
  /\ Goes(c, [pc |-> "recompute"])
  /\ UNCHANGED <<made, file, boot, lost, restarts>>

RecomputeLinks(c) ==
  /\ call[c].pc = "recompute"
  /\ Recompute
  /\ Goes(c, [pc |-> "scan"])
  /\ UNCHANGED <<accounts, made, file, boot, crossed, restarts>>

ScanAccounts(c) ==
  /\ call[c].pc = "scan"
  /\ Goes(c, [pc |-> "persist", list |-> Names])
  /\ UNCHANGED <<accounts, made, links, file, boot, crossed, lost, restarts>>

\* The file is locked, and the other sections of it are kept.
PersistAccounts(c) ==
  /\ call[c].pc = "persist"
  /\ file' = call[c].list
  /\ Goes(c, Idle)
  /\ UNCHANGED <<accounts, made, links, boot, crossed, lost, restarts>>

AccountsNext ==
  \/ \E c \in Callers :
       \/ \E who \in Who : Create(c, who)
       \/ \E i \in 1..made : Delete(c, i)
       \/ RecomputeLinks(c)
       \/ ScanAccounts(c)
       \/ PersistAccounts(c)
  \/ \E who \in Who : SeedInsert(who)
  \/ SeedInserted
  \/ SeedRecompute
  \/ SeedPersist
  \/ Restart

AccountsSpec == AccountsInit /\ [][AccountsNext]_accountsVars

-----------------------------------------------------------------------------
(* Properties.                                                             *)

(***************************************************************************)
(* A link never outlives its accounts ("along with every link that touches *)
(* it"), however a deletion, derivations of other calls and restarts       *)
(* interleave: clients see every step between.                             *)
(***************************************************************************)
NoDanglingLinks == \A p \in links : p \subseteq Stored

(***************************************************************************)
(* "Whenever the account set changes, the server re-derives" the links:    *)
(* when no call has them still to derive, they are those of the accounts,  *)
(* in whatever order overlapping calls did it, unless a process died in    *)
(* between, which README.md tells of.                                      *)
(***************************************************************************)
LinksFollow == ~Unlinked => links = Derived

(***************************************************************************)
(* The file lists the accounts (persist_accounts) once a call has run that *)
(* no other crossed, or a start: whatever crossed before and wherever the  *)
(* process died.  Crossed calls may leave an older list behind, and a      *)
(* restart then imports what was deleted, which README.md tells of.        *)
(***************************************************************************)
FileFollows == Quiet /\ ~crossed => file = Names
=============================================================================

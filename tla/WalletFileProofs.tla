-------------------------- MODULE WalletFileProofs --------------------------
(***************************************************************************)
(* Proofs about WalletFile for any processes, keys, file lengths and       *)
(* bounds.                                                                 *)
(***************************************************************************)
EXTENDS WalletFile, TLAPS

(* While nothing overlapped and no save failed, the one process under way  *)
(* holds every reported wallet, in memory or in the file.                  *)
OneAtATime == \A p, q \in Running : p = q

LoadedHoldsAll ==
  \A p \in Procs : pc[p] = "loaded" =>
    /\ Readable
    /\ printed \subseteq data
    /\ data \cup new[p] \subseteq wallets[p]

OpenedHoldsAll ==
  \A p \in Procs : pc[p] = "opened" =>
    /\ data = {} /\ tail = 0
    /\ printed \cup new[p] \subseteq wallets[p]

FileHoldsAll == Running = {} /\ Readable => printed \subseteq data

Isolated == OneAtATime /\ LoadedHoldsAll /\ OpenedHoldsAll /\ FileHoldsAll

(* A file that was opened to be written is there. *)
OpenedExists == \A p \in Procs : pc[p] = "opened" => exists

WInv == TypeOK /\ OpenedExists /\ (overlaps = 0 /\ errors = 0 => Isolated)

-----------------------------------------------------------------------------
(* The length of the file is a natural number, and so is what is left      *)
(* behind a write (SaveFile, wallets.go:18-25).                            *)
LEMMA TailIsNat ==
  ASSUME TypeOK, NEW ks \in SUBSET Keys
  PROVE  /\ TailAfter(ks) \in Nat
         /\ data = {} /\ tail = 0 => TailAfter(ks) = 0
<1>1. Size[ks] \in Nat /\ Size[data] \in Nat /\ Size[{}] = 0
  BY WalletAssumption DEF TypeOK
<1>2. tail \in Nat
  BY DEF TypeOK
<1> QED BY <1>1, <1>2 DEF TailAfter, Length

(* The types hold before any process has started. *)
LEMMA TypeInit ==
  ASSUME Init
  PROVE  TypeOK
<1>1. exists \in BOOLEAN
  BY Zenon DEF Init
<1>2. /\ data \subseteq Keys /\ printed \subseteq Keys
      /\ wallets \in [Procs -> SUBSET Keys] /\ new \in [Procs -> SUBSET Keys]
      /\ pc \in [Procs -> {"idle", "loaded", "opened", "done"}]
  BY DEF Init
<1>3. /\ tail \in Nat
      /\ kills \in 0..MaxKills /\ errors \in 0..MaxErrors /\ overlaps \in 0..MaxOverlaps
  BY WalletAssumption DEF Init
<1> QED BY <1>1, <1>2, <1>3 DEF TypeOK

(* The types are kept by every step. *)
LEMMA TypeStep ==
  ASSUME TypeOK, [Next]_vars
  PROVE  TypeOK'
<1> USE WalletAssumption DEF TypeOK
<1>1. ASSUME NEW p \in Procs, CreateWallet(p) PROVE TypeOK'
  BY <1>1 DEF CreateWallet, LoadFile, file
<1>2. ASSUME NEW p \in Procs, SaveOpen(p) PROVE TypeOK'
  BY <1>2 DEF SaveOpen
<1>3. ASSUME NEW p \in Procs, SaveWrite(p) PROVE TypeOK'
  <2>1. TailAfter(wallets[p]) \in Nat
    BY TailIsNat
  <2> QED BY <1>3, <2>1 DEF SaveWrite
<1>4. ASSUME NEW p \in Procs, SaveFails(p) PROVE TypeOK'
  BY <1>4 DEF SaveFails, file
<1>5. ASSUME NEW p \in Procs, Kill(p) PROVE TypeOK'
  BY <1>5 DEF Kill, file
<1>6. CASE UNCHANGED vars
  BY <1>6 DEF vars, file, procs
<1> QED BY <1>1, <1>2, <1>3, <1>4, <1>5, <1>6 DEF Next

(* A process that has opened the file to write finds it there, whatever    *)
(* the others do: nothing removes it.                                      *)
LEMMA OpenedExistsStep ==
  ASSUME TypeOK, OpenedExists, [Next]_vars
  PROVE  OpenedExists'
BY DEF TypeOK, OpenedExists, Next, vars, file, procs, CreateWallet, SaveOpen, SaveWrite, SaveFails, Kill

(* The counts of what disturbs a save only grow. *)
LEMMA CountersGrow ==
  ASSUME TypeOK, [Next]_vars
  PROVE  overlaps' = 0 /\ errors' = 0 => overlaps = 0 /\ errors = 0
BY WalletAssumption DEF TypeOK, Next, vars, file, procs, CreateWallet, SaveOpen, SaveWrite, SaveFails, Kill

(* A process that starts alone takes over everything there is. *)
LEMMA CreateKeepsIsolated ==
  ASSUME TypeOK, Isolated, NEW p \in Procs, CreateWallet(p), Running = {}
  PROVE  Isolated'
<1>1. PICK k \in Keys \ Used : LoadFile(p, k) /\ new' = [new EXCEPT ![p] = {k}]
  BY DEF CreateWallet
<1>2. /\ Readable /\ wallets'[p] = data \cup {k} /\ new'[p] = {k}
      /\ pc'[p] = "loaded"
      /\ \A q \in Procs \ {p} : pc'[q] = pc[q]
      /\ UNCHANGED <<exists, data, tail, printed>>
  BY <1>1 DEF CreateWallet, LoadFile, TypeOK, file
<1>3. \A q \in Procs : pc[q] # "loaded" /\ pc[q] # "opened"
  BY DEF Running
<1>4. printed \subseteq data
  BY <1>2 DEF Isolated, FileHoldsAll
<1>5. Running' = {p}
  BY <1>2, <1>3 DEF Running
<1>6. OneAtATime' /\ FileHoldsAll'
  BY <1>5 DEF OneAtATime, FileHoldsAll
<1>7. LoadedHoldsAll' /\ OpenedHoldsAll'
  BY <1>2, <1>3, <1>4 DEF LoadedHoldsAll, OpenedHoldsAll, Readable
<1> QED BY <1>6, <1>7 DEF Isolated

(* Truncating the file loses nothing the process does not hold. *)
LEMMA OpenKeepsIsolated ==
  ASSUME TypeOK, Isolated, NEW p \in Procs, SaveOpen(p)
  PROVE  Isolated'
<1>1. /\ pc[p] = "loaded" /\ pc'[p] = "opened"
      /\ \A q \in Procs \ {p} : pc'[q] = pc[q]
      /\ data' = {} /\ tail' = 0
      /\ UNCHANGED <<wallets, new, printed>>
  BY DEF SaveOpen, TypeOK
<1>2. Running' = Running /\ p \in Running
  BY <1>1 DEF Running
<1>3. \A q \in Procs \ {p} : pc'[q] # "loaded" /\ pc'[q] # "opened"
  BY <1>1, <1>2 DEF Isolated, OneAtATime, Running
<1>4. printed \cup new[p] \subseteq wallets[p]
  BY <1>1 DEF Isolated, LoadedHoldsAll
<1>5. OneAtATime' /\ FileHoldsAll'
  BY <1>2 DEF Isolated, OneAtATime, FileHoldsAll
<1>6. LoadedHoldsAll' /\ OpenedHoldsAll'
  BY <1>1, <1>3, <1>4 DEF LoadedHoldsAll, OpenedHoldsAll
<1> QED BY <1>5, <1>6 DEF Isolated

(* What is written has every reported wallet, and nothing is left behind. *)
LEMMA WriteKeepsIsolated ==
  ASSUME TypeOK, Isolated, NEW p \in Procs, SaveWrite(p)
  PROVE  Isolated'
<1>1. /\ pc[p] = "opened" /\ pc'[p] = "done"
      /\ \A q \in Procs \ {p} : pc'[q] = pc[q]
      /\ data' = wallets[p] /\ printed' = printed \cup new[p]
  BY DEF SaveWrite, TypeOK
<1>2. \A q \in Procs : pc'[q] # "loaded" /\ pc'[q] # "opened"
  BY <1>1 DEF Isolated, OneAtATime, Running
<1>3. printed' \subseteq data'
  BY <1>1 DEF Isolated, OpenedHoldsAll
<1> QED BY <1>2, <1>3 DEF Isolated, OneAtATime, LoadedHoldsAll, OpenedHoldsAll, FileHoldsAll, Running

(* A killed process leaves the file whole, or truncated and so unreadable. *)
LEMMA KillKeepsIsolated ==
  ASSUME TypeOK, Isolated, NEW p \in Procs, Kill(p), pc[p] = "opened" => exists
  PROVE  Isolated'
<1>1. /\ p \in Running /\ pc'[p] = "done"
      /\ \A q \in Procs \ {p} : pc'[q] = pc[q]
      /\ UNCHANGED <<exists, data, tail, printed>>
  BY DEF Kill, TypeOK, file
<1>2. \A q \in Procs : pc'[q] # "loaded" /\ pc'[q] # "opened"
  BY <1>1 DEF Isolated, OneAtATime, Running
<1>3. CASE pc[p] = "loaded"
  <2>1. printed' \subseteq data'
    BY <1>1, <1>3 DEF Isolated, LoadedHoldsAll
  <2> QED BY <1>2, <2>1 DEF Isolated, OneAtATime, LoadedHoldsAll, OpenedHoldsAll, FileHoldsAll, Running
<1>4. CASE pc[p] = "opened"
  <2>1. ~Readable'
    BY <1>1, <1>4 DEF Isolated, OpenedHoldsAll, Readable
  <2> QED BY <1>2, <2>1 DEF Isolated, OneAtATime, LoadedHoldsAll, OpenedHoldsAll, FileHoldsAll, Running
<1> QED BY <1>1, <1>3, <1>4 DEF Running

-----------------------------------------------------------------------------
(* As long as no two processes overlapped and none failed to save, no      *)
(* reported wallet is dropped, wherever processes are killed: the file has *)
(* it, or cannot be parsed (createWallet, main.go:266-272).                *)
THEOREM WalletsWholeOrBroken == Spec => []WholeOrBroken
<1>1. Init => WInv
  <2> SUFFICES ASSUME Init PROVE WInv
    OBVIOUS
  <2>1. \A p \in Procs : pc[p] = "idle"
    BY DEF Init
  <2>2. Running = {}
    BY <2>1 DEF Running
  <2>3. Isolated
    BY <2>1, <2>2 DEF Init, Isolated, OneAtATime, LoadedHoldsAll, OpenedHoldsAll, FileHoldsAll
  <2> QED BY <2>1, <2>3, TypeInit DEF WInv, OpenedExists
<1>2. WInv /\ [Next]_vars => WInv'
  <2> SUFFICES ASSUME WInv, [Next]_vars PROVE WInv'
    OBVIOUS
  <2>1. TypeOK /\ TypeOK'
    BY TypeStep DEF WInv
  <2>2. OpenedExists'
    BY <2>1, OpenedExistsStep DEF WInv
  <2>3. ASSUME overlaps' = 0, errors' = 0 PROVE Isolated'
    <3>1. overlaps = 0 /\ errors = 0
      BY <2>1, <2>3, CountersGrow
    <3>2. Isolated
      BY <3>1 DEF WInv
    <3>3. ASSUME NEW p \in Procs, CreateWallet(p) PROVE Isolated'
      <4>1. Running = {}
        BY <2>3, <3>1, <3>3 DEF CreateWallet
      <4> QED BY <2>1, <3>2, <3>3, <4>1, CreateKeepsIsolated
    <3>4. ASSUME NEW p \in Procs, SaveOpen(p) PROVE Isolated'
      BY <2>1, <3>2, <3>4, OpenKeepsIsolated
    <3>5. ASSUME NEW p \in Procs, SaveWrite(p) PROVE Isolated'
      BY <2>1, <3>2, <3>5, WriteKeepsIsolated
    <3>6. ASSUME NEW p \in Procs, SaveFails(p) PROVE Isolated'
      BY <2>3, <3>1, <3>6 DEF SaveFails
    <3>7. ASSUME NEW p \in Procs, Kill(p) PROVE Isolated'
      BY <2>1, <3>2, <3>7, KillKeepsIsolated DEF WInv, OpenedExists
    <3>8. CASE UNCHANGED vars
      BY <3>2, <3>8 DEF vars, file, procs, Isolated, OneAtATime, LoadedHoldsAll, OpenedHoldsAll,
         FileHoldsAll, Running, Readable
    <3> QED BY <3>3, <3>4, <3>5, <3>6, <3>7, <3>8 DEF Next
  <2> QED BY <2>1, <2>2, <2>3 DEF WInv
<1>3. WInv => WholeOrBroken
  BY DEF WInv, Isolated, FileHoldsAll, WholeOrBroken
<1> QED BY <1>1, <1>2, <1>3, PTL DEF Spec

(* With no process under way, a file that cannot be parsed keeps everyone  *)
(* from starting, so nothing ever makes it readable (CreateWallets returns *)
(* the error of LoadFile, and createWallet panics on the nil it gets,      *)
(* before SaveFile: wallets.go:27-51, main.go:266-272).                    *)
THEOREM BrokenForGood == Spec => BrokenStaysBroken
<1> DEFINE Broken == Running = {} /\ ~Readable
<1>1. Broken /\ [Next]_vars => Broken'
  <2> SUFFICES ASSUME Running = {}, ~Readable, [Next]_vars PROVE UNCHANGED vars
    BY DEF Running, Readable, vars, file, procs
  <2>1. ASSUME NEW p \in Procs, CreateWallet(p) PROVE FALSE
    BY <2>1 DEF CreateWallet, LoadFile
  <2>2. ASSUME NEW p \in Procs, SaveOpen(p) \/ SaveWrite(p) \/ SaveFails(p) \/ Kill(p) PROVE FALSE
    BY <2>2 DEF SaveOpen, SaveWrite, SaveFails, Kill, Running
  <2> QED BY <2>1, <2>2 DEF Next
<1>2. Broken => ~Readable
  OBVIOUS
<1>3. (Running = {} /\ ~Readable) => Broken
  OBVIOUS
<1> HIDE DEF Broken
<1> QED BY <1>1, <1>2, <1>3, PTL DEF Spec, BrokenStaysBroken

(* The types of the wallet file's states, for the file lengths included. *)
THEOREM WalletTypes == Spec => []TypeOK
<1>1. Init => TypeOK
  BY TypeInit
<1>2. TypeOK /\ [Next]_vars => TypeOK'
  BY TypeStep
<1> QED BY <1>1, <1>2, PTL DEF Spec
=============================================================================

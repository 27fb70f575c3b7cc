----------------------------- MODULE WalletFile -----------------------------
(***************************************************************************)
(* The wallet file ./tmp/wallets_<node>.json and the createwallet command: *)
(* internal/domain/wallet/wallets.go, as cmd/blockchain/main.go uses it.   *)
(*                                                                         *)
(* Nothing locks the file, so any number of createwallet processes may be  *)
(* under way.  Each reads the file, adds a key in memory, and writes the   *)
(* whole file again: os.WriteFile truncates it when it opens it and writes *)
(* the data from the start in a second step.  A file longer than what is   *)
(* written over it keeps its tail.  A read sees the file at one moment.    *)
(***************************************************************************)
EXTENDS Integers, FiniteSets

CONSTANTS
  Procs,         \* createwallet processes
  Keys,          \* the wallets that may be generated, by their address
  Size,          \* Size[ks]: the length of the JSON that holds ks
  MaxKills,      \* bound on Kill
  MaxErrors,     \* bound on SaveFails
  MaxOverlaps    \* bound on processes that start while another is under way

ASSUME WalletAssumption ==
  /\ Size \in [SUBSET Keys -> Nat]
  /\ Size[{}] = 0
  /\ MaxKills \in Nat
  /\ MaxErrors \in Nat
  /\ MaxOverlaps \in Nat

VARIABLES
  exists,     \* the file is there
  data,       \* the wallets written at its start; {} since it was truncated
  tail,       \* bytes left behind them from an earlier, longer write
  pc,         \* where each process stands
  wallets,    \* each process's Wallets map
  new,        \* the wallet it added
  printed,    \* the addresses createwallet reported as created
  kills, errors, overlaps    \* how often these happened

file  == <<exists, data, tail>>
procs == <<pc, wallets, new>>
vars  == <<file, procs, printed, kills, errors, overlaps>>

Length  == Size[data] + tail
Running == {p \in Procs : pc[p] \in {"loaded", "opened"}}
Used    == UNION {new[p] : p \in Procs}

(* json.Unmarshal accepts the file. *)
Readable == ~exists \/ (data # {} /\ tail = 0)

Init ==
  /\ exists = FALSE
  /\ data = {}
  /\ tail = 0
  /\ pc = [p \in Procs |-> "idle"]
  /\ wallets = [p \in Procs |-> {}]
  /\ new = [p \in Procs |-> {}]
  /\ printed = {}
  /\ kills = 0
  /\ errors = 0
  /\ overlaps = 0

(* CreateWallets, and AddWallet's key k.  No file gives an empty map;      *)
(* createWallet drops the error of a file that cannot be parsed and panics *)
(* on the nil Wallets, before anything is written.                         *)
LoadAnything(p, k) ==   \* fault: a file that cannot be parsed counts as none
  wallets' = [wallets EXCEPT ![p] = (IF exists /\ Readable THEN data ELSE {}) \cup {k}]

LoadNothing(p, k) ==   \* fault: what the file has is not taken over
  /\ Readable
  /\ wallets' = [wallets EXCEPT ![p] = {k}]

LoadFile(p, k) ==
  /\ Readable
  /\ wallets' = [wallets EXCEPT ![p] = data \cup {k}]

CreateWallet(p) ==
  /\ pc[p] = "idle"
  /\ Running # {} => overlaps < MaxOverlaps
  /\ overlaps' = IF Running = {} THEN overlaps ELSE overlaps + 1
  /\ \E k \in Keys \ Used :
       /\ LoadFile(p, k)
       /\ new' = [new EXCEPT ![p] = {k}]
  /\ pc' = [pc EXCEPT ![p] = "loaded"]
  /\ UNCHANGED <<file, printed, kills, errors>>

(* os.WriteFile opens the file: created if need be, and truncated. *)
SaveOpen(p) ==
  /\ pc[p] = "loaded"
  /\ exists' = TRUE
  /\ data' = {}
  /\ tail' = 0
  /\ pc' = [pc EXCEPT ![p] = "opened"]
  /\ UNCHANGED <<wallets, new, printed, kills, errors, overlaps>>

(* What stays behind ks when they are written from the start. *)
TailAfter(ks) == IF Length > Size[ks] THEN Length - Size[ks] ELSE 0

(* It writes, and createWallet prints the address. *)
SaveWrite(p) ==
  /\ pc[p] = "opened"
  /\ data' = wallets[p]
  /\ tail' = TailAfter(wallets[p])
  /\ printed' = printed \cup new[p]
  /\ pc' = [pc EXCEPT ![p] = "done"]
  /\ UNCHANGED <<exists, wallets, new, kills, errors, overlaps>>

(* WriteFile fails to open the file (no ./tmp, no permission): SaveFile    *)
(* returns the error, createWallet ignores it and prints the address.      *)
SaveFails(p) ==
  /\ pc[p] = "loaded"
  /\ errors < MaxErrors
  /\ errors' = errors + 1
  /\ printed' = printed \cup new[p]
  /\ pc' = [pc EXCEPT ![p] = "done"]
  /\ UNCHANGED <<file, wallets, new, kills, overlaps>>

Kill(p) ==
  /\ p \in Running
  /\ kills < MaxKills
  /\ kills' = kills + 1
  /\ pc' = [pc EXCEPT ![p] = "done"]
  /\ UNCHANGED <<file, wallets, new, printed, errors, overlaps>>

Next ==
  \E p \in Procs :
    \/ CreateWallet(p)
    \/ SaveOpen(p)
    \/ SaveWrite(p)
    \/ SaveFails(p)
    \/ Kill(p)

Spec == Init /\ [][Next]_vars
-----------------------------------------------------------------------------
TypeOK ==
  /\ exists \in BOOLEAN
  /\ data \subseteq Keys /\ printed \subseteq Keys
  /\ tail \in Nat
  /\ pc \in [Procs -> {"idle", "loaded", "opened", "done"}]
  /\ wallets \in [Procs -> SUBSET Keys] /\ new \in [Procs -> SUBSET Keys]
  /\ kills \in 0..MaxKills /\ errors \in 0..MaxErrors /\ overlaps \in 0..MaxOverlaps

(* Processes that do not overlap and whose saves do not fail may, killed,  *)
(* leave a file nobody can parse, but never one that parses and lacks a    *)
(* wallet: CreateWallets loads everything or an error (wallets.go:27-39).  *)
WholeOrBroken ==
  overlaps = 0 /\ errors = 0 /\ Running = {} /\ Readable => printed \subseteq data

(* A file that cannot be parsed is not silently replaced by a fresh one:   *)
(* whoever loads it fails before writing (wallets.go:41-51, main.go:267).  *)
BrokenStaysBroken ==
  [](Running = {} /\ ~Readable => []~Readable)

=============================================================================

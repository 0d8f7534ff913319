----------------------------- MODULE Deployment -----------------------------
(***************************************************************************)
(* The scripts that deploy the EVM contracts and configure every chain's   *)
(* contract for the others: register-peers, set-canonical-peer and         *)
(* configure-fee-and-dropoff, of which there is one for EVM chains and one *)
(* for Solana.  A script reads contracts.json once, when it starts, reads  *)
(* what each chain holds, and sends what is missing: one transaction per   *)
(* EVM chain, all chains side by side, and one per peer and setting on     *)
(* Solana.  A chain that fails is logged and left for a later run.         *)
(***************************************************************************)
EXTENDS Naturals, Sequences, FiniteSets

CONSTANTS
  Evm, Solana,   \* the chains of contracts.json
  Operating,     \* those the scripts run on; the others are peers only
  None,          \* no script is running
  Micro,         \* micro units in a dollar or a gas token
  MaxVersion,    \* bound: deployments of each chain
  MaxEdits,      \* bound: editions of each chain's entry in tbr-v3.json
  MaxFaults      \* bound: transactions and processes that fail

Chain == Evm \cup Solana

ASSUME DeploymentAssumption ==
  /\ Evm \cap Solana = {}
  /\ Operating \subseteq Chain
  /\ Micro \in Nat \ {0}
  /\ MaxVersion \in [Chain -> Nat]
  /\ MaxEdits \in [Chain -> Nat]
  /\ MaxFaults \in Nat

(* The contract of a chain is told by how often the chain was deployed to, *)
(* 0 for none.  The i-th edition of an entry asks for a fee of i dollars   *)
(* and a largest dropoff of i gas tokens.                                  *)
Registration == [peers : SUBSET Nat, canonical : Nat, fee : Nat, dropoff : Nat]
Unregistered == [peers |-> {}, canonical |-> 0, fee |-> 0, dropoff |-> 0]

Scripts == {"register-peers", "set-canonical-peer", "configure-fee-and-dropoff"}

VARIABLES
  book,      \* contracts.json: the recorded contract of each chain
  config,    \* tbr-v3.json: the edition of each chain's entry
  registry,  \* what the recorded contract of a chain holds for each other
  run,       \* the running script, see Start
  late,      \* transactions reported as failed that may still land
  faults     \* failures so far

vars == <<book, config, registry, run, late, faults>>

Init ==
  /\ book = [c \in Chain |-> IF c \in Solana THEN 1 ELSE 0]
  /\ config = [c \in Chain |-> 1]
  /\ registry = [c \in Operating |-> [d \in Chain |-> Unregistered]]
  /\ run = None
  /\ late = {}
  /\ faults = 0

-----------------------------------------------------------------------------
(* What a transaction asks of one chain's entry: 0 leaves a field alone.   *)
Change == [peer : Nat, canonical : Nat, fee : Nat, dropoff : Nat]
NoChange == [peer |-> 0, canonical |-> 0, fee |-> 0, dropoff |-> 0]

MutUpdated(r, u) ==
  [peers |-> r.peers \cup ({u.peer} \ {0}),
   canonical |-> IF u.canonical # 0 THEN u.canonical
                 ELSE IF r.canonical = 0 THEN u.peer ELSE r.canonical,
   fee |-> IF u.fee # 0 THEN u.fee ELSE r.fee,
   dropoff |-> IF u.dropoff # 0 THEN u.dropoff ELSE r.dropoff]

(* The contracts' answer, as EvmConfig and SolanaConfig have it.  The      *)
(* Solana program does not register a peer twice, nor takes a canonical    *)
(* peer that is not registered or not new.                                 *)
Accepts(c, r, u) ==
  /\ c \in Solana => u.peer \notin r.peers
  /\ c \in Solana /\ u.canonical # 0 => u.canonical \in r.peers \ {r.canonical}
  /\ u.fee # 0 \/ u.dropoff # 0 => r.canonical # 0 \/ u.peer # 0

Updated(r, u) ==
  [peers |-> r.peers \cup ({u.peer, u.canonical} \ {0}),
   canonical |-> IF u.canonical # 0 THEN u.canonical
                 ELSE IF r.canonical = 0 THEN u.peer ELSE r.canonical,
   fee |-> IF u.fee # 0 THEN u.fee ELSE r.fee,
   dropoff |-> IF u.dropoff # 0 THEN u.dropoff ELSE r.dropoff]

(* A transaction has an update for each chain, and is done as a whole.     *)
Accepted(c, tx) == \A d \in Chain : Accepts(c, registry[c][d], tx[d])

Effect(c, tx) ==
  [registry EXCEPT ![c] = [d \in Chain |-> Updated(registry[c][d], tx[d])]]

-----------------------------------------------------------------------------
(* Fees and dropoffs as the contract of c stores them.  The EVM SDK takes  *)
(* dollars; the Solana scripts hand their number to an SDK that takes      *)
(* millionths of a dollar.                                                 *)
Fee(c, d) == IF c \in Evm THEN Micro * config[d] ELSE config[d]
Dropoff(d) == Micro * config[d]

MutRegisteringPeerAlone(c, d) ==
  IF run.book[d] \in registry[c][d].peers THEN NoChange
  ELSE [NoChange EXCEPT !.peer = run.book[d]]

MutRegisteringNewChains(c, d) ==
  IF registry[c][d].canonical # 0 THEN NoChange
  ELSE [NoChange EXCEPT !.peer = run.book[d], !.fee = Fee(c, d),
                        !.dropoff = Dropoff(d)]

(* The first peer of a chain comes with its settings on Solana only.       *)
Registering(c, d) ==
  LET r == registry[c][d]
      peer == [NoChange EXCEPT !.peer = run.book[d]]
  IN IF run.book[d] \in r.peers THEN NoChange
     ELSE IF c \in Solana /\ r.canonical = 0
       THEN [peer EXCEPT !.fee = Fee(c, d), !.dropoff = Dropoff(d)]
     ELSE peer

(* The Solana scripts below skip a chain that has no peers.                *)
Skipped(c, d) == c \in Solana /\ registry[c][d].canonical = 0

Redirecting(c, d) ==
  IF Skipped(c, d) \/ registry[c][d].canonical = run.book[d] THEN NoChange
  ELSE [NoChange EXCEPT !.canonical = run.book[d]]

MutSettingComparesDollars(c, d) ==
  LET r == registry[c][d] IN
  IF Skipped(c, d) THEN NoChange
  ELSE [NoChange EXCEPT !.fee = IF r.fee = config[d] THEN 0 ELSE Fee(c, d),
                        !.dropoff = IF r.dropoff = Dropoff(d) THEN 0 ELSE Dropoff(d)]

Setting(c, d) ==
  LET r == registry[c][d] IN
  IF Skipped(c, d) THEN NoChange
  ELSE [NoChange EXCEPT !.fee = IF r.fee = Fee(c, d) THEN 0 ELSE Fee(c, d),
                        !.dropoff = IF r.dropoff = Dropoff(d) THEN 0 ELSE Dropoff(d)]

Missing(c, d) ==
  CASE run.script = "register-peers" -> Registering(c, d)
    [] run.script = "set-canonical-peer" -> Redirecting(c, d)
    [] run.script = "configure-fee-and-dropoff" -> Setting(c, d)

(* The transactions that bring the chains D up to date: one for all of     *)
(* them on EVM; on Solana D has one member, whose dropoff and fee are set  *)
(* by two transactions.  Nothing is sent if nothing is missing.            *)
IfNeeded(tx) == IF \A d \in Chain : tx[d] = NoChange THEN <<>> ELSE <<tx>>

Transactions(c, D) ==
  LET all == [d \in Chain |-> IF d \in D THEN Missing(c, d) ELSE NoChange]
      dropoffs == [d \in Chain |-> [NoChange EXCEPT !.dropoff = all[d].dropoff]]
      fees == [d \in Chain |-> [NoChange EXCEPT !.fee = all[d].fee]]
  IN IF c \in Solana /\ run.script = "configure-fee-and-dropoff"
       THEN IfNeeded(dropoffs) \o IfNeeded(fees)
       ELSE IfNeeded(all)

-----------------------------------------------------------------------------
Recorded(c, b) == {d \in Chain \ {c} : b[d] # 0}

(* The EVM and the Solana script of one name are run together; they share  *)
(* nothing.  clean is only for SuccessMeansDone: the chains where nothing  *)
(* but the script changes what it checks.                                  *)
Start(script) ==
  /\ run = None
  /\ run' = [script |-> script, book |-> book,
             todo |-> [c \in Operating |-> Recorded(c, book)],
             plan |-> [c \in Operating |-> <<>>],
             failed |-> {},
             clean |-> {c \in Operating : \A l \in late : l.chain # c}]
  /\ UNCHANGED <<book, config, registry, late, faults>>

Running == run # None
Ended(c) == run.todo[c] = {} /\ run.plan[c] = <<>>
Active(c) == Running /\ c \notin run.failed /\ ~Ended(c)

Failing(C) ==
  run' = [run EXCEPT !.failed = @ \cup C,
                     !.todo = [c \in Operating |-> IF c \in C THEN {} ELSE @[c]],
                     !.plan = [c \in Operating |-> IF c \in C THEN <<>> ELSE @[c]]]

(* The script goes on with contracts that were replaced, out of sight.     *)
Leaving(C) ==
  run' = [run EXCEPT !.clean = @ \ C,
                     !.todo = [c \in Operating |-> IF c \in C THEN {} ELSE @[c]],
                     !.plan = [c \in Operating |-> IF c \in C THEN <<>> ELSE @[c]]]

(* An EVM chain is asked about all its peers at once; the Solana scripts   *)
(* go from one peer to the next.                                           *)
Read(c, D) ==
  /\ Active(c)
  /\ c \in Evm => run.book[c] # 0
  /\ run.plan[c] = <<>>
  /\ run' = [run EXCEPT !.todo[c] = @ \ D, !.plan[c] = Transactions(c, D)]
  /\ UNCHANGED <<book, config, registry, late, faults>>

ReadNext(c) ==
  \/ c \in Evm /\ Read(c, run.todo[c])
  \/ c \in Solana /\ \E d \in run.todo[c] : Read(c, {d})

Sending(c) == Active(c) /\ run.plan[c] # <<>>

Send(c) ==
  /\ Sending(c)
  /\ Accepted(c, Head(run.plan[c]))
  /\ registry' = Effect(c, Head(run.plan[c]))
  /\ run' = [run EXCEPT !.plan[c] = Tail(@)]
  /\ UNCHANGED <<book, config, late, faults>>

(* The contract refuses, or there is none to ask.                          *)
Refused(c) ==
  /\ Active(c)
  /\ \/ run.plan[c] # <<>> /\ ~Accepted(c, Head(run.plan[c]))
     \/ c \in Evm /\ run.book[c] = 0
  /\ Failing({c})
  /\ UNCHANGED <<book, config, registry, late, faults>>

Step(c) == (Active(c) /\ ReadNext(c)) \/ Send(c) \/ Refused(c)

Fault ==
  /\ faults < MaxFaults
  /\ faults' = faults + 1

MutFailIgnored(c) ==
  /\ Active(c)
  /\ Fault
  /\ run' = [run EXCEPT !.plan[c] = <<>>]
  /\ UNCHANGED <<book, config, registry, late>>

(* A node, a wallet or a missing entry of a file: the error ends what the  *)
(* script does for this chain.                                             *)
Fail(c) ==
  /\ Active(c)
  /\ Fault
  /\ Failing({c})
  /\ UNCHANGED <<book, config, registry, late>>

(* The transactions under way on the chains C may land later.              *)
Loose(C) == {[chain |-> c, tx |-> Head(run.plan[c])] : c \in C}

(* The wait for a transaction that was sent fails.                         *)
Lose(c) ==
  /\ Sending(c)
  /\ Fault
  /\ late' = late \cup Loose({c})
  /\ Failing({c})
  /\ UNCHANGED <<book, config, registry>>

(* An error outside the try of one chain ends the process for all chains,  *)
(* those included that wait for a transaction they sent.                   *)
Crash(C) ==
  /\ \E c \in C : Active(c)
  /\ Fault
  /\ \E S \in SUBSET {c \in C : Sending(c)} : late' = late \cup Loose(S)
  /\ Failing({c \in C : Active(c)})
  /\ UNCHANGED <<book, config, registry>>

End ==
  /\ Running
  /\ \A c \in Operating : ~Active(c)
  /\ run' = None
  /\ UNCHANGED <<book, config, registry, late, faults>>

(* External: a transaction lands although the script gave it up, or never. *)
Land(l) ==
  /\ Accepted(l.chain, l.tx)
  /\ registry' = Effect(l.chain, l.tx)
  /\ late' = late \ {l}
  /\ UNCHANGED <<book, config, run, faults>>

Vanish(l) ==
  /\ late' = late \ {l}
  /\ UNCHANGED <<book, config, registry, run, faults>>

Settle == \E l \in late : Land(l) \/ Vanish(l)

-----------------------------------------------------------------------------
WriteDeployedContracts(D) ==
  book' = [c \in Chain |-> IF c \in D THEN book[c] + 1 ELSE book[c]]

(* A new proxy has no peers.                                               *)
DeployProxies(D) ==
  registry' = [c \in Operating |->
                IF c \in D THEN [d \in Chain |-> Unregistered]
                ELSE registry[c]]

(* deploy.ts records the new proxies of the chains D, the ones that did    *)
(* not fail, when all are through.  What a running script or a transaction *)
(* still does for them is no longer looked at: it goes to the contracts    *)
(* they replace, or found none in its file.                                *)
Deploy(D) ==
  /\ \A d \in D : book[d] < MaxVersion[d]
  /\ WriteDeployedContracts(D)
  /\ DeployProxies(D)
  /\ late' = {l \in late : l.chain \notin D}
  /\ IF Running THEN Leaving(D \cap Operating) ELSE UNCHANGED run
  /\ UNCHANGED <<config, faults>>

(* External: somebody edits tbr-v3.json.                                   *)
Edit(d) ==
  /\ config[d] < MaxEdits[d]
  /\ config' = [config EXCEPT ![d] = @ + 1]
  /\ run' = IF Running THEN [run EXCEPT !.clean = {}] ELSE run
  /\ UNCHANGED <<book, registry, late, faults>>

Next ==
  \/ \E script \in Scripts : Start(script)
  \/ \E c \in Operating : Step(c) \/ Fail(c) \/ Lose(c)
  \/ \E C \in {Evm, Solana} : Crash(C \cap Operating)
  \/ End
  \/ Settle
  \/ \E D \in SUBSET Evm \ {{}} : Deploy(D)
  \/ \E d \in Chain : Edit(d)

Spec == Init /\ [][Next]_vars

(* The operators keep running every script, and each run ends.             *)
LiveSpec ==
  /\ Spec
  /\ \A script \in Scripts : SF_vars(Start(script))
  /\ \A c \in Operating : WF_vars(Step(c))
  /\ WF_vars(End)
  /\ WF_vars(Settle)

-----------------------------------------------------------------------------
Transaction == [Chain -> Change]

Run ==
  [script : Scripts, book : [Chain -> Nat], todo : [Operating -> SUBSET Chain],
   plan : [Operating -> Seq(Transaction)],
   failed : SUBSET Operating, clean : SUBSET Operating]

(* An entry about a chain of which n contracts were recorded.              *)
Entry(r, n) ==
  /\ r \in Registration
  /\ r.peers \subseteq 1..n
  /\ r.canonical # 0 => r.canonical \in r.peers
  /\ r.canonical = 0 => r = Unregistered

(* Every variable holds a value of its kind; what a contract accepts       *)
(* messages from, and sends to, are contracts that were recorded for that  *)
(* chain, by whatever runs, late transactions and deployments.             *)
TypeOK ==
  /\ book \in [Chain -> Nat]
  /\ config \in [Chain -> Nat \ {0}]
  /\ registry \in [Operating -> [Chain -> Registration]]
  /\ \A c \in Operating, d \in Chain : Entry(registry[c][d], book[d])
  /\ run = None \/ run \in Run
  /\ late \subseteq [chain : Operating, tx : Transaction]
  /\ faults \in 0..MaxFaults

(* The entry for d is as the files say.                                    *)
Right(c, d, b) ==
  /\ b[d] \in registry[c][d].peers
  /\ registry[c][d].canonical = b[d]
  /\ registry[c][d].fee = Fee(c, d)
  /\ registry[c][d].dropoff = Dropoff(d)

(* What a script that logs success for c leaves behind, of the entry r.    *)
Achieved(c, d, r) ==
  \/ run.script = "register-peers" /\ run.book[d] \in r.peers
  \/ /\ run.script = "set-canonical-peer"
     /\ r.canonical = run.book[d] \/ (c \in Solana /\ r.canonical = 0)
  \/ /\ run.script = "configure-fee-and-dropoff"
     /\ \/ r.fee = Fee(c, d) /\ r.dropoff = Dropoff(d)
        \/ c \in Solana /\ r.canonical = 0

(* When a script comes to its end for a chain without an error, the chain  *)
(* holds for all its peers what the script is for, although they were read *)
(* and written one after the other and in several transactions: unless a   *)
(* file was edited, an earlier transaction was still on its way, or the    *)
(* chain's own contract was replaced meanwhile.  A chain that a Solana     *)
(* script skips, as it has no peers there, needs nothing.                  *)
SuccessMeansDone ==
  [][\A c \in Operating :
       (/\ Active(c) /\ run' # None /\ c \in run'.clean
        /\ Ended(c)' /\ c \notin run'.failed) =>
          \A d \in Recorded(c, run.book) : Achieved(c, d, registry[c][d])']_vars

(* A script sends nothing to a chain that is as the files say.             *)
IdleWhenRight ==
  [][\A c \in Operating :
       (/\ Active(c) /\ run.plan[c] = <<>>
        /\ \A d \in Recorded(c, run.book) : Right(c, d, run.book)) =>
          run' = None \/ run'.plan[c] = <<>>]_vars

(* The scripts open a chain for transfers on Solana together with its fee  *)
(* and its largest dropoff, in one transaction.                            *)
OpenWithSettings ==
  \A c \in Operating \cap Solana, d \in Chain :
    registry[c][d].canonical # 0 =>
      registry[c][d].fee # 0 /\ registry[c][d].dropoff # 0

(* "base fee that peers will set for this chain, specified in usd": what a *)
(* contract stores is a number of dollars that the file asked for.         *)
FeeInUsd ==
  \A c \in Operating, d \in Chain :
    registry[c][d].fee \in {Micro * i : i \in 0..config[d]}

(* Whatever fails, once the files are no longer changed the scripts bring  *)
(* every contract to what the files say, and it stays so.                  *)
Converges ==
  <>[](\A c \in Operating :
         c \in Solana \/ book[c] # 0 =>
           \A d \in Recorded(c, book) : Right(c, d, book))
=============================================================================

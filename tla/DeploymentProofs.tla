--------------------------- MODULE DeploymentProofs ---------------------------
(***************************************************************************)
(* What the scripts leave behind, for any chains, any number of            *)
(* deployments, editions and failures.                                     *)
(***************************************************************************)
EXTENDS Deployment, TLAPS, SequenceTheorems

(* A planned transaction names contracts recorded in b, and on Solana its  *)
(* changes bring the settings along if they may be the first of a chain in *)
(* the registrations g.                                                    *)
Good(b, g, c, tx) ==
  \A d \in Chain :
    /\ tx[d].peer <= b[d]
    /\ tx[d].canonical <= b[d]
    /\ (c \in Solana /\ tx[d].peer # 0 /\ g[c][d].canonical = 0) =>
          tx[d].fee # 0 /\ tx[d].dropoff # 0

GoodRun(b, g, r) ==
  r # None =>
    /\ \A d \in Chain : r.book[d] <= b[d]
    /\ \A c \in Operating : \A i \in 1..Len(r.plan[c]) : Good(b, g, c, r.plan[c][i])

GoodLate(b, g, L) == \A l \in L : Good(b, g, l.chain, l.tx)

IInv ==
  /\ TypeOK
  /\ OpenWithSettings
  /\ GoodRun(book, registry, run)
  /\ GoodLate(book, registry, late)

-----------------------------------------------------------------------------
(* The answer of a contract: the entry stays well formed, a registered     *)
(* chain stays registered, and on Solana it has its settings.              *)
LEMMA UpdatedEntry ==
  ASSUME NEW c, NEW n \in Nat, NEW r, Entry(r, n), NEW u \in Change,
         u.peer <= n, u.canonical <= n, Accepts(c, r, u)
  PROVE  /\ Updated(r, u) \in Registration
         /\ Entry(Updated(r, u), n)
         /\ r.canonical # 0 => Updated(r, u).canonical # 0
<1>1. /\ r \in Registration /\ r.peers \subseteq 1..n
      /\ r.canonical # 0 => r.canonical \in r.peers
      /\ r.canonical = 0 => r = Unregistered
  BY DEF Entry
<1>2. /\ u.peer \in Nat /\ u.canonical \in Nat /\ u.fee \in Nat /\ u.dropoff \in Nat
  BY DEF Change
<1>3. Updated(r, u) \in Registration
  BY <1>1, <1>2 DEF Updated, Registration
<1>4. Updated(r, u).peers \subseteq 1..n
  BY <1>1, <1>2 DEF Updated
<1>5. Updated(r, u).canonical # 0 => Updated(r, u).canonical \in Updated(r, u).peers
  BY <1>1, <1>2 DEF Updated
<1>6. r.canonical # 0 => Updated(r, u).canonical # 0
  BY DEF Updated
<1>7. ASSUME Updated(r, u).canonical = 0 PROVE Updated(r, u) = Unregistered
  <2>1. u.canonical = 0 /\ r.canonical = 0 /\ u.peer = 0
    BY <1>7 DEF Updated
  <2>2. u.fee = 0 /\ u.dropoff = 0
    BY <2>1 DEF Accepts
  <2>3. r = Unregistered
    BY <2>1, <1>1
  <2> QED
    BY <2>1, <2>2, <2>3 DEF Updated, Unregistered
<1> QED
  BY <1>3, <1>4, <1>5, <1>6, <1>7 DEF Entry

LEMMA UpdatedSettings ==
  ASSUME NEW c \in Solana, NEW r, NEW u,
         r.canonical = 0 => r = Unregistered,
         r.canonical # 0 => r.fee # 0 /\ r.dropoff # 0,
         u.peer # 0 /\ r.canonical = 0 => u.fee # 0 /\ u.dropoff # 0,
         Accepts(c, r, u)
  PROVE  Updated(r, u).canonical # 0 =>
           Updated(r, u).fee # 0 /\ Updated(r, u).dropoff # 0
<1>1. CASE r.canonical # 0
  BY <1>1 DEF Updated
<1>2. CASE r.canonical = 0
  <2>1. u.canonical = 0
    BY <1>2 DEF Accepts, Unregistered
  <2> QED
    BY <1>2, <2>1 DEF Updated
<1> QED
  BY <1>1, <1>2

-----------------------------------------------------------------------------
(* What was planned stays good while contracts are added to the record and *)
(* no registered chain is forgotten on Solana.                             *)
Grows(b, g) ==
  /\ \A d \in Chain : book[d] <= b[d]
  /\ \A c \in Operating \cap Solana, d \in Chain :
       registry[c][d].canonical # 0 => g[c][d].canonical # 0

LEMMA GoodStays ==
  ASSUME TypeOK, NEW b \in [Chain -> Nat], NEW g, Grows(b, g),
         NEW c \in Operating, NEW tx \in Transaction, Good(book, registry, c, tx)
  PROVE  Good(b, g, c, tx)
<1> SUFFICES ASSUME NEW d \in Chain
             PROVE  /\ tx[d].peer <= b[d]
                    /\ tx[d].canonical <= b[d]
                    /\ (c \in Solana /\ tx[d].peer # 0 /\ g[c][d].canonical = 0) =>
                          tx[d].fee # 0 /\ tx[d].dropoff # 0
  BY DEF Good
<1>1. tx[d].peer \in Nat /\ tx[d].canonical \in Nat
  BY DEF Transaction, Change
<1>2. book[d] \in Nat /\ b[d] \in Nat /\ book[d] <= b[d]
  BY DEF TypeOK, Grows
<1>3. tx[d].peer <= book[d] /\ tx[d].canonical <= book[d]
  BY DEF Good
<1>4. c \in Solana /\ g[c][d].canonical = 0 => registry[c][d].canonical = 0
  BY DEF Grows
<1> QED
  BY <1>1, <1>2, <1>3, <1>4 DEF Good

(* A transaction that a contract takes.                                    *)
LEMMA EffectStep ==
  ASSUME IInv, NEW c \in Operating, NEW tx \in Transaction,
         Good(book, registry, c, tx), Accepted(c, tx),
         registry' = Effect(c, tx), UNCHANGED book
  PROVE  /\ registry' \in [Operating -> [Chain -> Registration]]
         /\ \A e \in Operating, d \in Chain : Entry(registry'[e][d], book'[d])
         /\ OpenWithSettings'
         /\ Grows(book', registry')
<1>0. /\ registry \in [Operating -> [Chain -> Registration]]
      /\ \A e \in Operating, d \in Chain : Entry(registry[e][d], book[d])
      /\ book \in [Chain -> Nat]
  BY DEF IInv, TypeOK
<1>1. /\ \A e \in Operating \ {c} : registry'[e] = registry[e]
      /\ \A d \in Chain : registry'[c][d] = Updated(registry[c][d], tx[d])
      /\ DOMAIN registry' = Operating
      /\ registry' = [registry EXCEPT ![c] = [d \in Chain |-> Updated(registry[c][d], tx[d])]]
  BY <1>0 DEF Effect
<1>2. ASSUME NEW d \in Chain
      PROVE  /\ registry'[c][d] \in Registration
             /\ Entry(registry'[c][d], book[d])
             /\ registry[c][d].canonical # 0 => registry'[c][d].canonical # 0
  <2>1. Entry(registry[c][d], book[d]) /\ book[d] \in Nat
    BY <1>0
  <2>2. tx[d] \in Change
    BY DEF Transaction
  <2>3. tx[d].peer <= book[d] /\ tx[d].canonical <= book[d]
    BY DEF Good
  <2>4. Accepts(c, registry[c][d], tx[d])
    BY DEF Accepted
  <2>5. registry'[c][d] = Updated(registry[c][d], tx[d])
    BY <1>1
  <2> QED
    BY <2>1, <2>2, <2>3, <2>4, <2>5, UpdatedEntry
<1>3. registry' \in [Operating -> [Chain -> Registration]]
  <2>1. [d \in Chain |-> Updated(registry[c][d], tx[d])] \in [Chain -> Registration]
    BY <1>1, <1>2
  <2> QED
    BY <1>0, <1>1, <2>1
<1>4. \A e \in Operating, d \in Chain : Entry(registry'[e][d], book'[d])
  BY <1>0, <1>1, <1>2
<1>5. Grows(book', registry')
  <2>1. \A d \in Chain : book[d] <= book'[d]
    BY <1>0
  <2> QED
    BY <2>1, <1>1, <1>2 DEF Grows
<1>6. ASSUME NEW e \in Operating \cap Solana, NEW d \in Chain,
             registry'[e][d].canonical # 0
      PROVE  registry'[e][d].fee # 0 /\ registry'[e][d].dropoff # 0
  <2>1. CASE e # c
    BY <2>1, <1>1, <1>6 DEF IInv, OpenWithSettings
  <2>2. CASE e = c
    <3>1. registry[c][d].canonical = 0 => registry[c][d] = Unregistered
      BY <1>0 DEF Entry
    <3>2. registry[c][d].canonical # 0 =>
             registry[c][d].fee # 0 /\ registry[c][d].dropoff # 0
      BY <2>2 DEF IInv, OpenWithSettings
    <3>3. tx[d].peer # 0 /\ registry[c][d].canonical = 0 =>
             tx[d].fee # 0 /\ tx[d].dropoff # 0
      BY <2>2 DEF Good
    <3>4. Accepts(c, registry[c][d], tx[d])
      BY DEF Accepted
    <3>5. registry'[c][d] = Updated(registry[c][d], tx[d])
      BY <1>1
    <3> QED
      BY <2>2, <1>6, <3>1, <3>2, <3>3, <3>4, <3>5, UpdatedSettings
  <2> QED
    BY <2>1, <2>2
<1>7. OpenWithSettings'
  BY <1>6 DEF OpenWithSettings
<1> QED
  BY <1>3, <1>4, <1>5, <1>7

-----------------------------------------------------------------------------
(* What the scripts plan.                                                  *)
LEMMA FeeType ==
  ASSUME IInv, NEW c, NEW d \in Chain
  PROVE  Fee(c, d) \in Nat \ {0} /\ Dropoff(d) \in Nat \ {0}
<1>1. config[d] \in Nat \ {0} /\ Micro \in Nat \ {0}
  BY DeploymentAssumption DEF IInv, TypeOK
<1>2. Micro * config[d] \in Nat \ {0}
  BY <1>1, SMT
<1> QED
  BY <1>1, <1>2 DEF Fee, Dropoff

LEMMA MissingGood ==
  ASSUME IInv, run # None, NEW c \in Operating, NEW d \in Chain
  PROVE  /\ Missing(c, d) \in Change
         /\ Missing(c, d).peer <= book[d]
         /\ Missing(c, d).canonical <= book[d]
         /\ (c \in Solana /\ Missing(c, d).peer # 0 /\ registry[c][d].canonical = 0) =>
               Missing(c, d).fee # 0 /\ Missing(c, d).dropoff # 0
<1>1. /\ run.script \in Scripts
      /\ run.book[d] \in Nat
      /\ run.book[d] <= book[d]
      /\ book[d] \in Nat
      /\ 0 <= book[d]
  BY DEF IInv, TypeOK, Run, GoodRun
<1>2. Fee(c, d) \in Nat \ {0} /\ Dropoff(d) \in Nat \ {0}
  BY FeeType
<1>3. NoChange \in Change /\ NoChange.peer = 0 /\ NoChange.canonical = 0
  BY DEF NoChange, Change
<1>4. CASE run.script = "register-peers"
  <2>1. Missing(c, d) = Registering(c, d)
    BY <1>4 DEF Missing
  <2>2. CASE run.book[d] \in registry[c][d].peers
    BY <1>3, <1>1, <2>1, <2>2 DEF Registering
  <2>3. CASE run.book[d] \notin registry[c][d].peers /\ c \in Solana
                /\ registry[c][d].canonical = 0
    <3>1. Missing(c, d) = [peer |-> run.book[d], canonical |-> 0,
                           fee |-> Fee(c, d), dropoff |-> Dropoff(d)]
      BY <2>1, <2>3 DEF Registering, NoChange
    <3> QED
      BY <1>1, <1>2, <3>1 DEF Change
  <2>4. CASE run.book[d] \notin registry[c][d].peers
                /\ ~(c \in Solana /\ registry[c][d].canonical = 0)
    <3>1. Missing(c, d) = [peer |-> run.book[d], canonical |-> 0, fee |-> 0, dropoff |-> 0]
      BY <2>1, <2>4 DEF Registering, NoChange
    <3> QED
      BY <1>1, <2>4, <3>1 DEF Change
  <2> QED
    BY <2>2, <2>3, <2>4
<1>5. CASE run.script = "set-canonical-peer"
  <2>1. Missing(c, d) = Redirecting(c, d)
    BY <1>5 DEF Missing
  <2> QED
    BY <1>1, <2>1 DEF Redirecting, NoChange, Change
<1>6. CASE run.script = "configure-fee-and-dropoff"
  <2>1. Missing(c, d) = Setting(c, d)
    BY <1>6 DEF Missing
  <2>2. CASE Skipped(c, d)
    BY <1>3, <1>1, <2>1, <2>2 DEF Setting
  <2>3. CASE ~Skipped(c, d)
    <3> DEFINE fee == IF registry[c][d].fee = Fee(c, d) THEN 0 ELSE Fee(c, d)
               dropoff == IF registry[c][d].dropoff = Dropoff(d) THEN 0 ELSE Dropoff(d)
    <3>1. Missing(c, d) = [peer |-> 0, canonical |-> 0, fee |-> fee, dropoff |-> dropoff]
      BY <2>1, <2>3 DEF Setting, NoChange
    <3>2. fee \in Nat /\ dropoff \in Nat
      BY <1>2
    <3> HIDE DEF fee, dropoff
    <3> QED
      BY <1>1, <3>1, <3>2 DEF Change
  <2> QED
    BY <2>2, <2>3
<1> QED
  BY <1>1, <1>4, <1>5, <1>6 DEF Scripts

LEMMA IfNeededGood ==
  ASSUME NEW c, NEW tx \in Transaction, Good(book, registry, c, tx)
  PROVE  /\ IfNeeded(tx) \in Seq(Transaction)
         /\ \A i \in 1..Len(IfNeeded(tx)) : Good(book, registry, c, IfNeeded(tx)[i])
BY DEF IfNeeded

LEMMA PlannedGood ==
  ASSUME IInv, run # None, NEW c \in Operating, NEW D
  PROVE  /\ Transactions(c, D) \in Seq(Transaction)
         /\ \A i \in 1..Len(Transactions(c, D)) :
              Good(book, registry, c, Transactions(c, D)[i])
<1> DEFINE all == [d \in Chain |-> IF d \in D THEN Missing(c, d) ELSE NoChange]
           dropoffs == [d \in Chain |-> [NoChange EXCEPT !.dropoff = all[d].dropoff]]
           fees == [d \in Chain |-> [NoChange EXCEPT !.fee = all[d].fee]]
<1>1. /\ NoChange \in Change /\ NoChange.peer = 0 /\ NoChange.canonical = 0
      /\ \A d \in Chain : 0 <= book[d]
  BY DEF NoChange, Change, IInv, TypeOK
<1>2. all \in Transaction /\ Good(book, registry, c, all)
  <2>1. \A d \in Chain :
          /\ all[d] \in Change
          /\ all[d].peer <= book[d]
          /\ all[d].canonical <= book[d]
          /\ (c \in Solana /\ all[d].peer # 0 /\ registry[c][d].canonical = 0) =>
               all[d].fee # 0 /\ all[d].dropoff # 0
    BY <1>1, MissingGood
  <2>2. all \in [Chain -> Change]
    BY <2>1
  <2> HIDE DEF all
  <2> QED
    BY <2>1, <2>2 DEF Good, Transaction
<1> HIDE DEF all
<1>3. \A d \in Chain : all[d].fee \in Nat /\ all[d].dropoff \in Nat
  BY <1>2 DEF Transaction, Change
<1>4. dropoffs \in Transaction /\ Good(book, registry, c, dropoffs)
  <2>1. \A d \in Chain :
          /\ dropoffs[d] \in Change
          /\ dropoffs[d].peer = 0
          /\ dropoffs[d].canonical = 0
    BY <1>3 DEF NoChange, Change
  <2>2. dropoffs \in [Chain -> Change]
    BY <2>1
  <2> HIDE DEF dropoffs
  <2> QED
    BY <2>1, <2>2, <1>1 DEF Good, Transaction
<1>5. fees \in Transaction /\ Good(book, registry, c, fees)
  <2>1. \A d \in Chain :
          /\ fees[d] \in Change
          /\ fees[d].peer = 0
          /\ fees[d].canonical = 0
    BY <1>3 DEF NoChange, Change
  <2>2. fees \in [Chain -> Change]
    BY <2>1
  <2> HIDE DEF fees
  <2> QED
    BY <2>1, <2>2, <1>1 DEF Good, Transaction
<1>6. Transactions(c, D) = IF c \in Solana /\ run.script = "configure-fee-and-dropoff"
                             THEN IfNeeded(dropoffs) \o IfNeeded(fees)
                             ELSE IfNeeded(all)
  BY DEF Transactions, all
<1> HIDE DEF dropoffs, fees
<1>7. CASE c \in Solana /\ run.script = "configure-fee-and-dropoff"
  <2>1. Transactions(c, D) = IfNeeded(dropoffs) \o IfNeeded(fees)
    BY <1>6, <1>7
  <2>2. /\ IfNeeded(dropoffs) \in Seq(Transaction)
        /\ \A i \in 1..Len(IfNeeded(dropoffs)) : Good(book, registry, c, IfNeeded(dropoffs)[i])
    BY <1>4, IfNeededGood
  <2>3. /\ IfNeeded(fees) \in Seq(Transaction)
        /\ \A i \in 1..Len(IfNeeded(fees)) : Good(book, registry, c, IfNeeded(fees)[i])
    BY <1>5, IfNeededGood
  <2> DEFINE s == IfNeeded(dropoffs)
             t == IfNeeded(fees)
  <2> HIDE DEF s, t
  <2>4. s \o t \in Seq(Transaction) /\ Len(s \o t) = Len(s) + Len(t)
    BY <2>2, <2>3 DEF s, t
  <2>5. ASSUME NEW i \in 1..Len(s \o t) PROVE Good(book, registry, c, (s \o t)[i])
    <3>1. (s \o t)[i] = IF i <= Len(s) THEN s[i] ELSE t[i - Len(s)]
      BY <2>2, <2>3, <2>4 DEF s, t
    <3>2. Len(s) \in Nat /\ Len(t) \in Nat
      BY <2>2, <2>3 DEF s, t
    <3>3. CASE i <= Len(s)
      BY <3>1, <3>2, <3>3, <2>2 DEF s
    <3>4. CASE ~(i <= Len(s))
      <4>1. i - Len(s) \in 1..Len(t)
        BY <3>2, <3>4, <2>4
      <4> QED
        BY <3>1, <3>4, <4>1, <2>3 DEF t
    <3> QED
      BY <3>3, <3>4
  <2> QED
    BY <2>1, <2>4, <2>5 DEF s, t
<1>8. CASE ~(c \in Solana /\ run.script = "configure-fee-and-dropoff")
  BY <1>2, <1>6, <1>8, IfNeededGood
<1> QED
  BY <1>7, <1>8

-----------------------------------------------------------------------------
(* The steps.                                                              *)
LEMMA RestStays ==
  ASSUME IInv, NEW b \in [Chain -> Nat], NEW g, Grows(b, g)
  PROVE  /\ GoodRun(b, g, run)
         /\ \A L \in SUBSET late : GoodLate(b, g, L)
<1>1. TypeOK /\ GoodRun(book, registry, run) /\ GoodLate(book, registry, late)
  BY DEF IInv
<1>2. ASSUME run # None PROVE GoodRun(b, g, run)
  <2>1. run \in Run
    BY <1>1, <1>2 DEF TypeOK
  <2>2. \A d \in Chain : run.book[d] <= b[d]
    <3> TAKE d \in Chain
    <3>1. run.book[d] \in Nat /\ book[d] \in Nat /\ b[d] \in Nat
      BY <1>1, <2>1 DEF TypeOK, Run
    <3>2. run.book[d] <= book[d] /\ book[d] <= b[d]
      BY <1>1, <1>2 DEF GoodRun, Grows
    <3> QED
      BY <3>1, <3>2
  <2>3. ASSUME NEW c \in Operating, NEW i \in 1..Len(run.plan[c])
        PROVE  Good(b, g, c, run.plan[c][i])
    <3>1. run.plan[c] \in Seq(Transaction)
      BY <2>1 DEF Run
    <3>2. run.plan[c][i] \in Transaction
      BY <3>1
    <3>3. Good(book, registry, c, run.plan[c][i])
      BY <1>1, <1>2 DEF GoodRun
    <3> QED
      BY <1>1, <3>2, <3>3, GoodStays
  <2> QED
    BY <2>2, <2>3 DEF GoodRun
<1>3. ASSUME NEW l \in late PROVE Good(b, g, l.chain, l.tx)
  <2>1. l.chain \in Operating /\ l.tx \in Transaction
    BY <1>1 DEF TypeOK
  <2>2. Good(book, registry, l.chain, l.tx)
    BY <1>1 DEF GoodLate
  <2> QED
    BY <1>1, <2>1, <2>2, GoodStays
<1> QED
  BY <1>2, <1>3 DEF GoodRun, GoodLate

(* Chains that fail, or are replaced, have nothing left to do in the run.  *)
LEMMA DroppedChains ==
  ASSUME run \in Run, NEW C, Failing(C) \/ Leaving(C)
  PROVE  /\ run'.script = run.script /\ run'.book = run.book
         /\ run'.clean \ run'.failed = (run.clean \ run.failed) \ C
         /\ \A c \in Operating :
              /\ run'.todo[c] = IF c \in C THEN {} ELSE run.todo[c]
              /\ run'.plan[c] = IF c \in C THEN <<>> ELSE run.plan[c]
<1>1. CASE Failing(C)
  BY <1>1 DEF Failing, Run
<1>2. CASE Leaving(C)
  BY <1>2 DEF Leaving, Run
<1> QED
  BY <1>1, <1>2

LEMMA FailingRun ==
  ASSUME IInv, run # None, NEW C \in SUBSET Operating, Failing(C) \/ Leaving(C),
         NEW b \in [Chain -> Nat], NEW g, Grows(b, g)
  PROVE  run' \in Run /\ GoodRun(b, g, run')
<1>1. run \in Run
  BY DEF IInv, TypeOK
<1>2. /\ run'.book = run.book
      /\ \A c \in Operating : run'.plan[c] = IF c \in C THEN <<>> ELSE run.plan[c]
  BY <1>1, DroppedChains
<1>3. run' \in Run
  <2>1. [c \in Operating |-> IF c \in C THEN {} ELSE run.todo[c]]
          \in [Operating -> SUBSET Chain]
    BY <1>1 DEF Run
  <2>2. [c \in Operating |-> IF c \in C THEN <<>> ELSE run.plan[c]]
          \in [Operating -> Seq(Transaction)]
    BY <1>1 DEF Run
  <2>3. PICK f \in SUBSET Operating, e \in SUBSET Operating :
          run' = [run EXCEPT !.failed = f, !.clean = e,
                 !.todo = [c \in Operating |-> IF c \in C THEN {} ELSE run.todo[c]],
                 !.plan = [c \in Operating |-> IF c \in C THEN <<>> ELSE run.plan[c]]]
    <3>1. CASE Failing(C)
      <4>1. run.failed \cup C \in SUBSET Operating /\ run.clean \in SUBSET Operating
        BY <1>1 DEF Run
      <4>2. run' = [run EXCEPT !.failed = run.failed \cup C, !.clean = run.clean,
                 !.todo = [c \in Operating |-> IF c \in C THEN {} ELSE run.todo[c]],
                 !.plan = [c \in Operating |-> IF c \in C THEN <<>> ELSE run.plan[c]]]
        BY <1>1, <3>1 DEF Failing, Run
      <4> QED
        BY <4>1, <4>2
    <3>2. CASE Leaving(C)
      <4>1. run.failed \in SUBSET Operating /\ run.clean \ C \in SUBSET Operating
        BY <1>1 DEF Run
      <4>2. run' = [run EXCEPT !.failed = run.failed, !.clean = run.clean \ C,
                 !.todo = [c \in Operating |-> IF c \in C THEN {} ELSE run.todo[c]],
                 !.plan = [c \in Operating |-> IF c \in C THEN <<>> ELSE run.plan[c]]]
        BY <1>1, <3>2 DEF Leaving, Run
      <4> QED
        BY <4>1, <4>2
    <3> QED
      BY <3>1, <3>2
  <2> QED
    BY <1>1, <2>1, <2>2, <2>3 DEF Run
<1>4. GoodRun(b, g, run)
  BY RestStays
<1> QED
  BY <1>2, <1>3, <1>4 DEF GoodRun

LEMMA HeadGood ==
  ASSUME IInv, NEW c \in Operating, run # None, run.plan[c] # <<>>
  PROVE  /\ Head(run.plan[c]) \in Transaction
         /\ Good(book, registry, c, Head(run.plan[c]))
<1>1. run.plan[c] \in Seq(Transaction)
  BY DEF IInv, TypeOK, Run
<1>2. 1 \in 1..Len(run.plan[c]) /\ Head(run.plan[c]) = run.plan[c][1]
  BY <1>1
<1>3. Good(book, registry, c, run.plan[c][1])
  BY <1>2 DEF IInv, GoodRun
<1> QED
  BY <1>1, <1>2, <1>3

(* Nothing but the run, and what is late, changes.                         *)
LEMMA QuietStep ==
  ASSUME IInv, UNCHANGED <<book, registry>>,
         config' = config, faults' \in 0..MaxFaults,
         run' = None \/ (run' \in Run /\ GoodRun(book, registry, run')),
         late' \subseteq [chain : Operating, tx : Transaction],
         GoodLate(book, registry, late')
  PROVE  IInv'
<1>1. TypeOK'
  BY DEF IInv, TypeOK
<1>2. OpenWithSettings'
  BY DEF IInv, OpenWithSettings
<1>3. GoodRun(book', registry', run')
  BY DEF GoodRun
<1>4. GoodLate(book', registry', late')
  OBVIOUS
<1> QED
  BY <1>1, <1>2, <1>3, <1>4 DEF IInv

LEMMA Steady == ASSUME TypeOK PROVE Grows(book, registry)
<1>1. \A d \in Chain : book[d] <= book[d]
  BY DEF TypeOK
<1> QED
  BY <1>1 DEF Grows

LEMMA StartStep == ASSUME IInv, NEW script \in Scripts, Start(script) PROVE IInv'
<1>1. book \in [Chain -> Nat] /\ \A d \in Chain : book[d] <= book[d]
  BY DEF IInv, TypeOK
<1>2. run' = [script |-> script, book |-> book,
              todo |-> [c \in Operating |-> Recorded(c, book)],
              plan |-> [c \in Operating |-> <<>>], failed |-> {},
              clean |-> {c \in Operating : \A l \in late : l.chain # c}]
  BY DEF Start
<1>3. run' \in Run
  <2>1. [c \in Operating |-> Recorded(c, book)] \in [Operating -> SUBSET Chain]
    BY DEF Recorded
  <2>2. [c \in Operating |-> <<>>] \in [Operating -> Seq(Transaction)]
    OBVIOUS
  <2> QED
    BY <1>1, <1>2, <2>1, <2>2 DEF Run
<1>4. GoodRun(book, registry, run')
  <2>1. \A c \in Operating : Len(run'.plan[c]) = 0
    BY <1>2
  <2> QED
    BY <1>1, <1>2, <2>1 DEF GoodRun
<1>5. /\ UNCHANGED <<book, registry>> /\ config' = config
      /\ faults' \in 0..MaxFaults
      /\ late' \subseteq [chain : Operating, tx : Transaction]
      /\ GoodLate(book, registry, late')
  BY DEF Start, IInv, TypeOK
<1> QED
  BY <1>3, <1>4, <1>5, QuietStep

LEMMA ReadStep ==
  ASSUME IInv, NEW c \in Operating, NEW D, Read(c, D)
  PROVE  IInv'
<1>1. run \in Run /\ run # None
  BY DEF IInv, TypeOK, Read, Active, Running
<1>2. /\ Transactions(c, D) \in Seq(Transaction)
      /\ \A i \in 1..Len(Transactions(c, D)) : Good(book, registry, c, Transactions(c, D)[i])
  BY <1>1, PlannedGood
<1>3. run' = [run EXCEPT !.todo[c] = @ \ D, !.plan[c] = Transactions(c, D)]
  BY DEF Read
<1>4. run' \in Run
  <2>1. [run.todo EXCEPT ![c] = @ \ D] \in [Operating -> SUBSET Chain]
    BY <1>1 DEF Run
  <2>2. [run.plan EXCEPT ![c] = Transactions(c, D)] \in [Operating -> Seq(Transaction)]
    BY <1>1, <1>2 DEF Run
  <2>3. run' = [run EXCEPT !.todo = [run.todo EXCEPT ![c] = @ \ D],
                           !.plan = [run.plan EXCEPT ![c] = Transactions(c, D)]]
    BY <1>1, <1>3 DEF Run
  <2> QED
    BY <1>1, <2>1, <2>2, <2>3 DEF Run
<1>5. /\ run'.book = run.book
      /\ \A e \in Operating :
           run'.plan[e] = IF e = c THEN Transactions(c, D) ELSE run.plan[e]
  BY <1>1, <1>3 DEF Run
<1>6. GoodRun(book, registry, run)
  BY DEF IInv
<1>7. GoodRun(book, registry, run')
  BY <1>1, <1>2, <1>5, <1>6 DEF GoodRun
<1>8. /\ UNCHANGED <<book, registry>> /\ config' = config
      /\ faults' \in 0..MaxFaults
      /\ late' \subseteq [chain : Operating, tx : Transaction]
      /\ GoodLate(book, registry, late')
  BY DEF Read, IInv, TypeOK
<1> QED
  BY <1>4, <1>7, <1>8, QuietStep

(* A transaction that is taken, and what it leaves of the run.             *)
LEMMA TakenStep ==
  ASSUME IInv, NEW c \in Operating, NEW tx \in Transaction,
         Good(book, registry, c, tx), Accepted(c, tx), registry' = Effect(c, tx),
         UNCHANGED <<book, config, faults>>, late' \subseteq late,
         run' = run
           \/ (/\ run' \in Run /\ run # None /\ run'.book = run.book
               /\ \A e \in Operating : \A i \in 1..Len(run'.plan[e]) :
                    \E j \in 1..Len(run.plan[e]) : run'.plan[e][i] = run.plan[e][j])
  PROVE  IInv'
<1>1. /\ registry' \in [Operating -> [Chain -> Registration]]
      /\ \A e \in Operating, d \in Chain : Entry(registry'[e][d], book'[d])
      /\ OpenWithSettings'
      /\ Grows(book', registry')
  BY EffectStep
<1>2. book' \in [Chain -> Nat]
  BY DEF IInv, TypeOK
<1>3. GoodRun(book', registry', run) /\ GoodLate(book', registry', late')
  BY <1>1, <1>2, RestStays
<1>4. GoodRun(book', registry', run')
  BY <1>3 DEF GoodRun
<1>5. TypeOK'
  BY <1>1 DEF IInv, TypeOK
<1> QED
  BY <1>1, <1>3, <1>4, <1>5 DEF IInv

LEMMA SendStep == ASSUME IInv, NEW c \in Operating, Send(c) PROVE IInv'
<1>1. run \in Run /\ run # None /\ run.plan[c] # <<>>
  BY DEF IInv, TypeOK, Send, Sending, Active, Running
<1>2. run.plan[c] \in Seq(Transaction)
  BY <1>1 DEF Run
<1>3. /\ Head(run.plan[c]) \in Transaction
      /\ Good(book, registry, c, Head(run.plan[c]))
  BY <1>1, HeadGood
<1>4. run' = [run EXCEPT !.plan = [run.plan EXCEPT ![c] = Tail(run.plan[c])]]
  BY <1>1 DEF Send, Run
<1>5. Tail(run.plan[c]) \in Seq(Transaction)
  BY <1>1, <1>2
<1>6. run' \in Run /\ run'.book = run.book
  BY <1>1, <1>4, <1>5 DEF Run
<1>7. ASSUME NEW e \in Operating, NEW i \in 1..Len(run'.plan[e])
      PROVE  \E j \in 1..Len(run.plan[e]) : run'.plan[e][i] = run.plan[e][j]
  <2>1. CASE e # c
    <3>1. run'.plan[e] = run.plan[e]
      BY <1>1, <1>4, <2>1 DEF Run
    <3> QED
      BY <3>1, <1>7
  <2>2. CASE e = c
    <3>1. run'.plan[c] = Tail(run.plan[c])
      BY <1>1, <1>4 DEF Run
    <3>2. i + 1 \in 1..Len(run.plan[c]) /\ Tail(run.plan[c])[i] = run.plan[c][i + 1]
      BY <1>1, <1>2, <1>7, <2>2, <3>1
    <3> QED
      BY <2>2, <3>1, <3>2
  <2> QED
    BY <2>1, <2>2
<1>8. /\ Accepted(c, Head(run.plan[c]))
      /\ registry' = Effect(c, Head(run.plan[c]))
      /\ UNCHANGED <<book, config, faults>> /\ late' \subseteq late
  BY DEF Send
<1> QED
  BY <1>1, <1>3, <1>6, <1>7, <1>8, TakenStep

(* Every way to fail, and what it may leave late.                          *)
LEMMA FailingStep ==
  ASSUME IInv, run # None, NEW C \in SUBSET Operating, Failing(C),
         UNCHANGED <<book, config, registry>>, faults' = faults \/ Fault,
         NEW S \in SUBSET {c \in Operating : run.plan[c] # <<>>},
         late' = late \cup Loose(S)
  PROVE  IInv'
<1>1. TypeOK /\ book \in [Chain -> Nat] /\ Grows(book, registry)
  BY Steady DEF IInv, TypeOK
<1>2. run' \in Run /\ GoodRun(book, registry, run')
  BY <1>1, FailingRun
<1>3. faults' \in 0..MaxFaults
  BY DeploymentAssumption DEF IInv, TypeOK, Fault
<1>4. ASSUME NEW l \in Loose(S)
      PROVE  l \in [chain : Operating, tx : Transaction] /\ Good(book, registry, l.chain, l.tx)
  <2>1. PICK c \in S : l = [chain |-> c, tx |-> Head(run.plan[c])]
    BY DEF Loose
  <2>2. c \in Operating /\ run.plan[c] # <<>>
    OBVIOUS
  <2> QED
    BY <2>1, <2>2, HeadGood
<1>5. late' \subseteq [chain : Operating, tx : Transaction]
  BY <1>1, <1>4 DEF TypeOK
<1>6. GoodLate(book, registry, late')
  BY <1>4 DEF IInv, GoodLate
<1> QED
  BY <1>2, <1>3, <1>5, <1>6, QuietStep

LEMMA FaultSteps ==
  ASSUME IInv,
         \/ \E c \in Operating : Refused(c) \/ Fail(c) \/ Lose(c)
         \/ \E C \in {Evm, Solana} : Crash(C \cap Operating)
  PROVE  IInv'
<1>1. Loose({}) = {}
  BY DEF Loose
<1>2. ASSUME NEW c \in Operating, Refused(c) \/ Fail(c) PROVE IInv'
  <2>1. /\ run # None /\ Failing({c}) /\ UNCHANGED <<book, config, registry>>
        /\ faults' = faults \/ Fault
        /\ late' = late \cup Loose({})
    BY <1>1, <1>2 DEF Refused, Fail, Active, Running
  <2> QED
    BY <2>1, FailingStep
<1>3. ASSUME NEW c \in Operating, Lose(c) PROVE IInv'
  <2>1. /\ run # None /\ Failing({c}) /\ UNCHANGED <<book, config, registry>>
        /\ Fault /\ late' = late \cup Loose({c}) /\ run.plan[c] # <<>>
    BY <1>3 DEF Lose, Sending, Active, Running
  <2> QED
    BY <2>1, FailingStep
<1>4. ASSUME NEW C \in SUBSET Operating, Crash(C) PROVE IInv'
  <2>1. PICK S \in SUBSET {c \in C : Sending(c)} : late' = late \cup Loose(S)
    BY <1>4 DEF Crash
  <2>2. /\ run # None /\ Failing({c \in C : Active(c)})
        /\ UNCHANGED <<book, config, registry>> /\ Fault
    BY <1>4 DEF Crash, Active, Running
  <2>3. /\ {c \in C : Active(c)} \in SUBSET Operating
        /\ S \in SUBSET {c \in Operating : run.plan[c] # <<>>}
    BY DEF Sending
  <2> QED
    BY <2>1, <2>2, <2>3, FailingStep
<1> QED
  BY <1>2, <1>3, <1>4

LEMMA SettleStep == ASSUME IInv, Settle PROVE IInv'
<1>1. PICK l \in late : Land(l) \/ Vanish(l)
  BY DEF Settle
<1>2. l.chain \in Operating /\ l.tx \in Transaction /\ Good(book, registry, l.chain, l.tx)
  BY DEF IInv, TypeOK, GoodLate
<1>3. CASE Land(l)
  <2>1. /\ Accepted(l.chain, l.tx) /\ registry' = Effect(l.chain, l.tx)
        /\ UNCHANGED <<book, config, faults>> /\ late' \subseteq late /\ run' = run
    BY <1>3 DEF Land
  <2> QED
    BY <1>2, <2>1, TakenStep
<1>4. CASE Vanish(l)
  <2>1. /\ UNCHANGED <<book, registry>> /\ config' = config
        /\ faults' \in 0..MaxFaults
        /\ run' = None \/ (run' \in Run /\ GoodRun(book, registry, run'))
        /\ late' \subseteq [chain : Operating, tx : Transaction]
        /\ GoodLate(book, registry, late')
    BY <1>4 DEF Vanish, IInv, TypeOK, GoodLate
  <2> QED
    BY <2>1, QuietStep
<1> QED
  BY <1>1, <1>3, <1>4

(* On Solana no contract is replaced.                                      *)
LEMMA DeployStep == ASSUME IInv, NEW D \in SUBSET Evm, Deploy(D) PROVE IInv'
<1>1. TypeOK /\ book \in [Chain -> Nat]
  BY DEF IInv, TypeOK
<1>2. book' \in [Chain -> Nat] /\ \A d \in Chain : book[d] <= book'[d]
  BY <1>1 DEF Deploy, WriteDeployedContracts, DeployProxies
<1>3. \A c \in Operating : registry'[c] = IF c \in D THEN [d \in Chain |-> Unregistered]
                                          ELSE registry[c]
  BY DEF Deploy, WriteDeployedContracts, DeployProxies
<1>4. \A c \in Operating \cap Solana : registry'[c] = registry[c]
  BY <1>3, DeploymentAssumption
<1>5. Grows(book', registry')
  BY <1>2, <1>4 DEF Grows
<1>6. Unregistered \in Registration /\ \A n \in Nat : Entry(Unregistered, n)
  BY DEF Unregistered, Registration, Entry
<1>7. ASSUME NEW c \in Operating, NEW d \in Chain
      PROVE  registry'[c][d] \in Registration /\ Entry(registry'[c][d], book'[d])
  <2>1. CASE c \in D
    BY <1>2, <1>3, <1>6, <2>1
  <2>2. CASE c \notin D
    <3>1. registry'[c][d] = registry[c][d] /\ Entry(registry[c][d], book[d])
      BY <1>1, <1>3, <2>2 DEF TypeOK
    <3>2. 1..book[d] \subseteq 1..book'[d]
      BY <1>1, <1>2
    <3> QED
      BY <3>1, <3>2 DEF Entry
  <2> QED
    BY <2>1, <2>2
<1>8. registry' \in [Operating -> [Chain -> Registration]]
  <2>1. [d \in Chain |-> Unregistered] \in [Chain -> Registration]
    BY <1>6
  <2>2. registry \in [Operating -> [Chain -> Registration]]
    BY <1>1 DEF TypeOK
  <2> QED
    BY <2>1, <2>2 DEF Deploy, WriteDeployedContracts, DeployProxies
<1>9. OpenWithSettings'
  BY <1>4 DEF IInv, OpenWithSettings
<1>10. (run' = None \/ run' \in Run) /\ GoodRun(book', registry', run')
  <2>1. CASE run # None
    <3>1. PICK C \in SUBSET Operating : Leaving(C)
      BY <2>1 DEF Deploy, WriteDeployedContracts, DeployProxies, Running
    <3> QED
      BY <2>1, <3>1, <1>2, <1>5, FailingRun
  <2>2. CASE run = None
    BY <2>2 DEF Deploy, WriteDeployedContracts, DeployProxies, Running, GoodRun
  <2> QED
    BY <2>1, <2>2
<1>11. late' \subseteq late
  BY DEF Deploy, WriteDeployedContracts, DeployProxies
<1>12. GoodLate(book', registry', late')
  BY <1>2, <1>5, <1>11, RestStays
<1>13. TypeOK'
  BY <1>1, <1>2, <1>7, <1>8, <1>10, <1>11 DEF TypeOK, Deploy, WriteDeployedContracts, DeployProxies
<1> QED
  BY <1>9, <1>10, <1>12, <1>13 DEF IInv

LEMMA EditStep == ASSUME IInv, NEW d \in Chain, Edit(d) PROVE IInv'
<1>1. config' \in [Chain -> Nat \ {0}]
  BY DEF Edit, IInv, TypeOK
<1>2. run' = None \/ run' \in Run
  BY DEF Edit, IInv, TypeOK, Run, Running
<1>3. run # None => run'.plan = run.plan /\ run'.book = run.book
  BY DEF Edit, IInv, TypeOK, Run, Running
<1>4. GoodRun(book', registry', run')
  <2>1. CASE run = None
    BY <2>1 DEF Edit, Running, GoodRun
  <2>2. CASE run # None
    BY <1>3, <2>2 DEF Edit, IInv, GoodRun
  <2> QED
    BY <2>1, <2>2
<1>5. TypeOK'
  BY <1>1, <1>2 DEF Edit, IInv, TypeOK
<1>6. GoodLate(book', registry', late')
  BY DEF Edit, IInv
<1>7. OpenWithSettings'
  BY DEF Edit, IInv, OpenWithSettings
<1> QED
  BY <1>4, <1>5, <1>6, <1>7 DEF IInv

LEMMA EndStep == ASSUME IInv, End PROVE IInv'
<1>1. /\ UNCHANGED <<book, registry>> /\ config' = config
      /\ faults' \in 0..MaxFaults
      /\ run' = None
      /\ late' \subseteq [chain : Operating, tx : Transaction]
      /\ GoodLate(book, registry, late')
  BY DEF End, IInv, TypeOK
<1> QED
  BY <1>1, QuietStep

LEMMA InitIInv == ASSUME Init PROVE IInv
<1>1. Unregistered \in Registration /\ \A n \in Nat : Entry(Unregistered, n)
  BY DEF Unregistered, Registration, Entry
<1>2. TypeOK
  BY <1>1, DeploymentAssumption DEF Init, TypeOK
<1>3. OpenWithSettings
  BY DEF Init, OpenWithSettings, Unregistered
<1>4. GoodRun(book, registry, run) /\ GoodLate(book, registry, late)
  BY DEF Init, GoodRun, GoodLate
<1> QED
  BY <1>2, <1>3, <1>4 DEF IInv

LEMMA NextIInv == ASSUME IInv, [Next]_vars PROVE IInv'
<1>1. ASSUME NEW script \in Scripts, Start(script) PROVE IInv'
  BY <1>1, StartStep
<1>2. ASSUME NEW c \in Operating, Step(c) PROVE IInv'
  <2>1. CASE Active(c) /\ ReadNext(c)
    <3>1. PICK D : Read(c, D)
      BY <2>1 DEF ReadNext
    <3> QED
      BY <3>1, ReadStep
  <2>2. CASE Send(c)
    BY <2>2, SendStep
  <2>3. CASE Refused(c)
    BY <2>3, FaultSteps
  <2> QED
    BY <1>2, <2>1, <2>2, <2>3 DEF Step
<1>3. ASSUME NEW c \in Operating, Fail(c) \/ Lose(c) PROVE IInv'
  BY <1>3, FaultSteps
<1>4. ASSUME NEW C \in {Evm, Solana}, Crash(C \cap Operating) PROVE IInv'
  BY <1>4, FaultSteps
<1>5. CASE End
  BY <1>5, EndStep
<1>6. CASE Settle
  BY <1>6, SettleStep
<1>7. ASSUME NEW D \in SUBSET Evm \ {{}}, Deploy(D) PROVE IInv'
  BY <1>7, DeployStep
<1>8. ASSUME NEW d \in Chain, Edit(d) PROVE IInv'
  BY <1>8, EditStep
<1>9. CASE UNCHANGED vars
  BY <1>9 DEF vars, IInv, TypeOK, OpenWithSettings, GoodRun, GoodLate
<1> QED
  BY <1>1, <1>2, <1>3, <1>4, <1>5, <1>6, <1>7, <1>8, <1>9 DEF Next

THEOREM Invariance == Spec => []IInv
<1>1. Init => IInv
  BY InitIInv
<1>2. IInv /\ [Next]_vars => IInv'
  BY NextIInv
<1> QED
  BY <1>1, <1>2, PTL DEF Spec

(* Whatever the scripts do and whatever fails: a contract accepts messages *)
(* from, and sends to, contracts that were recorded for the right chain.   *)
THEOREM TypeCorrect == Spec => []TypeOK
<1>1. IInv => TypeOK
  BY DEF IInv
<1> QED
  BY <1>1, Invariance, PTL

(* On Solana no chain is ever open without its fee and largest dropoff,    *)
(* late and repeated transactions included (registerFirstPeer).            *)
THEOREM OpensWithSettings == Spec => []OpenWithSettings
<1>1. IInv => OpenWithSettings
  BY DEF IInv
<1> QED
  BY <1>1, Invariance, PTL

-----------------------------------------------------------------------------
(* What a plan of at most two transactions makes of the entry r for d.     *)
After(r, p, d) ==
  IF p = <<>> THEN r
  ELSE LET s == Updated(r, Head(p)[d]) IN
       IF Tail(p) = <<>> THEN s ELSE Updated(s, Head(Tail(p))[d])

LEMMA UpdatedType ==
  ASSUME NEW r \in Registration, NEW u \in Change
  PROVE  Updated(r, u) \in Registration
BY DEF Updated, Registration, Change

LEMMA NothingUpdated ==
  ASSUME NEW r \in Registration
  PROVE  Updated(r, NoChange) = r
BY DEF Updated, Registration, NoChange

LEMMA AfterNeeded ==
  ASSUME NEW r \in Registration, NEW tx \in Transaction, NEW d \in Chain
  PROVE  /\ After(r, IfNeeded(tx), d) = Updated(r, tx[d])
         /\ Len(IfNeeded(tx)) <= 2
<1>1. CASE \A e \in Chain : tx[e] = NoChange
  <2>1. IfNeeded(tx) = <<>> /\ tx[d] = NoChange
    BY <1>1 DEF IfNeeded
  <2> QED
    BY <2>1, NothingUpdated DEF After
<1>2. CASE ~\A e \in Chain : tx[e] = NoChange
  <2>1. IfNeeded(tx) = <<tx>>
    BY <1>2 DEF IfNeeded
  <2>2. <<tx>> # <<>> /\ Head(<<tx>>) = tx /\ Tail(<<tx>>) = <<>> /\ Len(<<tx>>) = 1
    OBVIOUS
  <2> QED
    BY <2>1, <2>2 DEF After
<1> QED
  BY <1>1, <1>2

LEMMA Pair == ASSUME NEW x, NEW y PROVE <<x>> \o <<y>> = <<x, y>>
<1> DEFINE S == {x, y}
           s == <<x>> \o <<y>>
<1>1. /\ <<x>> \in Seq(S) /\ Len(<<x>>) = 1 /\ <<x>>[1] = x
      /\ <<y>> \in Seq(S) /\ Len(<<y>>) = 1 /\ <<y>>[1] = y
      /\ <<x, y>> \in Seq(S) /\ Len(<<x, y>>) = 2
      /\ <<x, y>>[1] = x /\ <<x, y>>[2] = y
  OBVIOUS
<1>2. s \in Seq(S) /\ Len(s) = 2 /\ s[1] = x /\ s[2] = y
  BY <1>1, ConcatProperties
<1> HIDE DEF s
<1>3. \A i \in 1..2 : s[i] = <<x, y>>[i]
  BY <1>1, <1>2
<1> QED
  BY <1>1, <1>2, <1>3, SeqEqual DEF s

LEMMA AfterTwoNeeded ==
  ASSUME NEW r \in Registration, NEW t \in Transaction, NEW u \in Transaction,
         NEW d \in Chain
  PROVE  /\ After(r, IfNeeded(t) \o IfNeeded(u), d) = Updated(Updated(r, t[d]), u[d])
         /\ Len(IfNeeded(t) \o IfNeeded(u)) <= 2
<1> DEFINE plan == IfNeeded(t) \o IfNeeded(u)
<1>1. t[d] \in Change /\ Updated(r, t[d]) \in Registration
  BY UpdatedType DEF Transaction
<1>2. CASE \A e \in Chain : t[e] = NoChange
  <2>1. IfNeeded(t) = <<>> /\ t[d] = NoChange
    BY <1>2 DEF IfNeeded
  <2>2. IfNeeded(u) \in Seq(Transaction)
    BY DEF IfNeeded
  <2>3. plan = IfNeeded(u)
    BY <2>1, <2>2
  <2> QED
    BY <2>1, <2>3, NothingUpdated, AfterNeeded
<1>3. CASE ~\A e \in Chain : t[e] = NoChange
  <2>1. IfNeeded(t) = <<t>>
    BY <1>3 DEF IfNeeded
  <2>2. CASE \A e \in Chain : u[e] = NoChange
    <3>1. IfNeeded(u) = <<>> /\ u[d] = NoChange
      BY <2>2 DEF IfNeeded
    <3>2. plan = <<t>>
      BY <2>1, <3>1
    <3>3. plan = IfNeeded(t)
      BY <2>1, <3>2
    <3> QED
      BY <1>1, <3>1, <3>3, NothingUpdated, AfterNeeded
  <2>3. CASE ~\A e \in Chain : u[e] = NoChange
    <3>1. IfNeeded(u) = <<u>>
      BY <2>3 DEF IfNeeded
    <3>2. plan = <<t, u>>
      BY <2>1, <3>1, Pair
    <3>3. /\ <<t, u>> # <<>> /\ Head(<<t, u>>) = t /\ Tail(<<t, u>>) = <<u>>
          /\ <<u>> # <<>> /\ Head(<<u>>) = u /\ Len(<<t, u>>) = 2
      OBVIOUS
    <3> QED
      BY <3>2, <3>3 DEF After
  <2> QED
    BY <2>2, <2>3
<1> QED
  BY <1>2, <1>3

(* A fee and a dropoff set one after the other are both set.               *)
LEMMA SetInTwo ==
  ASSUME NEW r \in Registration, NEW u \in Change, u.peer = 0, u.canonical = 0
  PROVE  Updated(Updated(r, [NoChange EXCEPT !.dropoff = u.dropoff]),
                 [NoChange EXCEPT !.fee = u.fee]) = Updated(r, u)
BY DEF Updated, Registration, Change, NoChange

(* What a script plans for the chains D is what they miss.                 *)
LEMMA PlannedAfter ==
  ASSUME IInv, run # None, NEW c \in Operating, NEW D, NEW d \in Chain
  PROVE  /\ After(registry[c][d], Transactions(c, D), d)
              = IF d \in D THEN Updated(registry[c][d], Missing(c, d))
                ELSE registry[c][d]
         /\ Len(Transactions(c, D)) <= 2
<1> DEFINE r == registry[c][d]
           all == [e \in Chain |-> IF e \in D THEN Missing(c, e) ELSE NoChange]
           dropoffs == [e \in Chain |-> [NoChange EXCEPT !.dropoff = all[e].dropoff]]
           fees == [e \in Chain |-> [NoChange EXCEPT !.fee = all[e].fee]]
<1>1. r \in Registration
  BY DEF IInv, TypeOK
<1>2. NoChange \in Change /\ NoChange.peer = 0 /\ NoChange.canonical = 0
  BY DEF NoChange, Change
<1>3. \A e \in Chain : all[e] \in Change
  BY <1>2, MissingGood
<1>4. all \in Transaction
  BY <1>3 DEF Transaction
<1>5. IF d \in D THEN Updated(r, Missing(c, d)) = Updated(r, all[d])
      ELSE r = Updated(r, all[d])
  BY <1>1, NothingUpdated
<1>6. Transactions(c, D) = IF c \in Solana /\ run.script = "configure-fee-and-dropoff"
                             THEN IfNeeded(dropoffs) \o IfNeeded(fees)
                             ELSE IfNeeded(all)
  BY DEF Transactions
<1>7. run.script = "configure-fee-and-dropoff" =>
        all[d].peer = 0 /\ all[d].canonical = 0
  BY <1>2 DEF Missing, Setting, NoChange
<1> HIDE DEF all
<1>8. dropoffs \in Transaction /\ fees \in Transaction
  BY <1>3 DEF Transaction, Change, NoChange
<1>9. /\ dropoffs[d] = [NoChange EXCEPT !.dropoff = all[d].dropoff]
      /\ fees[d] = [NoChange EXCEPT !.fee = all[d].fee]
  OBVIOUS
<1> HIDE DEF r, dropoffs, fees
<1>10. CASE c \in Solana /\ run.script = "configure-fee-and-dropoff"
  <2>1. /\ After(r, Transactions(c, D), d) = Updated(Updated(r, dropoffs[d]), fees[d])
        /\ Len(Transactions(c, D)) <= 2
    BY <1>1, <1>6, <1>8, <1>10, AfterTwoNeeded
  <2>2. Updated(Updated(r, dropoffs[d]), fees[d]) = Updated(r, all[d])
    BY <1>1, <1>3, <1>7, <1>9, <1>10, SetInTwo
  <2> QED
    BY <1>5, <2>1, <2>2 DEF r
<1>11. CASE ~(c \in Solana /\ run.script = "configure-fee-and-dropoff")
  <2>1. /\ After(r, Transactions(c, D), d) = Updated(r, all[d])
        /\ Len(Transactions(c, D)) <= 2
    BY <1>1, <1>4, <1>6, <1>11, AfterNeeded
  <2> QED
    BY <1>5, <2>1 DEF r
<1> QED
  BY <1>10, <1>11

(* With what it misses, an entry is what the script is for.                *)
LEMMA MissingAchieves ==
  ASSUME IInv, run # None, NEW c \in Operating, NEW d \in Recorded(c, run.book)
  PROVE  Achieved(c, d, Updated(registry[c][d], Missing(c, d)))
<1> DEFINE r == registry[c][d]
           b == run.book[d]
<1>1. d \in Chain /\ b \in Nat \ {0} /\ run.script \in Scripts /\ r \in Registration
  BY DEF IInv, TypeOK, Run, Recorded
<1>2. Fee(c, d) \in Nat \ {0} /\ Dropoff(d) \in Nat \ {0}
  BY <1>1, FeeType
<1>3. CASE run.script = "register-peers"
  BY <1>1, <1>3 DEF Missing, Registering, Achieved, Updated, NoChange
<1>4. CASE run.script = "set-canonical-peer"
  BY <1>1, <1>4
     DEF Missing, Redirecting, Skipped, Achieved, Updated, NoChange, Registration
<1>5. CASE run.script = "configure-fee-and-dropoff"
  BY <1>1, <1>2, <1>5
     DEF Missing, Setting, Skipped, Achieved, Updated, NoChange, Registration
<1> QED
  BY <1>1, <1>3, <1>4, <1>5 DEF Scripts

-----------------------------------------------------------------------------
(* Of a chain that goes well and that nothing else changes: once what is   *)
(* planned is sent, the script has done its work for the peers it went     *)
(* through.                                                                *)
SettledAt(c) ==
  /\ \A l \in late : l.chain # c
  /\ Len(run.plan[c]) <= 2
  /\ \A d \in Recorded(c, run.book) \ run.todo[c] :
       Achieved(c, d, After(registry[c][d], run.plan[c], d))

Settled ==
  run # None =>
    /\ \A c \in Operating : run.todo[c] \subseteq Recorded(c, run.book)
    /\ \A c \in run.clean \ run.failed : SettledAt(c)

LEMMA AchievedKept ==
  ASSUME NEW c, NEW d, NEW r, Achieved(c, d, r),
         run'.script = run.script, run'.book = run.book, config' = config
  PROVE  Achieved(c, d, r)'
BY DEF Achieved, Fee, Dropoff

LEMMA SettledNext ==
  ASSUME NEW c,
         run'.script = run.script, run'.book = run.book, config' = config,
         \A l \in late' : l.chain # c, Len(run'.plan[c]) <= 2,
         \A d \in Recorded(c, run.book) \ run'.todo[c] :
           \E r : r = After(registry'[c][d], run'.plan[c], d) /\ Achieved(c, d, r)
  PROVE  SettledAt(c)'
<1>1. ASSUME NEW d \in Recorded(c, run'.book) \ run'.todo[c]
      PROVE  Achieved(c, d, After(registry[c][d], run.plan[c], d))'
  <2>1. PICK r : r = After(registry'[c][d], run'.plan[c], d) /\ Achieved(c, d, r)
    BY DEF Recorded
  <2>2. Achieved(c, d, r)'
    BY <2>1, AchievedKept
  <2> QED
    BY <2>1, <2>2 DEF After, Achieved
<1> QED
  BY <1>1 DEF SettledAt, Recorded

(* A chain that the step is not about.                                     *)
LEMMA KeptAt ==
  ASSUME NEW c, SettledAt(c),
         run'.script = run.script, run'.book = run.book,
         run'.todo[c] = run.todo[c], run'.plan[c] = run.plan[c],
         registry'[c] = registry[c], config' = config,
         \A l \in late' : l \in late \/ l.chain # c
  PROVE  SettledAt(c)'
<1>1. \A d \in Recorded(c, run.book) \ run'.todo[c] :
        Achieved(c, d, After(registry'[c][d], run'.plan[c], d))
  BY DEF SettledAt
<1> QED
  BY <1>1, SettledNext DEF SettledAt

LEMMA StartSettles ==
  ASSUME IInv, NEW script \in Scripts, Start(script)
  PROVE  Settled'
<1>1. run' = [script |-> script, book |-> book,
              todo |-> [c \in Operating |-> Recorded(c, book)],
              plan |-> [c \in Operating |-> <<>>], failed |-> {},
              clean |-> {c \in Operating : \A l \in late : l.chain # c}]
      /\ UNCHANGED late
  BY DEF Start
<1>2. ASSUME NEW c \in Operating
      PROVE  /\ run'.todo[c] = Recorded(c, run'.book)
             /\ run'.plan[c] = <<>>
             /\ c \in run'.clean => \A l \in late' : l.chain # c
  BY <1>1
<1>3. run'.clean \subseteq Operating /\ Len(<<>>) = 0
  BY <1>1
<1> QED
  BY <1>2, <1>3 DEF Settled, SettledAt, Recorded

(* What was read is planned for.                                           *)
LEMMA ReadSettles ==
  ASSUME IInv, Settled, NEW c \in Operating, NEW D, Read(c, D)
  PROVE  Settled'
<1>1. run \in Run /\ run # None /\ run.plan[c] = <<>>
  BY DEF IInv, TypeOK, Read, Active, Running
<1>2. run' = [run EXCEPT !.todo = [run.todo EXCEPT ![c] = run.todo[c] \ D],
                         !.plan = [run.plan EXCEPT ![c] = Transactions(c, D)]]
      /\ UNCHANGED <<config, registry, late>>
  BY <1>1 DEF Read, Run
<1>3. /\ run'.script = run.script /\ run'.book = run.book
      /\ run'.clean = run.clean /\ run'.failed = run.failed
      /\ run'.todo = [run.todo EXCEPT ![c] = run.todo[c] \ D]
      /\ run'.plan = [run.plan EXCEPT ![c] = Transactions(c, D)]
  BY <1>1, <1>2 DEF Run
<1>4. \A e \in Operating :
        /\ run'.todo[e] = IF e = c THEN run.todo[c] \ D ELSE run.todo[e]
        /\ run'.plan[e] = IF e = c THEN Transactions(c, D) ELSE run.plan[e]
  BY <1>1, <1>3 DEF Run
<1>5. \A e \in Operating : run'.todo[e] \subseteq Recorded(e, run'.book)
  BY <1>1, <1>3, <1>4 DEF Settled, Recorded
<1>6. ASSUME NEW e \in run'.clean \ run'.failed
      PROVE  SettledAt(e)'
  <2>1. e \in Operating /\ SettledAt(e)
    BY <1>1, <1>3, <1>6 DEF Settled, Run
  <2>2. CASE e # c
    BY <1>2, <1>3, <1>4, <2>1, <2>2, KeptAt
  <2>3. CASE e = c
    <3>1. ASSUME NEW d \in Recorded(c, run.book) \ (run.todo[c] \ D)
          PROVE  Achieved(c, d, After(registry[c][d], Transactions(c, D), d))
      <4>1. d \in Chain
        BY DEF Recorded
      <4>2. CASE d \in D
        BY <1>1, <4>1, <4>2, PlannedAfter, MissingAchieves
      <4>3. CASE d \notin D
        <5>1. After(registry[c][d], Transactions(c, D), d) = registry[c][d]
          BY <1>1, <4>1, <4>3, PlannedAfter
        <5>2. Achieved(c, d, After(registry[c][d], <<>>, d))
          BY <1>1, <2>1, <2>3, <4>3 DEF SettledAt
        <5> QED
          BY <5>1, <5>2 DEF After
      <4> QED
        BY <4>2, <4>3
    <3>2. Len(run'.plan[c]) <= 2
      <4>1. c \in Chain
        BY DeploymentAssumption
      <4>2. Len(Transactions(c, D)) <= 2
        BY <1>1, <4>1, PlannedAfter
      <4> QED
        BY <1>4, <4>2
    <3>3. \A l \in late' : l.chain # c
      BY <1>2, <2>1, <2>3 DEF SettledAt
    <3>4. run'.todo[c] = run.todo[c] \ D /\ run'.plan[c] = Transactions(c, D)
      BY <1>4
    <3>5. \A d \in Recorded(c, run.book) \ run'.todo[c] :
            Achieved(c, d, After(registry'[c][d], run'.plan[c], d))
      BY <1>2, <3>1, <3>4
    <3> QED
      BY <1>2, <1>3, <2>3, <3>2, <3>3, <3>5, SettledNext
  <2> QED
    BY <2>2, <2>3
<1> QED
  BY <1>5, <1>6 DEF Settled

(* What was planned is sent.                                               *)
LEMMA AfterSent ==
  ASSUME NEW r, NEW p \in Seq(Transaction), p # <<>>, Len(p) <= 2, NEW d
  PROVE  /\ After(Updated(r, Head(p)[d]), Tail(p), d) = After(r, p, d)
         /\ Tail(p) \in Seq(Transaction) /\ Len(Tail(p)) <= 2
<1>1. Tail(p) \in Seq(Transaction) /\ Len(Tail(p)) = Len(p) - 1 /\ Len(p) \in Nat
  OBVIOUS
<1>2. CASE Tail(p) = <<>>
  BY <1>1, <1>2 DEF After
<1>3. CASE Tail(p) # <<>>
  <2>1. Len(Tail(p)) = 1
    BY <1>1, <1>3
  <2>2. Tail(Tail(p)) = <<>>
    BY <1>1, <2>1
  <2> QED
    BY <1>1, <1>3, <2>2 DEF After
<1> QED
  BY <1>2, <1>3

LEMMA SendSettles ==
  ASSUME IInv, Settled, NEW c \in Operating, Send(c)
  PROVE  Settled'
<1>1. run \in Run /\ run # None /\ run.plan[c] # <<>>
  BY DEF IInv, TypeOK, Send, Sending, Active, Running
<1>2. /\ run' = [run EXCEPT !.plan = [run.plan EXCEPT ![c] = Tail(run.plan[c])]]
      /\ registry' = Effect(c, Head(run.plan[c]))
      /\ UNCHANGED <<config, late>>
  BY <1>1 DEF Send, Run
<1>3. /\ run'.script = run.script /\ run'.book = run.book /\ run'.todo = run.todo
      /\ run'.clean = run.clean /\ run'.failed = run.failed
      /\ \A e \in Operating :
           run'.plan[e] = IF e = c THEN Tail(run.plan[c]) ELSE run.plan[e]
  BY <1>1, <1>2 DEF Run
<1>4. /\ \A e \in Operating \ {c} : registry'[e] = registry[e]
      /\ \A d \in Chain :
           registry'[c][d] = Updated(registry[c][d], Head(run.plan[c])[d])
  BY <1>2 DEF IInv, TypeOK, Effect
<1>5. ASSUME NEW e \in run'.clean \ run'.failed
      PROVE  SettledAt(e)'
  <2>1. e \in Operating /\ SettledAt(e)
    BY <1>1, <1>3, <1>5 DEF Settled, Run
  <2>2. CASE e # c
    BY <1>2, <1>3, <1>4, <2>1, <2>2, KeptAt
  <2>3. CASE e = c
    <3>1. run.plan[c] \in Seq(Transaction) /\ Len(run.plan[c]) <= 2
      BY <1>1, <2>1, <2>3 DEF Run, SettledAt
    <3>2. ASSUME NEW d \in Recorded(c, run.book) \ run'.todo[c]
          PROVE  Achieved(c, d, After(registry'[c][d], run'.plan[c], d))
      <4>1. d \in Chain
        BY DEF Recorded
      <4>2. Achieved(c, d, After(registry[c][d], run.plan[c], d))
        BY <1>3, <2>1, <2>3 DEF SettledAt
      <4>3. After(registry'[c][d], run'.plan[c], d) = After(registry[c][d], run.plan[c], d)
        BY <1>1, <1>3, <1>4, <3>1, <4>1, AfterSent
      <4> QED
        BY <4>2, <4>3
    <3>3. Len(run'.plan[c]) <= 2
      BY <1>1, <1>3, <3>1, AfterSent
    <3>4. \A l \in late' : l.chain # c
      BY <1>2, <2>1, <2>3 DEF SettledAt
    <3> QED
      BY <1>2, <1>3, <2>3, <3>2, <3>3, <3>4, SettledNext
  <2> QED
    BY <2>2, <2>3
<1>6. \A e \in Operating : run'.todo[e] \subseteq Recorded(e, run'.book)
  BY <1>1, <1>3 DEF Settled, Recorded
<1> QED
  BY <1>5, <1>6 DEF Settled

(* The chains that fail, or are replaced, are no longer looked at, and the *)
(* others do not change.                                                   *)
LEMMA FailingSettles ==
  ASSUME IInv, Settled, run # None, NEW C \in SUBSET Operating,
         Failing(C) \/ Leaving(C),
         config' = config,
         \A c \in Operating \ C : registry'[c] = registry[c],
         \A l \in late' : l \in late \/ l.chain \in C
  PROVE  Settled'
<1>1. run \in Run
  BY DEF IInv, TypeOK
<1>2. /\ run'.script = run.script /\ run'.book = run.book
      /\ run'.clean \ run'.failed = (run.clean \ run.failed) \ C
      /\ \A c \in Operating :
           /\ run'.todo[c] = IF c \in C THEN {} ELSE run.todo[c]
           /\ run'.plan[c] = IF c \in C THEN <<>> ELSE run.plan[c]
  BY <1>1, DroppedChains
<1>3. \A c \in Operating : run'.todo[c] \subseteq Recorded(c, run'.book)
  BY <1>2 DEF Settled, Recorded
<1>4. ASSUME NEW c \in run'.clean \ run'.failed
      PROVE  SettledAt(c)'
  <2>1. c \in Operating \ C /\ SettledAt(c)
    BY <1>1, <1>2, <1>4 DEF Settled, Run
  <2> QED
    BY <1>2, <2>1, KeptAt
<1> QED
  BY <1>3, <1>4 DEF Settled

LEMMA FaultSettles ==
  ASSUME IInv, Settled,
         \/ \E c \in Operating : Refused(c) \/ Fail(c) \/ Lose(c)
         \/ \E C \in {Evm, Solana} : Crash(C \cap Operating)
  PROVE  Settled'
<1>1. ASSUME NEW c \in Operating, Refused(c) \/ Fail(c) PROVE Settled'
  BY <1>1, FailingSettles DEF Refused, Fail, Active, Running
<1>2. ASSUME NEW c \in Operating, Lose(c) PROVE Settled'
  <2>1. /\ run # None /\ Failing({c}) /\ UNCHANGED <<config, registry>>
        /\ late' = late \cup Loose({c})
    BY <1>2 DEF Lose, Sending, Active, Running
  <2>2. \A l \in Loose({c}) : l.chain = c
    BY DEF Loose
  <2> QED
    BY <2>1, <2>2, FailingSettles
<1>3. ASSUME NEW C \in SUBSET Operating, Crash(C) PROVE Settled'
  <2> DEFINE A == {c \in C : Active(c)}
  <2>1. /\ run # None /\ Failing(A) /\ UNCHANGED <<config, registry>>
        /\ A \in SUBSET Operating
    BY <1>3 DEF Crash, Active, Running
  <2>2. PICK S \in SUBSET {c \in C : Sending(c)} : late' = late \cup Loose(S)
    BY <1>3 DEF Crash
  <2>3. \A l \in Loose(S) : l.chain \in A
    BY DEF Loose, Sending
  <2> HIDE DEF A
  <2> QED
    BY <2>1, <2>2, <2>3, FailingSettles
<1> QED
  BY <1>1, <1>2, <1>3

(* A step that leaves the run alone, and the chains that are clean.        *)
LEMMA RestSettles ==
  ASSUME IInv, Settled, run' = run, config' = config, late' \subseteq late,
         run # None =>
           \A c \in run.clean \ run.failed : registry'[c] = registry[c]
  PROVE  Settled'
<1>1. CASE run = None
  BY <1>1 DEF Settled
<1>2. CASE run # None
  <2>1. \A c \in run.clean \ run.failed : SettledAt(c)'
    BY <1>2, KeptAt DEF Settled
  <2> QED
    BY <2>1 DEF Settled, Recorded
<1> QED
  BY <1>1, <1>2

LEMMA SettleSettles == ASSUME IInv, Settled, Settle PROVE Settled'
<1>1. PICK l \in late : Land(l) \/ Vanish(l)
  BY DEF Settle
<1>2. run' = run /\ config' = config /\ late' \subseteq late
  BY <1>1 DEF Land, Vanish
<1>3. ASSUME run # None, NEW c \in run.clean \ run.failed
      PROVE  registry'[c] = registry[c]
  <2>1. c \in Operating /\ l.chain # c
    BY <1>3 DEF Settled, SettledAt, IInv, TypeOK, Run
  <2> QED
    BY <1>1, <2>1 DEF Land, Vanish, Effect, IInv, TypeOK
<1> QED
  BY <1>2, <1>3, RestSettles

LEMMA DeploySettles ==
  ASSUME IInv, Settled, NEW D \in SUBSET Evm, Deploy(D)
  PROVE  Settled'
<1>1. /\ config' = config /\ late' \subseteq late
      /\ \A c \in Operating \ D : registry'[c] = registry[c]
  BY DEF Deploy, WriteDeployedContracts, DeployProxies
<1>2. CASE run # None
  <2>1. Leaving(D \cap Operating)
    BY <1>2 DEF Deploy, WriteDeployedContracts, DeployProxies, Running
  <2> QED
    BY <1>1, <1>2, <2>1, FailingSettles
<1>3. CASE run = None
  BY <1>3 DEF Deploy, WriteDeployedContracts, DeployProxies, Running, Settled
<1> QED
  BY <1>2, <1>3

LEMMA EditSettles == ASSUME IInv, Settled, NEW d \in Chain, Edit(d) PROVE Settled'
<1>1. CASE run = None
  BY <1>1 DEF Edit, Running, Settled
<1>2. CASE run # None
  <2>1. run'.clean = {} /\ run'.book = run.book /\ run'.todo = run.todo
    BY <1>2 DEF Edit, Running, IInv, TypeOK, Run
  <2> QED
    BY <1>2, <2>1 DEF Settled, Recorded
<1> QED
  BY <1>1, <1>2

LEMMA NextSettled == ASSUME IInv, Settled, [Next]_vars PROVE Settled'
<1>1. ASSUME NEW script \in Scripts, Start(script) PROVE Settled'
  BY <1>1, StartSettles
<1>2. ASSUME NEW c \in Operating, Step(c) PROVE Settled'
  <2>1. CASE Active(c) /\ ReadNext(c)
    <3>1. PICK D : Read(c, D)
      BY <2>1 DEF ReadNext
    <3> QED
      BY <3>1, ReadSettles
  <2>2. CASE Send(c)
    BY <2>2, SendSettles
  <2>3. CASE Refused(c)
    BY <2>3, FaultSettles
  <2> QED
    BY <1>2, <2>1, <2>2, <2>3 DEF Step
<1>3. ASSUME NEW c \in Operating, Fail(c) \/ Lose(c) PROVE Settled'
  BY <1>3, FaultSettles
<1>4. ASSUME NEW C \in {Evm, Solana}, Crash(C \cap Operating) PROVE Settled'
  BY <1>4, FaultSettles
<1>5. CASE End
  BY <1>5 DEF End, Settled
<1>6. CASE Settle
  BY <1>6, SettleSettles
<1>7. ASSUME NEW D \in SUBSET Evm \ {{}}, Deploy(D) PROVE Settled'
  BY <1>7, DeploySettles
<1>8. ASSUME NEW d \in Chain, Edit(d) PROVE Settled'
  BY <1>8, EditSettles
<1>9. CASE UNCHANGED vars
  BY <1>9, RestSettles DEF vars
<1> QED
  BY <1>1, <1>2, <1>3, <1>4, <1>5, <1>6, <1>7, <1>8, <1>9 DEF Next

LEMMA SettledInvariance == Spec => []Settled
<1>1. Init => Settled
  BY DEF Init, Settled
<1>2. IInv /\ Settled /\ [Next]_vars => Settled'
  BY NextSettled
<1> QED
  BY <1>1, <1>2, Invariance, PTL DEF Spec

-----------------------------------------------------------------------------
(* A run goes on with the files it read.                                   *)
RunGoesOn == run'.book = run.book

LEMMA FailingGoesOn ==
  ASSUME IInv, run # None, NEW C, Failing(C) \/ Leaving(C)
  PROVE  RunGoesOn
<1>1. run \in Run
  BY DEF IInv, TypeOK
<1> QED
  BY <1>1, DroppedChains DEF RunGoesOn

LEMMA NextGoesOn ==
  ASSUME IInv, [Next]_vars, run # None, run' # None
  PROVE  RunGoesOn
<1>1. run \in Run
  BY DEF IInv, TypeOK
<1>2. CASE UNCHANGED run
  BY <1>2 DEF RunGoesOn
<1>3. ASSUME NEW script \in Scripts, Start(script) PROVE RunGoesOn
  BY <1>3 DEF Start
<1>4. ASSUME NEW c \in Operating, Step(c) PROVE RunGoesOn
  <2>1. ASSUME NEW D, Read(c, D) PROVE RunGoesOn
    BY <1>1, <2>1 DEF Read, Run, RunGoesOn
  <2>2. CASE Send(c)
    BY <1>1, <2>2 DEF Send, Run, RunGoesOn
  <2>3. CASE Refused(c)
    BY <2>3, FailingGoesOn DEF Refused
  <2> QED
    BY <1>4, <2>1, <2>2, <2>3 DEF Step, ReadNext
<1>5. ASSUME NEW c \in Operating, Fail(c) \/ Lose(c) PROVE RunGoesOn
  BY <1>5, FailingGoesOn DEF Fail, Lose
<1>6. ASSUME NEW C, Crash(C) PROVE RunGoesOn
  BY <1>6, FailingGoesOn DEF Crash
<1>7. CASE End
  BY <1>7 DEF End
<1>8. CASE Settle
  BY <1>2, <1>8 DEF Settle, Land, Vanish
<1>9. ASSUME NEW D, Deploy(D) PROVE RunGoesOn
  <2>1. Leaving(D \cap Operating)
    BY <1>9 DEF Deploy, WriteDeployedContracts, DeployProxies, Running
  <2> QED
    BY <2>1, FailingGoesOn
<1>10. ASSUME NEW d, Edit(d) PROVE RunGoesOn
  BY <1>1, <1>10 DEF Edit, Running, Run, RunGoesOn
<1> QED
  BY <1>2, <1>3, <1>4, <1>5, <1>6, <1>7, <1>8, <1>9, <1>10 DEF Next, vars

(* A script that comes to its end for a chain has done there what it is    *)
(* for, for every peer of the record.                                      *)
THEOREM SuccessDone == Spec => SuccessMeansDone
<1>1. IInv /\ Settled' /\ [Next]_vars =>
        \A c \in Operating :
          (/\ Active(c) /\ run' # None /\ c \in run'.clean
           /\ Ended(c)' /\ c \notin run'.failed) =>
             \A d \in Recorded(c, run.book) : Achieved(c, d, registry[c][d])'
  <2> SUFFICES ASSUME IInv, Settled', [Next]_vars, NEW c \in Operating,
                      Active(c), run' # None, c \in run'.clean,
                      Ended(c)', c \notin run'.failed,
                      NEW d \in Recorded(c, run.book)
               PROVE  Achieved(c, d, registry[c][d])'
    OBVIOUS
  <2>1. RunGoesOn
    BY NextGoesOn DEF Active, Running
  <2>2. d \in Recorded(c, run'.book)
    BY <2>1 DEF RunGoesOn, Recorded
  <2>3. SettledAt(c)' /\ run'.todo[c] = {} /\ run'.plan[c] = <<>>
    BY <2>2 DEF Settled, Ended
  <2>4. Achieved(c, d, After(registry[c][d], run.plan[c], d))'
    BY <2>2, <2>3 DEF SettledAt, Recorded
  <2> QED
    BY <2>3, <2>4 DEF After, Achieved
<1> QED
  BY <1>1, SettledInvariance, Invariance, PTL DEF Spec, SuccessMeansDone

-----------------------------------------------------------------------------
(* Nothing is missing in an entry that is as the files say, and nothing is *)
(* planned if nothing is missing.                                          *)
LEMMA RightMisses ==
  ASSUME IInv, run # None, NEW c \in Operating, NEW d \in Chain,
         Right(c, d, run.book)
  PROVE  Missing(c, d) = NoChange
<1>1. run.script \in Scripts
  BY DEF IInv, TypeOK, Run
<1>2. CASE run.script = "register-peers"
  BY <1>2 DEF Right, Missing, Registering
<1>3. CASE run.script = "set-canonical-peer"
  BY <1>3 DEF Right, Missing, Redirecting
<1>4. CASE run.script = "configure-fee-and-dropoff"
  BY <1>4 DEF Right, Missing, Setting, NoChange
<1> QED
  BY <1>1, <1>2, <1>3, <1>4 DEF Scripts

LEMMA NothingPlanned ==
  ASSUME NEW c, NEW D, \A d \in D \cap Chain : Missing(c, d) = NoChange
  PROVE  Transactions(c, D) = <<>>
<1> DEFINE all == [d \in Chain |-> IF d \in D THEN Missing(c, d) ELSE NoChange]
           dropoffs == [d \in Chain |-> [NoChange EXCEPT !.dropoff = all[d].dropoff]]
           fees == [d \in Chain |-> [NoChange EXCEPT !.fee = all[d].fee]]
<1>1. \A d \in Chain : all[d] = NoChange
  OBVIOUS
<1>2. \A d \in Chain : dropoffs[d] = NoChange /\ fees[d] = NoChange
  BY <1>1 DEF NoChange
<1>3. Transactions(c, D) = IF c \in Solana /\ run.script = "configure-fee-and-dropoff"
                             THEN IfNeeded(dropoffs) \o IfNeeded(fees)
                             ELSE IfNeeded(all)
  BY DEF Transactions
<1> HIDE DEF all, dropoffs, fees
<1>4. /\ IfNeeded(all) = <<>> /\ IfNeeded(dropoffs) = <<>> /\ IfNeeded(fees) = <<>>
  BY <1>1, <1>2 DEF IfNeeded
<1>5. <<>> \o <<>> = <<>>
  OBVIOUS
<1> QED
  BY <1>3, <1>4, <1>5

LEMMA FailingPlansNothing ==
  ASSUME IInv, run # None, NEW C, Failing(C) \/ Leaving(C), NEW c \in Operating,
         run.plan[c] = <<>>
  PROVE  run'.plan[c] = <<>>
<1>1. run \in Run
  BY DEF IInv, TypeOK
<1> QED
  BY <1>1, DroppedChains

(* Running a script again where it has nothing to do sends nothing.        *)
THEOREM RerunsAreIdle == Spec => IdleWhenRight
<1>1. IInv /\ Settled /\ [Next]_vars =>
        \A c \in Operating :
          (/\ Active(c) /\ run.plan[c] = <<>>
           /\ \A d \in Recorded(c, run.book) : Right(c, d, run.book)) =>
             run' = None \/ run'.plan[c] = <<>>
  <2> SUFFICES ASSUME IInv, Settled, [Next]_vars, NEW c \in Operating,
                      Active(c), run.plan[c] = <<>>,
                      \A d \in Recorded(c, run.book) : Right(c, d, run.book),
                      run' # None
               PROVE  run'.plan[c] = <<>>
    OBVIOUS
  <2>1. run \in Run /\ run # None
    BY DEF IInv, TypeOK, Active, Running
  <2>2. CASE UNCHANGED run
    BY <2>2
  <2>3. ASSUME NEW script \in Scripts, Start(script) PROVE FALSE
    BY <2>1, <2>3 DEF Start
  <2>4. ASSUME NEW e \in Operating, NEW D \in SUBSET run.todo[e], Read(e, D)
        PROVE  run'.plan[c] = <<>>
    <3>1. CASE e # c
      BY <2>1, <2>4, <3>1 DEF Read, Run
    <3>2. CASE e = c
      <4>1. D \subseteq Recorded(c, run.book)
        BY <2>1, <3>2 DEF Settled
      <4>2. \A d \in D \cap Chain : Missing(c, d) = NoChange
        BY <2>1, <4>1, RightMisses DEF Recorded
      <4>3. Transactions(c, D) = <<>>
        BY <4>2, NothingPlanned
      <4> QED
        BY <2>1, <2>4, <3>2, <4>3 DEF Read, Run
    <3> QED
      BY <3>1, <3>2
  <2>5. ASSUME NEW e \in Operating, Step(e) PROVE run'.plan[c] = <<>>
    <3>1. CASE Send(e)
      <4>1. e # c
        BY <3>1 DEF Send, Sending
      <4> QED
        BY <2>1, <3>1, <4>1 DEF Send, Run
    <3>2. CASE Refused(e)
      BY <2>1, <3>2, FailingPlansNothing DEF Refused
    <3> QED
      BY <2>4, <2>5, <3>1, <3>2 DEF Step, ReadNext
  <2>6. ASSUME NEW e \in Operating, Fail(e) \/ Lose(e) PROVE run'.plan[c] = <<>>
    BY <2>1, <2>6, FailingPlansNothing DEF Fail, Lose
  <2>7. ASSUME NEW C, Crash(C) PROVE run'.plan[c] = <<>>
    BY <2>1, <2>7, FailingPlansNothing DEF Crash
  <2>8. ASSUME NEW D, Deploy(D) PROVE run'.plan[c] = <<>>
    BY <2>1, <2>8, FailingPlansNothing
       DEF Deploy, WriteDeployedContracts, DeployProxies, Running
  <2>9. ASSUME NEW d, Edit(d) PROVE run'.plan[c] = <<>>
    BY <2>1, <2>9 DEF Edit, Running, Run
  <2>10. CASE End
    BY <2>10 DEF End
  <2>11. CASE Settle
    BY <2>2, <2>11 DEF Settle, Land, Vanish
  <2> QED
    BY <2>2, <2>3, <2>5, <2>6, <2>7, <2>8, <2>9, <2>10, <2>11 DEF Next, vars
<1> QED
  BY <1>1, SettledInvariance, Invariance, PTL DEF Spec, IdleWhenRight
=============================================================================

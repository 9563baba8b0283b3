------------------------ MODULE SandboxLayoutProofs ------------------------
(***************************************************************************)
(* Proofs about the layout cache, for any set of items, any layouts and    *)
(* any number of environments: what the cache believes to exist exists,    *)
(* and every script starts with its whole layout.                          *)
(***************************************************************************)
EXTENDS SandboxLayout, TLAPS

TypeOK ==
  /\ disk \in [Items -> {"ok", "missing", "blocked"}]
  /\ env \in Envs /\ tracked \subseteq Items /\ pending \subseteq Items
  /\ commands \in BOOLEAN /\ seeded \in BOOLEAN /\ dirty \in BOOLEAN /\ failed \in BOOLEAN
  /\ phase \in {"idle", "run"}

\* What the cache stands for: the tracked items, or before there are any the
\* layout of its environment.
Believed == tracked \cup (IF seeded THEN {} ELSE Need(env))

\* An item is there, or an event that is still to come says that it is not.
There(i) == disk[i] = "ok" \/ \E j \in pending : i \in Inside[j]

\* The cache knows all of its layout, unless ensure has failed.
SeedInv ==
  /\ ~seeded => tracked = {}
  /\ ~failed /\ seeded => commands
  /\ ~failed /\ ~dirty /\ seeded => Need(env) \subseteq tracked

IndInv ==
  /\ TypeOK /\ SeedInv /\ CacheCoherent
  /\ phase = "idle" => pending = {}

-----------------------------------------------------------------------------
LEMMA NeedItems == ASSUME NEW e \in Envs PROVE Need(e) \subseteq Items
<1>1. Layout[e] \in Seq(Items)
  BY LayoutAssumption
<1> QED BY <1>1 DEF Need

LEMMA Coherent == CacheCoherent <=> (~dirty /\ ~failed => \A i \in Believed : There(i))
BY DEF CacheCoherent, Believed, There

LEMMA BelievedItems == ASSUME TypeOK PROVE Believed \subseteq Items
BY NeedItems DEF TypeOK, Believed

\* What the loops make is there, what was there stays, and if they get to the
\* end nothing of the layout is left out.
LEMMA BuiltFacts ==
  ASSUME TypeOK, NEW e \in Envs, NEW skip \in SUBSET Items
  PROVE  LET b == Built(e, skip)
         IN /\ b.ok \in BOOLEAN /\ b.disk \in [Items -> {"ok", "missing", "blocked"}]
            /\ skip \subseteq b.done /\ b.done \subseteq Items
            /\ \A i \in b.done \ skip : b.disk[i] = "ok"
            /\ \A i \in Items : disk[i] = "ok" => b.disk[i] = "ok"
            /\ b.ok => Need(e) \subseteq b.done
<1> DEFINE reached == {n \in 1..Len(Layout[e]) : \A m \in 1..n : ~Fails(e, skip, disk, m)}
           new == New(e, skip, reached)
<1>1. Built(e, skip) =
        [ok |-> reached = 1..Len(Layout[e]), disk |-> Made(disk, new), done |-> skip \cup new]
  BY DEF Built
<1>2. reached \subseteq 1..Len(Layout[e])
  OBVIOUS
<1> HIDE DEF reached
<1>3. new \subseteq Need(e) /\ new \cap skip = {} /\ new \subseteq Items
  BY <1>2, NeedItems DEF New, Need
<1>4. reached = 1..Len(Layout[e]) => Need(e) \subseteq skip \cup new
  BY DEF New, Need
<1> HIDE DEF new
<1>5. \A i \in new : i \in Above(i)
  BY <1>3, LayoutAssumption DEF Above
<1>6. /\ Made(disk, new) \in [Items -> {"ok", "missing", "blocked"}]
      /\ \A i \in new : Made(disk, new)[i] = "ok"
      /\ \A i \in Items : disk[i] = "ok" => Made(disk, new)[i] = "ok"
  BY <1>3, <1>5 DEF Made, TypeOK
<1> DEFINE b == Built(e, skip)
           all == reached = 1..Len(Layout[e])
<1>7. b.disk = Made(disk, new) /\ b.done = skip \cup new /\ b.ok \in BOOLEAN /\ (b.ok => all)
  <2>1. b = [ok |-> all, disk |-> Made(disk, new), done |-> skip \cup new] /\ all \in BOOLEAN
    BY <1>1
  <2> HIDE DEF all, b
  <2> QED BY <2>1
<1> HIDE DEF b
<1>8. /\ b.ok \in BOOLEAN /\ b.disk \in [Items -> {"ok", "missing", "blocked"}]
      /\ skip \subseteq b.done /\ b.done \subseteq Items
      /\ \A i \in b.done \ skip : b.disk[i] = "ok"
      /\ \A i \in Items : disk[i] = "ok" => b.disk[i] = "ok"
      /\ b.ok => Need(e) \subseteq b.done
  BY <1>3, <1>4, <1>6, <1>7 DEF all
<1> QED BY <1>8 DEF b

-----------------------------------------------------------------------------
LEMMA InitInv == Init => IndInv
<1> SUFFICES ASSUME Init PROVE IndInv
  OBVIOUS
<1> USE DEF Init
<1>1. Base \in Envs /\ Need(Base) \subseteq Items
  BY LayoutAssumption, NeedItems
<1>2. TypeOK
  BY <1>1 DEF TypeOK
<1>3. CacheCoherent
  BY <1>1 DEF CacheCoherent
<1> QED BY <1>2, <1>3 DEF IndInv, SeedInv

\* ensure, which Session.Exec and commands such as bash -c call.
LEMMA EnsureStep ==
  ASSUME TypeOK, SeedInv, CacheCoherent, NEW e \in Envs, Ensure(e), UNCHANGED pending
  PROVE  /\ SeedInv' /\ CacheCoherent' /\ disk' \in [Items -> {"ok", "missing", "blocked"}]
         /\ env' \in Envs /\ tracked' \subseteq Items
         /\ commands' \in BOOLEAN /\ seeded' \in BOOLEAN /\ dirty' \in BOOLEAN /\ failed' \in BOOLEAN
<1>1. CASE Fresh(e)
  <2>1. commands' = TRUE /\ UNCHANGED <<disk, env, seeded, tracked, dirty, failed>>
    BY <1>1 DEF Ensure
  <2>2. SeedInv'
    BY <2>1 DEF SeedInv, Need
  <2>3. CacheCoherent'
    BY <2>1 DEF CacheCoherent, Need
  <2> QED BY <2>1, <2>2, <2>3 DEF TypeOK
<1>2. CASE ~Fresh(e)
  <2> DEFINE skip == IF dirty THEN {} ELSE tracked
             b == Built(e, skip)
  <2>1. /\ dirty' = FALSE /\ seeded' = TRUE /\ disk' = b.disk /\ tracked' = b.done
        /\ failed' = (~b.ok \/ (failed /\ ~dirty))
        /\ env' = (IF b.ok THEN e ELSE env) /\ commands' = (commands \/ b.ok)
    BY <1>2 DEF Ensure
  <2>2. skip \in SUBSET Items
    BY DEF TypeOK
  <2>3. /\ b.ok \in BOOLEAN /\ b.disk \in [Items -> {"ok", "missing", "blocked"}]
        /\ skip \subseteq b.done /\ b.done \subseteq Items
        /\ \A i \in b.done \ skip : b.disk[i] = "ok"
        /\ \A i \in Items : disk[i] = "ok" => b.disk[i] = "ok"
        /\ b.ok => Need(e) \subseteq b.done
    <3> HIDE DEF skip
    <3> QED BY <2>2, BuiltFacts
  <2> HIDE DEF b
  <2>4. SeedInv'
    BY <2>1, <2>3 DEF SeedInv, Need
  <2>5. ASSUME ~failed', NEW i \in tracked' PROVE There(i)'
    <3>1. ~(failed /\ ~dirty)
      BY <2>1, <2>5
    <3>2. CASE i \in skip
      <4>1. ~dirty /\ i \in tracked /\ i \in Items
        BY <3>2 DEF TypeOK
      <4>2. There(i)
        BY <3>1, <4>1 DEF CacheCoherent, There
      <4> QED BY <2>1, <2>3, <4>1, <4>2 DEF There
    <3>3. CASE i \notin skip
      BY <2>1, <2>3, <2>5, <3>3 DEF There
    <3> QED BY <3>2, <3>3
  <2>6. CacheCoherent'
    BY <2>1, <2>5 DEF CacheCoherent, There
  <2> QED BY <2>1, <2>3, <2>4, <2>6 DEF TypeOK
<1> QED BY <1>1, <1>2

LEMMA Step == IndInv /\ [Next]_vars => IndInv'
<1> SUFFICES ASSUME IndInv, [Next]_vars PROVE IndInv'
  OBVIOUS
<1>0. TypeOK /\ SeedInv /\ CacheCoherent /\ (phase = "idle" => pending = {})
  BY DEF IndInv
<1>1. ASSUME NEW e \in Envs, Exec(e) \/ SubExec(e) PROVE IndInv'
  <2>1. Ensure(e) /\ UNCHANGED pending
    BY <1>1 DEF Exec, SubExec
  <2>2. phase' \in {"idle", "run"} /\ (phase' = "idle" => phase = "idle")
    BY <1>0, <1>1 DEF Exec, SubExec, TypeOK
  <2>3. TypeOK'
    BY <1>0, <2>1, <2>2, EnsureStep DEF TypeOK
  <2> QED BY <1>0, <2>1, <2>2, <2>3, EnsureStep DEF IndInv
<1>2. ASSUME NEW e \in Envs, Interact(e) PROVE IndInv'
  <2> DEFINE b == Built(e, {})
  <2>1. /\ phase = "idle" /\ disk' = b.disk /\ phase' \in {"idle", "run"}
        /\ UNCHANGED <<cacheVars, pending, failed>>
    BY <1>2 DEF Interact
  <2>2. /\ b.disk \in [Items -> {"ok", "missing", "blocked"}]
        /\ \A i \in Items : disk[i] = "ok" => b.disk[i] = "ok"
    BY <1>0, BuiltFacts
  <2> HIDE DEF b
  <2>3. TypeOK' /\ SeedInv'
    BY <1>0, <2>1, <2>2 DEF TypeOK, SeedInv, cacheVars, Need
  <2>4. CacheCoherent'
    <3>1. Believed' = Believed
      BY <2>1 DEF Believed, cacheVars, Need
    <3>2. \A i \in Believed : There(i) => There(i)'
      BY <1>0, <2>1, <2>2, BelievedItems DEF There
    <3>3. (~dirty /\ ~failed => \A i \in Believed : There(i))'
      BY <1>0, <2>1, <3>1, <3>2, Coherent DEF cacheVars
    <3> QED BY <3>3 DEF CacheCoherent, Believed, There
  <2> QED BY <1>0, <2>1, <2>3, <2>4 DEF IndInv
<1>3. ASSUME NEW i \in Items, NEW to \in {"ok", "missing", "blocked"}, Change(i, to) PROVE IndInv'
  <2>1. /\ phase = "run" /\ pending' = pending \cup {i} /\ UNCHANGED <<cacheVars, phase, failed>>
        /\ disk' = [j \in Items |-> IF j = i THEN to
                                    ELSE IF j \in Inside[i] THEN "missing" ELSE disk[j]]
    BY <1>3 DEF Change
  <2>2. TypeOK' /\ SeedInv'
    BY <1>0, <2>1 DEF TypeOK, SeedInv, cacheVars, Need
  <2>3. CacheCoherent'
    <3>1. Believed' = Believed
      BY <2>1 DEF Believed, cacheVars, Need
    <3>2. ASSUME NEW j \in Believed, There(j) PROVE There(j)'
      <4>1. CASE j \in Inside[i]
        BY <2>1, <4>1 DEF There
      <4>2. CASE j \notin Inside[i]
        <5>1. j # i /\ j \in Items
          BY <1>0, <4>2, BelievedItems, LayoutAssumption
        <5> QED BY <2>1, <3>2, <4>2, <5>1 DEF There
      <4> QED BY <4>1, <4>2
    <3>3. (~dirty /\ ~failed => \A j \in Believed : There(j))'
      BY <1>0, <2>1, <3>1, <3>2, Coherent DEF cacheVars
    <3> QED BY <3>3 DEF CacheCoherent, Believed, There
  <2> QED BY <2>1, <2>2, <2>3 DEF IndInv
<1>4. ASSUME NEW i \in Items, Record(i) PROVE IndInv'
  <2> DEFINE known == IF commands /\ seeded THEN tracked ELSE Need(env)
  <2>1. /\ i \in pending /\ pending' = pending \ {i}
        /\ UNCHANGED <<disk, env, commands, phase, failed>>
    BY <1>4 DEF Record
  <2>2. \/ dirty /\ UNCHANGED <<seeded, tracked, dirty>>
        \/ ~dirty /\ dirty' = Touches(i, known) /\ commands /\ seeded' = TRUE /\ tracked' = known
        \/ ~dirty /\ dirty' = Touches(i, known) /\ ~commands /\ UNCHANGED <<seeded, tracked>>
    BY <1>4 DEF Record
  <2>3. known \subseteq Items
    BY <1>0, NeedItems DEF TypeOK
  <2>4. TypeOK'
    BY <1>0, <2>1, <2>2, <2>3 DEF TypeOK, Touches
  <2>5. SeedInv'
    BY <1>0, <2>1, <2>2 DEF SeedInv, Need, TypeOK
  <2>6. CacheCoherent'
    <3> SUFFICES ASSUME ~dirty', ~failed', NEW j \in Believed' PROVE There(j)'
      BY DEF CacheCoherent, Believed, There
    <3>1. ~dirty /\ ~failed /\ dirty' = Touches(i, known)
      BY <2>1, <2>2
    <3>2. j \in known /\ j \in Believed
      BY <1>0, <2>1, <2>2, <3>1 DEF Believed, SeedInv, Need, TypeOK
    <3>3. j \notin Inside[i]
      BY <3>1, <3>2 DEF Touches
    <3>4. There(j)
      BY <1>0, <3>1, <3>2, Coherent
    <3> QED BY <2>1, <3>3, <3>4 DEF There
  <2> QED BY <1>0, <2>1, <2>4, <2>5, <2>6 DEF IndInv
<1>5. CASE Return
  BY <1>0, <1>5 DEF Return, IndInv, TypeOK, SeedInv, CacheCoherent, cacheVars, Need
<1>6. CASE UNCHANGED vars
  BY <1>0, <1>6 DEF vars, IndInv, TypeOK, SeedInv, CacheCoherent, cacheVars, Need
<1> QED BY <1>1, <1>2, <1>3, <1>4, <1>5, <1>6 DEF Next

LEMMA LayoutInvariant == Spec => []IndInv
BY InitInv, Step, PTL DEF Spec

-----------------------------------------------------------------------------
\* However executions, jobs, nested shells and interactive sessions change
\* the tree, an item that the cache takes to exist exists or has an event on
\* its way (observeFileMutation, ensure).
THEOREM CacheIsCoherent == Spec => []CacheCoherent
<1>1. IndInv => CacheCoherent
  BY DEF IndInv
<1> QED BY <1>1, LayoutInvariant, PTL

\* A script starts with every directory and stub of its environment, also
\* when ensure does nothing because the cache is fresh or skips what is
\* tracked, as long as no ensure has failed.
THEOREM LayoutIsPresent == Spec => LayoutPresent
<1> DEFINE Present ==
      \A e \in Envs : Exec(e) /\ phase' = "run" /\ ~failed => \A i \in Need(e) : disk'[i] = "ok"
<1>1. IndInv /\ [Next]_vars => [Present]_vars
  <2> SUFFICES ASSUME IndInv, NEW e \in Envs, Exec(e), phase' = "run", ~failed, NEW i \in Need(e)
               PROVE  disk'[i] = "ok"
    OBVIOUS
  <2>0. TypeOK /\ SeedInv /\ CacheCoherent /\ pending = {} /\ Ensure(e) /\ i \in Items
    BY NeedItems DEF IndInv, Exec
  <2>1. ~dirty => \A j \in Believed : disk[j] = "ok"
    BY <2>0 DEF CacheCoherent, Believed
  <2>2. CASE Fresh(e)
    <3>1. ~dirty /\ env = e /\ disk' = disk
      BY <2>0, <2>2 DEF Ensure, Fresh
    <3>2. i \in Believed
      BY <2>0, <3>1 DEF SeedInv, Believed
    <3> QED BY <2>1, <3>1, <3>2
  <2>3. CASE ~Fresh(e)
    <3> DEFINE skip == IF dirty THEN {} ELSE tracked
               b == Built(e, skip)
    <3>1. b.ok /\ disk' = b.disk
      <4>1. b.ok
        BY <2>3 DEF Exec
      <4>2. disk' = b.disk
        BY <2>0, <2>3 DEF Ensure
      <4> QED BY <4>1, <4>2
    <3>2. skip \in SUBSET Items /\ \A j \in skip : disk[j] = "ok"
      BY <2>0, <2>1 DEF TypeOK, Believed
    <3>3. /\ \A j \in b.done \ skip : b.disk[j] = "ok"
          /\ \A j \in Items : disk[j] = "ok" => b.disk[j] = "ok"
          /\ b.ok => Need(e) \subseteq b.done
      <4> HIDE DEF skip
      <4> QED BY <2>0, <3>2, BuiltFacts
    <3> HIDE DEF skip, b
    <3> QED BY <2>0, <3>1, <3>2, <3>3
  <2> QED BY <2>2, <2>3
<1>2. Spec => [][Present]_vars
  BY <1>1, LayoutInvariant, PTL DEF Spec
<1> QED BY <1>2 DEF LayoutPresent
=============================================================================

------------------------- MODULE SecretStoreProofs -------------------------
(* Theorems about SecretStore, for any number of processes, names, values  *)
(* and master passwords, and any .env.                                     *)
EXTENDS SecretStore, SequenceTheorems, TLAPS

-----------------------------------------------------------------------------
(* Stores, changes and commands.                                           *)

\* A change of a store makes a store.
LEMMA ApplyTyped ==
    ASSUME NEW c \in Changes, NEW s \in Blobs
    PROVE  Apply(c, s) \in Blobs
<1>1. CASE c \in Sets
  BY <1>1 DEF Sets, Blobs, Apply
<1>2. CASE c \in [do : {"rm"}, name : Names]
  BY <1>2 DEF Blobs, Apply
<1>3. CASE c \in [do : {"rotate"}, password : Passwords]
  BY <1>3 DEF Blobs, Apply
<1>. QED BY <1>1, <1>2, <1>3 DEF Changes

\* What a command has to do is a list of changes, and migrate has to import .env.
LEMMA CommandsTyped ==
    ASSUME NEW a \in Commands, a.op \in {"secret", "init", "migrate"}
    PROVE  /\ a.todo \in Seq(Changes) /\ a.todo # <<>>
           /\ a.op = "migrate" => a.todo = Legacy
<1>1. Sets \subseteq Changes
  BY DEF Changes
<1>2. CASE \E c \in Changes : a = [op |-> "secret", todo |-> <<c>>]
  BY <1>2
<1>3. CASE \E c \in Sets, d \in Sets : a = [op |-> "init", todo |-> <<c, d>>]
  BY <1>1, <1>3
<1>4. CASE a = [op |-> "migrate", todo |-> Legacy]
  <2>1. Legacy \in Seq(Changes)
    <3>1. Legacy \in [1 .. Len(Legacy) -> Sets] /\ Len(Legacy) \in Nat
      BY SecretsAssumption, LenProperties
    <3>2. Legacy \in [1 .. Len(Legacy) -> Changes]
      BY <1>1, <3>1
    <3>. QED BY <3>1, <3>2
  <2>. QED BY <1>4, <2>1, SecretsAssumption
<1>5. a \notin [op : {"resolve"}, name : Names]
  OBVIOUS
<1>. QED BY <1>2, <1>3, <1>4, <1>5 DEF Commands

\* The rest of a sequence after its first k elements.
LEMMA SuffixProperties ==
    ASSUME NEW S, NEW s \in Seq(S), NEW k \in Nat, k < Len(s)
    PROVE  /\ Len(SubSeq(s, k + 1, Len(s))) = Len(s) - k
           /\ Head(SubSeq(s, k + 1, Len(s))) = s[k + 1]
           /\ Tail(SubSeq(s, k + 1, Len(s))) = SubSeq(s, k + 2, Len(s))
<1>1. Len(s) \in Nat /\ k + 1 \in 1 .. Len(s) /\ Len(s) \in k + 1 .. Len(s)
  BY LenProperties
<1>2. \A i \in k + 1 .. Len(s) : s[i] \in S
  BY <1>1, ElementOfSeq
<1>3. Len(SubSeq(s, k + 1, Len(s))) = IF k + 1 <= Len(s) THEN Len(s) - (k + 1) + 1 ELSE 0
  BY <1>1, <1>2, SubSeqProperties
<1>4. /\ Head(SubSeq(s, k + 1, Len(s))) = s[k + 1]
      /\ Tail(SubSeq(s, k + 1, Len(s))) = SubSeq(s, (k + 1) + 1, Len(s))
  BY <1>1, HeadTailOfSubSeq
<1>5. (k + 1) + 1 = k + 2 /\ Len(SubSeq(s, k + 1, Len(s))) = Len(s) - k
  BY <1>1, <1>3
<1>. QED BY <1>4, <1>5

\* One more line of .env is imported.
LEMMA ImportOneMore ==
    ASSUME NEW k \in Nat, k < Len(Legacy), NEW s \in Blobs, Imported(k, s)
    PROVE  Imported(k + 1, Apply(Legacy[k + 1], s))
<1> DEFINE c == Legacy[k + 1]
           r == Apply(c, s)
<1>1. Len(Legacy) \in Nat /\ \A i \in 1 .. Len(Legacy) : Legacy[i] \in Sets
  BY SecretsAssumption, LenProperties, ElementOfSeq
<1>2. c \in Sets
  BY <1>1
<1>3. r.data[c.name] = c.value /\ \A n \in Names : n # c.name => r.data[n] = s.data[n]
  BY <1>2 DEF Sets, Blobs, Apply
<1> SUFFICES ASSUME NEW i \in 1 .. k + 1,
                    \A j \in i + 1 .. k + 1 : Legacy[j].name # Legacy[i].name
             PROVE  r.data[Legacy[i].name] = Legacy[i].value
  BY DEF Imported
<1> HIDE DEF r
<1>4. CASE i = k + 1
  BY <1>3, <1>4
<1>5. CASE i # k + 1
  <2>1. i \in 1 .. k /\ i \in 1 .. Len(Legacy) /\ k + 1 \in i + 1 .. k + 1
    BY <1>1, <1>5
  <2>2. \A j \in i + 1 .. k : Legacy[j].name # Legacy[i].name
    BY <2>1
  <2>3. s.data[Legacy[i].name] = Legacy[i].value
    BY <2>1, <2>2 DEF Imported
  <2>4. Legacy[i].name \in Names /\ Legacy[i].name # c.name
    BY <1>1, <2>1 DEF Sets
  <2>. QED BY <1>3, <2>3, <2>4
<1>. QED BY <1>4, <1>5

-----------------------------------------------------------------------------
(* Types.                                                                  *)

USE SecretsAssumption, NoBlobs

\* A process that ends leaves nothing that has a wrong type.
LEMMA EndTyped ==
    ASSUME TypeOK, NEW p \in Procs, End(p)
    PROVE  /\ todo' \in [Procs -> Seq(Changes)]
           /\ held' \in [Procs -> Blobs \cup {Missing}]
           /\ next' \in [Procs -> Blobs \cup {Missing}]
<1>1. <<>> \in Seq(Changes)
  BY EmptySeq
<1>2. todo' \in [Procs -> Seq(Changes)]
  <2>1. todo' = [todo EXCEPT ![p] = <<>>] /\ todo \in [Procs -> Seq(Changes)]
    BY DEF End, TypeOK
  <2>. QED BY <1>1, <2>1, Zenon
<1>3. /\ held' \in [Procs -> Blobs \cup {Missing}]
      /\ next' \in [Procs -> Blobs \cup {Missing}]
  BY DEF End, TypeOK
<1>. QED BY <1>2, <1>3

\* Every step keeps the types.
LEMMA TypeStep ==
    ASSUME TypeOK, ChangesInHand, [Next]_secretsVars
    PROVE  TypeOK'
<1> USE DEF TypeOK
<1>1. ASSUME NEW p \in Procs, NEW a \in Commands, NEW pw \in Passwords, Unlock(p, a, pw)
      PROVE  TypeOK'
  <2>1. a.todo \in Seq(Changes)
    BY <1>1, CommandsTyped DEF Unlock
  <2>2. Unlocks(storefile, pw) => Unlocked(storefile, pw) \in Blobs
    BY DEF Unlocks, Unlocked, Readable, Blobs, NoSecrets
  <2>. QED BY <1>1, <2>1, <2>2 DEF Unlock
<1>2. ASSUME NEW p \in Procs, Refuse(p) \/ RenameEnv(p) PROVE TypeOK'
  BY <1>2, EndTyped DEF Refuse, RenameEnv
<1>3. ASSUME NEW p \in Procs, OpenTemp(p) PROVE TypeOK'
  <2>1. pc[p] = "change" /\ held[p] \in Blobs /\ todo[p] \in Seq(Changes) /\ todo[p] # <<>>
    BY <1>3 DEF OpenTemp, ChangesInHand
  <2>2. Head(todo[p]) \in Changes
    BY <2>1, HeadTailProperties
  <2>3. Apply(Head(todo[p]), held[p]) \in Blobs
    BY <2>1, <2>2, ApplyTyped
  <2>. QED BY <1>3, <2>3 DEF OpenTemp, Opened
<1>4. ASSUME NEW p \in Procs, WriteTemp(p) PROVE TypeOK'
  <2>1. \A f : Over(f, next[p]) \subseteq Blobs \cup {Missing, Empty, Torn}
    BY DEF Over
  <2>. QED BY <1>4, <2>1 DEF WriteTemp, Surprised
<1>5. ASSUME NEW p \in Procs, Replace(p) PROVE TypeOK'
  <2>1. Tail(todo[p]) \in Seq(Changes)
    <3>1. todo[p] \in Seq(Changes) /\ todo[p] # <<>>
      BY <1>5 DEF Replace, ChangesInHand
    <3>. QED BY <3>1, HeadTailProperties
  <2>2. todo' \in [Procs -> Seq(Changes)]
    <3>1. CASE End(p)
      BY <3>1, EndTyped
    <3>2. CASE todo' = [todo EXCEPT ![p] = Tail(@)]
      BY <2>1, <3>2, Zenon
    <3>. QED BY <1>5, <3>1, <3>2 DEF Replace
  <2>3. held' \in [Procs -> Blobs \cup {Missing}] /\ next' \in [Procs -> Blobs \cup {Missing}]
    BY <1>5 DEF Replace, End, Kept
  <2>4. opened' \in [Procs -> {"none", "temp", "store", "gone"}]
    BY <1>5 DEF Replace
  <2>5. pc' \in [Procs -> {"idle", "change", "write", "replace", "imported", "unlocked",
                          "resolved", "done", "failed"}]
    BY <1>5 DEF Replace, AfterReplace
  <2>6. stale' \subseteq Procs
    BY <1>5 DEF Replace, Surprised
  <2>. QED BY <1>5, <2>2, <2>3, <2>4, <2>5, <2>6 DEF Replace
<1>6. ASSUME NEW p \in Procs, Fail(p) PROVE TypeOK'
  BY <1>6, EndTyped DEF Fail
<1>7. ASSUME NEW p \in Procs, NEW n \in Names, NEW pw \in Passwords, Resolve(p, n, pw)
      PROVE  TypeOK'
  <2>1. [op |-> "resolve", name |-> n] \in Commands
    BY DEF Commands
  <2>2. \A s : Found(s, n) \in {"stored", "legacy"}
    BY DEF Found
  <2>3. Readable(storefile) /\ storefile # Missing => storefile \in Blobs
    BY DEF Readable
  <2>4. ask' \in [Procs -> Commands \cup {NoCommand}]
    BY <1>7, <2>1 DEF Resolve
  <2>5. outcome' \in [Procs -> {"none", "stored", "legacy", "refused"}]
    <3>1. PICK v \in {"stored", "legacy", "refused"} : outcome' = [outcome EXCEPT ![p] = v]
      <4>1. CASE outcome' = [outcome EXCEPT ![p] = Found(held[p], n)]
        BY <2>2, <4>1
      <4>2. CASE outcome' = [outcome EXCEPT ![p] = Found(storefile, n)]
        BY <2>2, <4>2
      <4>3. CASE outcome' \in {[outcome EXCEPT ![p] = "legacy"], [outcome EXCEPT ![p] = "refused"]}
        BY <4>3
      <4>. QED BY <1>7, <4>1, <4>2, <4>3 DEF Resolve, WrongPassword
    <3>. QED BY <3>1
  <2>6. held' \in [Procs -> Blobs \cup {Missing}]
    BY <1>7, <2>3 DEF Resolve
  <2>7. pc' \in [Procs -> {"idle", "change", "write", "replace", "imported", "unlocked",
                          "resolved", "done", "failed"}]
    <3>1. \/ pc' = pc
          \/ pc' = [pc EXCEPT ![p] = "resolved"]
          \/ pc' = [pc EXCEPT ![p] = "unlocked"]
      BY <1>7 DEF Resolve
    <3>2. pc \in [Procs -> {"idle", "change", "write", "replace", "imported", "unlocked",
                             "resolved", "done", "failed"}]
      OBVIOUS
    <3>. QED BY <3>1, <3>2
  <2>8. stale' \subseteq Procs
    BY <1>7 DEF Resolve
  <2>. QED BY <1>7, <2>4, <2>5, <2>6, <2>7, <2>8 DEF Resolve
<1>8. CASE UNCHANGED secretsVars
  BY <1>8 DEF secretsVars
<1>. QED BY <1>1, <1>2, <1>3, <1>4, <1>5, <1>6, <1>7, <1>8 DEF Next, Step

-----------------------------------------------------------------------------
(* The parts of the invariant.                                             *)

\* Every step keeps ChangesInHand.
LEMMA ChangesStep ==
    ASSUME TypeOK, ChangesInHand, [Next]_secretsVars
    PROVE  ChangesInHand'
<1> USE DEF TypeOK
<1> DEFINE Hand(p) ==
             /\ pc[p] \in {"change", "write", "replace"} => todo[p] # <<>>
             /\ pc[p] \in {"change", "write", "replace", "imported", "unlocked"} =>
                  held[p] # Missing
             /\ pc[p] \in {"write", "replace"} => next[p] = Apply(Head(todo[p]), held[p])
             /\ outcome[p] # "none" =>
                  ask[p].op = "resolve" /\ pc[p] \in {"unlocked", "resolved"}
<1> SUFFICES ASSUME NEW q \in Procs PROVE Hand(q)'
  BY DEF ChangesInHand
<1>0. Hand(q)
  BY DEF ChangesInHand
<1>a. ASSUME pc'[q] = pc[q], todo'[q] = todo[q], held'[q] = held[q], next'[q] = next[q],
             outcome'[q] = outcome[q], ask'[q] = ask[q]
      PROVE  Hand(q)'
  BY <1>0, <1>a
<1>1. ASSUME NEW p \in Procs, NEW a \in Commands, NEW pw \in Passwords, Unlock(p, a, pw)
      PROVE  Hand(q)'
  <2>1. CASE p = q
    <3>1. a.todo # <<>>
      BY <1>1, CommandsTyped DEF Unlock
    <3>2. Unlocks(storefile, pw) => Unlocked(storefile, pw) # Missing
      BY DEF Unlocks, Unlocked, Readable, Blobs, NoSecrets
    <3>3. outcome[q] = "none"
      BY <1>0, <1>1, <2>1 DEF Unlock
    <3>. QED BY <1>1, <2>1, <3>1, <3>2, <3>3 DEF Unlock
  <2>2. CASE p # q
    BY <1>1, <1>a, <2>2 DEF Unlock
  <2>. QED BY <2>1, <2>2
<1>2. ASSUME NEW p \in Procs, Refuse(p) \/ RenameEnv(p) \/ Fail(p) PROVE Hand(q)'
  <2>1. CASE p = q
    <3>1. pc'[q] \in {"done", "failed"} /\ outcome[q] = "none" /\ outcome' = outcome
      BY <1>0, <1>2, <2>1 DEF Refuse, RenameEnv, Fail
    <3>. QED BY <3>1
  <2>2. CASE p # q
    BY <1>2, <1>a, <2>2 DEF Refuse, RenameEnv, Fail, End
  <2>. QED BY <2>1, <2>2
<1>3. ASSUME NEW p \in Procs, OpenTemp(p) PROVE Hand(q)'
  BY <1>0, <1>3 DEF OpenTemp
<1>4. ASSUME NEW p \in Procs, WriteTemp(p) PROVE Hand(q)'
  BY <1>0, <1>4 DEF WriteTemp
<1>5. ASSUME NEW p \in Procs, Replace(p) PROVE Hand(q)'
  <2>1. CASE p = q
    <3>0. pc[q] = "replace" /\ outcome[q] = "none" /\ outcome' = outcome
      BY <1>0, <1>5, <2>1 DEF Replace
    <3>1. CASE tempfile = Missing \/ AfterReplace(p) = "done"
      <4>1. pc'[q] \in {"done", "failed"}
        BY <1>5, <2>1, <3>1 DEF Replace
      <4>. QED BY <3>0, <4>1
    <3>2. CASE tempfile # Missing /\ AfterReplace(p) # "done"
      <4>1. /\ pc'[q] = AfterReplace(q) /\ held'[q] = next[q] /\ todo'[q] = Tail(todo[q])
        BY <1>5, <2>1, <3>2 DEF Replace, Kept
      <4>2. todo[q] \in Seq(Changes) /\ todo[q] # <<>> /\ held[q] \in Blobs
        BY <1>0, <3>0
      <4>3. next[q] \in Blobs
        BY <1>0, <3>0, <4>2, HeadTailProperties, ApplyTyped
      <4>4. Len(todo[q]) > 1 => Tail(todo[q]) # <<>>
        <5>1. Len(Tail(todo[q])) = Len(todo[q]) - 1 /\ Len(todo[q]) \in Nat
          BY <4>2, HeadTailProperties, LenProperties
        <5>2. Tail(todo[q]) \in Seq(Changes)
          BY <4>2, HeadTailProperties
        <5>3. Tail(todo[q]) = <<>> => Len(Tail(todo[q])) = 0
          BY <5>2, EmptySeq
        <5>4. ASSUME Len(todo[q]) > 1 PROVE Len(Tail(todo[q])) # 0
          <6> DEFINE n == Len(todo[q])
                     m == Len(Tail(todo[q]))
          <6>1. n \in Nat /\ n > 1 /\ m = n - 1
            BY <5>1, <5>4
          <6> HIDE DEF n, m
          <6>2. m # 0
            BY <6>1
          <6>. QED BY <6>2 DEF m
        <5>. QED BY <5>3, <5>4
      <4>5. pc'[q] \in {"change", "imported"} /\ (pc'[q] = "change" => Len(todo[q]) > 1)
        BY <3>2, <2>1, <4>1 DEF AfterReplace
      <4>. QED BY <3>0, <4>1, <4>3, <4>4, <4>5
    <3>. QED BY <3>1, <3>2
  <2>2. CASE p # q
    BY <1>5, <1>a, <2>2 DEF Replace, End
  <2>. QED BY <2>1, <2>2
<1>6. ASSUME NEW p \in Procs, NEW n \in Names, NEW pw \in Passwords, Resolve(p, n, pw)
      PROVE  Hand(q)'
  <2>1. CASE p = q
    <3>1. pc'[q] \in {"unlocked", "resolved"} /\ ask'[q].op = "resolve"
      BY <1>6, <2>1 DEF Resolve
    <3>2. pc'[q] = "unlocked" => held'[q] # Missing
      BY <1>0, <1>6, <2>1 DEF Resolve
    <3>. QED BY <3>1, <3>2
  <2>2. CASE p # q
    BY <1>6, <1>a, <2>2 DEF Resolve
  <2>. QED BY <2>1, <2>2
<1>7. CASE UNCHANGED secretsVars
  BY <1>7, <1>a DEF secretsVars
<1> HIDE DEF Hand
<1>. QED BY <1>1, <1>2, <1>3, <1>4, <1>5, <1>6, <1>7 DEF Next, Step

\* Every step keeps TempIsOwned.
LEMMA OwnedStep ==
    ASSUME TypeOK, ChangesInHand, TempIsOwned, [Next]_secretsVars
    PROVE  TempIsOwned'
<1> USE DEF TypeOK
<1> DEFINE Alone == \A p, q \in Procs :
                      pc[p] \in {"write", "replace"} /\ pc[q] \in {"write", "replace"} => p = q
           Own(q) == /\ opened[q] = IF pc[q] = "write" THEN "temp" ELSE "none"
                     /\ pc[q] = "write" => tempfile = Empty
                     /\ pc[q] = "replace" => tempfile = next[q]
           Goal == Readable(storefile') /\ Alone' /\ \A q \in Procs : Own(q)'
<1> SUFFICES ASSUME ~shared' PROVE Goal
  BY DEF TempIsOwned, Readable
<1>0. ~shared
  BY DEF Next, Step, Unlock, Refuse, OpenTemp, WriteTemp, Replace, RenameEnv, Fail, Resolve,
         secretsVars
<1>b. Readable(storefile) /\ Alone /\ \A q \in Procs : Own(q)
  BY <1>0 DEF TempIsOwned
<1>a. ASSUME storefile' = storefile, tempfile' = tempfile,
             \A q \in Procs : /\ opened'[q] = opened[q]
                              /\ pc'[q] = "write" <=> pc[q] = "write"
                              /\ pc'[q] = "replace" <=> pc[q] = "replace"
                              /\ pc[q] = "replace" => next'[q] = next[q]
      PROVE  Goal
  BY <1>a, <1>b
<1>c. ASSUME Readable(storefile'),
             \A q \in Procs : opened'[q] = "none" /\ pc'[q] \notin {"write", "replace"}
      PROVE  Goal
  BY <1>c
<1>1. ASSUME NEW p \in Procs, NEW a \in Commands, NEW pw \in Passwords, Unlock(p, a, pw)
      PROVE  Goal
  <2>1. \A q \in Procs : /\ pc'[q] = "write" <=> pc[q] = "write"
                         /\ pc'[q] = "replace" <=> pc[q] = "replace"
    BY <1>1 DEF Unlock
  <2>. QED BY <1>1, <1>a, <2>1 DEF Unlock
<1>2. ASSUME NEW p \in Procs, Refuse(p) \/ RenameEnv(p) PROVE Goal
  <2>1. \A q \in Procs : /\ pc'[q] = "write" <=> pc[q] = "write"
                         /\ pc'[q] = "replace" <=> pc[q] = "replace"
                         /\ pc[q] = "replace" => next'[q] = next[q]
    BY <1>2 DEF Refuse, RenameEnv, End
  <2>. QED BY <1>2, <1>a, <2>1 DEF Refuse, RenameEnv
<1>3. ASSUME NEW p \in Procs, OpenTemp(p) PROVE Goal
  <2>1. \A q \in Procs : opened[q] # "temp" /\ pc[q] # "replace"
    BY <1>3 DEF OpenTemp
  <2>2. \A q \in Procs : pc[q] \notin {"write", "replace"} /\ opened[q] = "none"
    BY <1>b, <2>1
  <2>3. pc' = [pc EXCEPT ![p] = "write"] /\ opened' = [opened EXCEPT ![p] = "temp"]
    BY <1>3 DEF OpenTemp
  <2>4. /\ pc'[p] = "write" /\ opened'[p] = "temp"
        /\ \A q \in Procs \ {p} : pc'[q] \notin {"write", "replace"} /\ opened'[q] = "none"
    BY <2>2, <2>3
  <2>5. storefile' = storefile /\ tempfile' = Empty
    BY <1>3 DEF OpenTemp, Opened
  <2>. QED BY <1>b, <2>4, <2>5
<1>4. ASSUME NEW p \in Procs, WriteTemp(p) PROVE Goal
  <2>1. pc[p] = "write" /\ opened[p] = "temp" /\ tempfile = Empty
    BY <1>4, <1>b DEF WriteTemp
  <2>2. storefile' = storefile /\ tempfile' = next[p] /\ next' = next
    BY <1>4, <2>1 DEF WriteTemp, Over
  <2>3. /\ pc'[p] = "replace" /\ opened'[p] = "none"
        /\ \A q \in Procs \ {p} : pc'[q] = pc[q] /\ opened'[q] = opened[q]
    BY <1>4 DEF WriteTemp
  <2>4. \A q \in Procs \ {p} : pc[q] \notin {"write", "replace"}
    BY <1>b, <2>1
  <2>. QED BY <1>b, <2>2, <2>3, <2>4
<1>5. ASSUME NEW p \in Procs, Replace(p) PROVE Goal
  <2>1. pc[p] = "replace" /\ tempfile = next[p] /\ next[p] \in Blobs
    <3>1. pc[p] = "replace"
      BY <1>5 DEF Replace
    <3>2. /\ todo[p] \in Seq(Changes) /\ todo[p] # <<>> /\ held[p] \in Blobs
          /\ next[p] = Apply(Head(todo[p]), held[p])
      BY <3>1 DEF ChangesInHand
    <3>. QED BY <1>b, <3>1, <3>2, HeadTailProperties, ApplyTyped
  <2>2. \A q \in Procs \ {p} : pc[q] \notin {"write", "replace"}
    BY <1>b, <2>1
  <2>3. \A q \in Procs : opened[q] = "none"
    BY <1>b, <2>1, <2>2
  <2>4. /\ storefile' = next[p] /\ pc' = [pc EXCEPT ![p] = AfterReplace(p)]
        /\ \A q \in Procs : opened'[q] = "none"
    BY <1>5, <2>1, <2>3 DEF Replace
  <2>5. AfterReplace(p) \notin {"write", "replace"}
    BY DEF AfterReplace
  <2>6. \A q \in Procs : pc'[q] \notin {"write", "replace"}
    BY <2>2, <2>4, <2>5
  <2>7. Readable(storefile')
    BY <2>1, <2>4 DEF Readable
  <2>. QED BY <1>c, <2>4, <2>6, <2>7
<1>6. ASSUME NEW p \in Procs, Fail(p) PROVE Goal
  <2>1. storefile' = storefile
    BY <1>6, <1>b DEF Fail
  <2>2. /\ pc'[p] = "failed" /\ opened'[p] = "none"
        /\ \A q \in Procs \ {p} : /\ pc'[q] = pc[q] /\ opened'[q] = opened[q]
                                  /\ next'[q] = next[q]
    BY <1>6 DEF Fail, End
  <2>3. CASE pc[p] \in {"write", "replace"}
    <3>1. \A q \in Procs \ {p} : pc[q] \notin {"write", "replace"} /\ opened[q] = "none"
      BY <1>b, <2>3
    <3>. QED BY <1>b, <1>c, <2>1, <2>2, <3>1
  <2>4. CASE pc[p] \notin {"write", "replace"}
    <3>1. opened[p] = "none"
      BY <1>b, <2>4
    <3>2. tempfile' = tempfile
      BY <1>6, <3>1 DEF Fail
    <3>. QED BY <1>a, <2>1, <2>2, <2>4, <3>1, <3>2
  <2>. QED BY <2>3, <2>4
<1>7. ASSUME NEW p \in Procs, NEW n \in Names, NEW pw \in Passwords, Resolve(p, n, pw)
      PROVE  Goal
  <2>1. \A q \in Procs : /\ pc'[q] = "write" <=> pc[q] = "write"
                         /\ pc'[q] = "replace" <=> pc[q] = "replace"
    BY <1>7 DEF Resolve
  <2>. QED BY <1>7, <1>a, <2>1 DEF Resolve
<1>8. CASE UNCHANGED secretsVars
  BY <1>8, <1>a DEF secretsVars
<1> HIDE DEF Goal
<1>. QED BY <1>1, <1>2, <1>3, <1>4, <1>5, <1>6, <1>7, <1>8 DEF Next, Step

\* While one process writes the temporary file, what is renamed is what it has made
\* of the store in its memory.
LEMMA RenamedIsAsked ==
    ASSUME TypeOK, ChangesInHand, TempIsOwned, ~shared, NEW p \in Procs, Replace(p)
    PROVE  /\ pc[p] = "replace" /\ storefile' = next[p] /\ next[p] \in Blobs
           /\ next[p] = Apply(Head(todo[p]), held[p])
           /\ pc' = [pc EXCEPT ![p] = AfterReplace(p)]
           /\ stale' = (stale \cup Surprised(p)) \ {p}
           /\ AfterReplace(p) # "done" => held' = [held EXCEPT ![p] = next[p]]
<1>1. pc[p] = "replace"
  BY DEF Replace
<1>2. /\ todo[p] \in Seq(Changes) /\ todo[p] # <<>> /\ held[p] \in Blobs
      /\ next[p] = Apply(Head(todo[p]), held[p])
  BY <1>1 DEF ChangesInHand, TypeOK
<1>3. tempfile = next[p]
  BY <1>1 DEF TempIsOwned
<1>4. next[p] \in Blobs
  BY <1>2, HeadTailProperties, ApplyTyped
<1>. QED BY <1>1, <1>2, <1>3, <1>4 DEF Replace, Kept, TypeOK

\* Only a rename changes secrets.enc while one process writes the temporary file.
LEMMA StoreIsRenamed ==
    ASSUME TypeOK, TempIsOwned, ~shared, [Next]_secretsVars, storefile' # storefile
    PROVE  \E p \in Procs : Replace(p)
<1>1. \A p \in Procs : opened[p] # "store"
  BY DEF TempIsOwned
<1>. QED BY <1>1 DEF Next, Step, Unlock, Refuse, OpenTemp, WriteTemp, RenameEnv, Fail, Resolve,
                     secretsVars

\* Every step keeps HeldIsCurrent.
LEMMA CurrentStep ==
    ASSUME TypeOK, ChangesInHand, TempIsOwned, HeldIsCurrent, [Next]_secretsVars
    PROVE  HeldIsCurrent'
<1> USE DEF TypeOK
<1> DEFINE Busy == {"change", "write", "replace", "imported", "unlocked"}
           Current(q) == /\ pc[q] \in Busy => held[q] = Unlocked(storefile, held[q].password)
                         /\ outcome[q] = "legacy" =>
                              storefile = Missing \/ storefile.data[ask[q].name] = Absent
<1> SUFFICES ASSUME ~shared', NEW q \in Procs, q \notin stale' PROVE Current(q)'
  BY DEF HeldIsCurrent
<1>0. ~shared
  BY DEF Next, Step, Unlock, Refuse, OpenTemp, WriteTemp, Replace, RenameEnv, Fail, Resolve,
         secretsVars
<1>b. q \notin stale => Current(q)
  BY <1>0 DEF HeldIsCurrent
<1>c. /\ \A p \in Procs : opened[p] # "store"
      /\ Readable(storefile)
      /\ outcome[q] # "none" => pc[q] \in {"unlocked", "resolved"}
  BY <1>0 DEF TempIsOwned, ChangesInHand
<1>a. ASSUME storefile' = storefile, q \notin stale, pc'[q] \in Busy => pc[q] \in Busy,
             held'[q] = held[q], outcome'[q] = outcome[q], ask'[q] = ask[q]
      PROVE  Current(q)'
  BY <1>a, <1>b
<1>d. ASSUME pc'[q] \notin Busy, outcome'[q] # "legacy" PROVE Current(q)'
  BY <1>d
<1>1. ASSUME NEW p \in Procs, NEW a \in Commands, NEW pw \in Passwords, Unlock(p, a, pw)
      PROVE  Current(q)'
  <2>1. CASE p = q /\ pc'[q] = "change"
    <3>1. held'[q] = Unlocked(storefile, pw) /\ Unlocks(storefile, pw)
      BY <1>1, <2>1 DEF Unlock
    <3>2. outcome'[q] = "none" /\ storefile' = storefile
      BY <1>1, <1>c, <2>1 DEF Unlock
    <3>3. held'[q] = Unlocked(storefile, held'[q].password)
      BY <3>1 DEF Unlocked
    <3>. QED BY <3>2, <3>3
  <2>2. CASE p = q /\ pc'[q] # "change"
    <3>1. pc'[q] \in {"done", "failed"} /\ outcome'[q] = "none"
      BY <1>1, <1>c, <2>2 DEF Unlock
    <3>. QED BY <1>d, <3>1
  <2>3. CASE p # q
    BY <1>1, <1>a, <2>3 DEF Unlock
  <2>. QED BY <2>1, <2>2, <2>3
<1>2. ASSUME NEW p \in Procs, Refuse(p) \/ RenameEnv(p) \/ Fail(p) PROVE Current(q)'
  <2>1. CASE p = q
    <3>1. pc'[q] \in {"done", "failed"} /\ outcome'[q] = "none"
      BY <1>2, <1>c, <2>1 DEF Refuse, RenameEnv, Fail
    <3>. QED BY <1>d, <3>1
  <2>2. CASE p # q
    BY <1>2, <1>a, <1>c, <2>2 DEF Refuse, RenameEnv, Fail, End
  <2>. QED BY <2>1, <2>2
<1>3. ASSUME NEW p \in Procs, OpenTemp(p) \/ WriteTemp(p) PROVE Current(q)'
  <2>1. storefile' = storefile /\ stale' = stale
    BY <1>3, <1>c DEF OpenTemp, WriteTemp
  <2>2. held' = held /\ outcome' = outcome /\ ask' = ask
    BY <1>3 DEF OpenTemp, WriteTemp
  <2>3. pc'[q] \in Busy => pc[q] \in Busy
    BY <1>3 DEF OpenTemp, WriteTemp
  <2>. QED BY <1>a, <2>1, <2>2, <2>3
<1>4. ASSUME NEW p \in Procs, Replace(p) PROVE Current(q)'
  <2>0. /\ pc[p] = "replace" /\ storefile' = next[p] /\ next[p] \in Blobs
        /\ pc' = [pc EXCEPT ![p] = AfterReplace(p)]
        /\ stale' = (stale \cup Surprised(p)) \ {p}
        /\ AfterReplace(p) # "done" => held' = [held EXCEPT ![p] = next[p]]
    BY <1>0, <1>4, RenamedIsAsked
  <2>1. CASE p = q
    <3>1. outcome'[q] = "none"
      BY <1>4, <1>c, <2>0, <2>1 DEF Replace
    <3>2. CASE AfterReplace(p) = "done"
      BY <1>d, <2>0, <2>1, <3>1, <3>2
    <3>3. CASE AfterReplace(p) # "done"
      <4>1. held'[q] = storefile' /\ storefile' # Missing
        BY <2>0, <2>1, <3>3
      <4>2. held'[q] = Unlocked(storefile', held'[q].password)
        BY <4>1 DEF Unlocked
      <4>. QED BY <3>1, <4>2 DEF Unlocked
    <3>. QED BY <3>2, <3>3
  <2>2. CASE p # q
    <3>1. pc[q] = "idle"
      BY <2>0, <2>2 DEF Surprised
    <3>2. pc'[q] = "idle" /\ outcome'[q] = "none"
      BY <1>4, <1>c, <2>0, <2>2, <3>1 DEF Replace
    <3>. QED BY <1>d, <3>2
  <2>. QED BY <2>1, <2>2
<1>5. ASSUME NEW p \in Procs, NEW n \in Names, NEW pw \in Passwords, Resolve(p, n, pw)
      PROVE  Current(q)'
  <2>0. storefile' = storefile
    BY <1>5 DEF Resolve
  <2>1. CASE p = q /\ pc[q] = "unlocked"
    <3>1. /\ pc' = pc /\ held' = held /\ stale' = stale /\ ask'[q].name = n
          /\ outcome'[q] = Found(held[q], n)
      BY <1>5, <2>1 DEF Resolve
    <3>2. held[q] = Unlocked(storefile, held[q].password)
      BY <1>b, <2>1, <3>1
    <3>3. storefile = Missing \/ held[q] = storefile
      BY <3>2 DEF Unlocked
    <3>4. outcome'[q] = "legacy" => held[q].data[n] = Absent
      BY <3>1 DEF Found
    <3>. QED BY <2>0, <3>1, <3>2, <3>3, <3>4
  <2>2. CASE p = q /\ pc[q] # "unlocked"
    <3>1. ask'[q].name = n /\ pc'[q] \in {"resolved", "unlocked"}
      BY <1>5, <2>2 DEF Resolve
    <3>2. pc'[q] = "unlocked" => held'[q] = storefile /\ storefile # Missing
      BY <1>5, <2>2 DEF Resolve
    <3>3. outcome'[q] = "legacy" => storefile = Missing \/ storefile.data[n] = Absent
      <4>1. CASE storefile = Missing
        BY <4>1
      <4>2. CASE storefile # Missing
        <5>1. \/ outcome' = [outcome EXCEPT ![q] = Found(storefile, n)]
              \/ outcome' = [outcome EXCEPT ![q] = WrongPassword]
          BY <1>5, <1>c, <2>2, <4>2 DEF Resolve
        <5>2. outcome'[q] \in {Found(storefile, n), "refused"}
          BY <5>1 DEF WrongPassword
        <5>. QED BY <5>2 DEF Found
      <4>. QED BY <4>1, <4>2
    <3>4. pc'[q] \in Busy => held'[q] = Unlocked(storefile, held'[q].password)
      BY <3>1, <3>2 DEF Unlocked
    <3>. QED BY <2>0, <3>1, <3>3, <3>4
  <2>3. CASE p # q
    <3>1. q \notin stale
      BY <1>5, <2>3 DEF Resolve
    <3>. QED BY <1>5, <1>a, <2>3, <3>1 DEF Resolve
  <2>. QED BY <2>1, <2>2, <2>3
<1>6. CASE UNCHANGED secretsVars
  BY <1>6, <1>a DEF secretsVars
<1> HIDE DEF Current
<1>. QED BY <1>1, <1>2, <1>3, <1>4, <1>5, <1>6 DEF Next, Step

\* Every step keeps ImportsInOrder.
LEMMA OrderStep ==
    ASSUME TypeOK, ChangesInHand, ImportsInOrder, [Next]_secretsVars
    PROVE  ImportsInOrder'
<1> USE DEF TypeOK
<1> DEFINE L == Len(Legacy)
           Upto(q, k) == todo[q] = SubSeq(Legacy, k + 1, L) /\ Imported(k, held[q])
           Order(q) == /\ pc[q] = "imported" => Imported(L, held[q])
                       /\ ask[q].op = "migrate" /\ pc[q] \in {"change", "write", "replace"} =>
                            \E k \in 0 .. L : Upto(q, k)
<1> SUFFICES ASSUME NEW q \in Procs PROVE Order(q)'
  BY DEF ImportsInOrder
<1>b. Order(q)
  BY DEF ImportsInOrder
<1>l. L \in Nat
  BY LenProperties
<1> HIDE DEF L
<1>a. ASSUME pc'[q] = "imported" => pc[q] = "imported",
             pc'[q] \in {"change", "write", "replace"} => pc[q] \in {"change", "write", "replace"},
             held'[q] = held[q], todo'[q] = todo[q], ask'[q] = ask[q]
      PROVE  Order(q)'
  BY <1>a, <1>b DEF Imported
<1>d. ASSUME pc'[q] \notin {"change", "write", "replace", "imported"} PROVE Order(q)'
  BY <1>d
<1>1. ASSUME NEW p \in Procs, NEW a \in Commands, NEW pw \in Passwords, Unlock(p, a, pw)
      PROVE  Order(q)'
  <2>1. CASE p = q /\ pc'[q] = "change"
    <3>1. ask'[q] = a /\ todo'[q] = a.todo
      BY <1>1, <2>1 DEF Unlock
    <3>2. ASSUME a.op = "migrate" PROVE Upto(q, 0)'
      <4>1. todo'[q] = Legacy
        BY <1>1, <3>1, <3>2, CommandsTyped
      <4>2. SubSeq(Legacy, 0 + 1, L) = Legacy
        BY SubSeqFull DEF L
      <4>3. Imported(0, held'[q])
        BY DEF Imported
      <4>. QED BY <4>1, <4>2, <4>3 DEF Imported
    <3>3. 0 \in 0 .. L
      BY <1>l
    <3>4. a.op = "migrate" => \E k \in 0 .. L : Upto(q, k)'
      BY <3>2, <3>3
    <3> HIDE DEF Upto
    <3>. QED BY <2>1, <3>1, <3>4
  <2>2. CASE p = q /\ pc'[q] # "change"
    <3>1. pc'[q] \in {"done", "failed"}
      BY <1>1, <2>2 DEF Unlock
    <3>. QED BY <1>d, <3>1
  <2>3. CASE p # q
    BY <1>1, <1>a, <2>3 DEF Unlock
  <2>. QED BY <2>1, <2>2, <2>3
<1>2. ASSUME NEW p \in Procs, Refuse(p) \/ RenameEnv(p) \/ Fail(p) PROVE Order(q)'
  <2>1. CASE p = q
    <3>1. pc'[q] \in {"done", "failed"}
      BY <1>2, <2>1 DEF Refuse, RenameEnv, Fail
    <3>. QED BY <1>d, <3>1
  <2>2. CASE p # q
    BY <1>2, <1>a, <2>2 DEF Refuse, RenameEnv, Fail, End
  <2>. QED BY <2>1, <2>2
<1>3. ASSUME NEW p \in Procs, OpenTemp(p) \/ WriteTemp(p) PROVE Order(q)'
  <2>1. held' = held /\ todo' = todo /\ ask' = ask
    BY <1>3 DEF OpenTemp, WriteTemp
  <2>2. pc'[q] = "imported" => pc[q] = "imported"
    BY <1>3 DEF OpenTemp, WriteTemp
  <2>3. pc'[q] \in {"change", "write", "replace"} => pc[q] \in {"change", "write", "replace"}
    BY <1>3 DEF OpenTemp, WriteTemp
  <2>. QED BY <1>a, <2>1, <2>2, <2>3
<1>4. ASSUME NEW p \in Procs, Replace(p) PROVE Order(q)'
  <2>1. CASE p = q /\ ask[q].op = "migrate" /\ tempfile # Missing
    <3>0. pc[q] = "replace" /\ ask' = ask
      BY <1>4, <2>1 DEF Replace
    <3>1. PICK k \in 0 .. L : Upto(q, k)
      BY <1>b, <2>1, <3>0
    <3>2. /\ todo[q] # <<>> /\ held[q] \in Blobs
          /\ next[q] = Apply(Head(todo[q]), held[q])
      BY <3>0 DEF ChangesInHand
    <3>3. k < L /\ k \in Nat
      <4>1. ASSUME k = L PROVE FALSE
        <5>1. SubSeq(Legacy, k + 1, L) = <<>>
          BY <1>l, <4>1, SubSeqEmpty
        <5>. QED BY <3>1, <3>2, <5>1
      <4>. QED BY <1>l, <4>1
    <3>4. /\ Len(todo[q]) = L - k /\ Head(todo[q]) = Legacy[k + 1]
          /\ Tail(todo[q]) = SubSeq(Legacy, k + 2, L)
      BY <3>1, <3>3, SuffixProperties DEF L
    <3>5. Imported(k + 1, next[q])
      BY <3>1, <3>2, <3>3, <3>4, ImportOneMore DEF L
    <3>6. /\ pc'[q] = AfterReplace(q) /\ AfterReplace(q) # "done"
          /\ held'[q] = next[q] /\ todo'[q] = Tail(todo[q])
      <4>1. AfterReplace(q) # "done"
        BY <2>1 DEF AfterReplace
      <4>. QED BY <1>4, <2>1, <4>1 DEF Replace, Kept
    <3>7. CASE Len(todo[q]) > 1
      <4>1. k + 1 \in 0 .. L /\ (k + 1) + 1 = k + 2
        BY <1>l, <3>3
      <4>2. Upto(q, k + 1)'
        BY <3>4, <3>5, <3>6, <4>1 DEF Imported
      <4>3. pc'[q] = "change"
        BY <3>6, <3>7 DEF AfterReplace
      <4>. QED BY <4>1, <4>2, <4>3
    <3>8. CASE ~(Len(todo[q]) > 1)
      <4>1. k + 1 = L
        BY <1>l, <3>3, <3>4, <3>8
      <4>2. pc'[q] = "imported"
        BY <2>1, <3>6, <3>8 DEF AfterReplace
      <4>3. Imported(L, held'[q])
        BY <3>5, <3>6, <4>1
      <4>. QED BY <4>2, <4>3 DEF Imported
    <3>. QED BY <3>7, <3>8
  <2>2. CASE p = q /\ ask[q].op # "migrate"
    <3>1. pc'[q] # "imported" /\ ask' = ask
      BY <1>4, <2>2 DEF Replace, AfterReplace
    <3>. QED BY <2>2, <3>1
  <2>3. CASE p = q /\ tempfile = Missing
    <3>1. pc'[q] = "failed"
      BY <1>4, <2>3 DEF Replace
    <3>. QED BY <1>d, <3>1
  <2>4. CASE p # q
    BY <1>4, <1>a, <2>4 DEF Replace, End
  <2>. QED BY <2>1, <2>2, <2>3, <2>4
<1>5. ASSUME NEW p \in Procs, NEW n \in Names, NEW pw \in Passwords, Resolve(p, n, pw)
      PROVE  Order(q)'
  <2>1. CASE p = q
    <3>1. pc'[q] \in {"unlocked", "resolved"}
      BY <1>5, <2>1 DEF Resolve
    <3>. QED BY <1>d, <3>1
  <2>2. CASE p # q
    BY <1>5, <1>a, <2>2 DEF Resolve
  <2>. QED BY <2>1, <2>2
<1>6. CASE UNCHANGED secretsVars
  BY <1>6, <1>a DEF secretsVars
<1> HIDE DEF Order
<1>. QED BY <1>1, <1>2, <1>3, <1>4, <1>5, <1>6 DEF Next, Step

-----------------------------------------------------------------------------
(* The theorems.                                                           *)

LEMMA StoreInit == Init => StoreInv
<1> SUFFICES ASSUME Init PROVE StoreInv
  OBVIOUS
<1>1. TypeOK
  <2>1. todo \in [Procs -> Seq(Changes)]
    <3>1. <<>> \in Seq(Changes)
      BY EmptySeq
    <3>. QED BY <3>1 DEF Init
  <2>. QED BY <2>1 DEF Init, TypeOK
<1>2. ChangesInHand
  BY DEF Init, ChangesInHand
<1>3. TempIsOwned
  BY DEF Init, TempIsOwned, Readable
<1>4. HeldIsCurrent
  BY DEF Init, HeldIsCurrent
<1>5. ImportsInOrder
  BY DEF Init, ImportsInOrder
<1>. QED BY <1>1, <1>2, <1>3, <1>4, <1>5 DEF StoreInv

LEMMA StoreStep == StoreInv /\ [Next]_secretsVars => StoreInv'
BY TypeStep, ChangesStep, OwnedStep, CurrentStep, OrderStep DEF StoreInv

\* Whatever processes run, die or are refused, the inductive invariant holds: what a
\* process has in memory is what secrets.enc holds or has been replaced under it, and
\* the temporary file has one owner for as long as nobody has shared it.
THEOREM StoreInvariant == Spec => []StoreInv
<1>. QED BY StoreInit, StoreStep, PTL DEF Spec

\* secrets.enc is never torn or empty while one process at a time writes beside it
\* (_persist).
THEOREM StoreStaysReadable == Spec => []StoreReadable
<1>1. StoreInv => StoreReadable
  BY DEF StoreInv, TempIsOwned, StoreReadable
<1>. QED BY <1>1, StoreInvariant, PTL

\* A look-up turns to the environment only for a secret that is not stored
\* (_resolve_secret).
THEOREM LegacyIsLastResort == Spec => []LegacyOnlyWithoutSecret
<1>1. StoreInv => LegacyOnlyWithoutSecret
  BY DEF StoreInv, HeldIsCurrent, LegacyOnlyWithoutSecret
<1>. QED BY <1>1, StoreInvariant, PTL

\* A rename puts into secrets.enc what the command made of what it held, unless the
\* file was replaced meanwhile (set, delete, with_password).
THEOREM OnlyAskedChanges == Spec => ChangesAreAsked
<1> DEFINE Asked == storefile' # storefile /\ ~shared =>
             \E p \in Procs :
                /\ pc[p] = "replace"
                /\ \/ p \in stale
                   \/ storefile' = Apply(Head(todo[p]), Unlocked(storefile, held[p].password))
<1>1. ASSUME StoreInv, [Next]_secretsVars PROVE Asked
  <2> SUFFICES ASSUME storefile' # storefile, ~shared PROVE Asked
    OBVIOUS
  <2>1. PICK p \in Procs : Replace(p)
    BY <1>1, StoreIsRenamed DEF StoreInv
  <2>2. /\ pc[p] = "replace" /\ storefile' = next[p]
        /\ next[p] = Apply(Head(todo[p]), held[p])
    BY <1>1, <2>1, RenamedIsAsked DEF StoreInv
  <2>3. p \in stale \/ held[p] = Unlocked(storefile, held[p].password)
    BY <1>1, <2>2 DEF StoreInv, HeldIsCurrent
  <2>. QED BY <2>2, <2>3
<1> HIDE DEF Asked
<1>2. Spec => [][Asked]_secretsVars
  BY <1>1, StoreInvariant, PTL DEF Spec
<1>. QED BY <1>2 DEF Asked, ChangesAreAsked

\* .env is given up only when the store has all of it (migrate_legacy_env).
THEOREM NothingLostInMigration == Spec => MigrationComplete
<1> DEFINE Complete == env' # env /\ ~shared =>
             \E p \in Procs : pc[p] = "imported"
                              /\ (p \in stale \/ Imported(Len(Legacy), storefile))
<1>1. ASSUME StoreInv, [Next]_secretsVars PROVE Complete
  <2> SUFFICES ASSUME env' # env, ~shared PROVE Complete
    OBVIOUS
  <2>1. PICK p \in Procs : pc[p] = "imported"
    BY <1>1 DEF Next, Step, Unlock, Refuse, OpenTemp, WriteTemp, Replace, RenameEnv, Fail,
                Resolve, secretsVars
  <2>2. Imported(Len(Legacy), held[p])
    BY <1>1, <2>1 DEF StoreInv, ImportsInOrder
  <2>3. p \in stale \/ held[p] = Unlocked(storefile, held[p].password)
    BY <1>1, <2>1 DEF StoreInv, HeldIsCurrent
  <2>4. storefile = Missing => held[p] # Unlocked(storefile, held[p].password)
    <3>1. Len(Legacy) \in 1 .. Len(Legacy) /\ Legacy[Len(Legacy)] \in Sets
      BY LenProperties, EmptySeq, ElementOfSeq
    <3>2. held[p].data[Legacy[Len(Legacy)].name] = Legacy[Len(Legacy)].value
      BY <2>2, <3>1 DEF Imported
    <3>. QED BY <3>1, <3>2 DEF Unlocked, NoSecrets, Sets
  <2>. QED BY <2>1, <2>2, <2>3, <2>4 DEF Unlocked
<1> HIDE DEF Complete
<1>2. Spec => [][Complete]_secretsVars
  BY <1>1, StoreInvariant, PTL DEF Spec
<1>. QED BY <1>2 DEF Complete, MigrationComplete
=============================================================================

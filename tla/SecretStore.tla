---------------------------- MODULE SecretStore ----------------------------
(***************************************************************************)
(* secrets.enc: commands that unlock it, change it in memory and replace   *)
(* it (secretstore.py, cli/secret.py, cli/init.py), the import of a legacy *)
(* .env, and the look-up of a target's password (config._resolve_secret).  *)
(* Each command is a process; no lock is taken, and all of them write the  *)
(* same temporary file before they rename it.                              *)
(***************************************************************************)
EXTENDS Naturals, Sequences

CONSTANTS Procs, Names, Values, Passwords,
          Absent,                \* no secret of that name
          Missing, Empty, Torn,  \* contents of a file that is no whole store
          Legacy                 \* the secrets in .env, in its order

Sets == [do : {"set"}, name : Names, value : Values]

ASSUME SecretsAssumption ==
    /\ Absent \notin Values
    /\ Legacy \in Seq(Sets) /\ Legacy # <<>>
    /\ Missing # Empty /\ Missing # Torn /\ Empty # Torn

Blobs == [password : Passwords, data : [Names -> Values \cup {Absent}]]

ASSUME NoBlobs == Missing \notin Blobs /\ Empty \notin Blobs /\ Torn \notin Blobs

VARIABLES storefile, tempfile,  \* what secrets.enc and secrets.enc.tmp hold
          env,       \* .env: "present", or renamed to .env.migrated
          pc, ask,   \* where process p is, and its command
          todo,      \* the changes that p has still to make
          held,      \* the store that p has in memory, or Missing
          next,      \* the store that p is writing, or Missing
          opened,    \* the file that p has open for writing: the one that is named
                     \* temp or store now, or one that has no name any more
          outcome,   \* what a look-up found
          stale,     \* history: processes under which secrets.enc was replaced
          shared     \* history: two processes had the temporary file open at once

secretsVars == <<storefile, tempfile, env, pc, ask, todo, held, next, opened, outcome,
                 stale, shared>>

-----------------------------------------------------------------------------
Changes == Sets \cup [do : {"rm"}, name : Names] \cup [do : {"rotate"}, password : Passwords]

\* init asks for one target after the other; a look-up changes nothing.
Commands ==
    {[op |-> "secret", todo |-> <<c>>] : c \in Changes}
    \cup {[op |-> "init", todo |-> <<c, d>>] : c \in Sets, d \in Sets}
    \cup {[op |-> "migrate", todo |-> Legacy]}
    \cup [op : {"resolve"}, name : Names]

NoSecrets == [n \in Names |-> Absent]
NoCommand == [op |-> "none"]

\* Every mutation derives a new map; the rest of it is kept.
Apply(c, s) ==
    CASE c.do = "set" -> [s EXCEPT !.data[c.name] = c.value]
      [] c.do = "rm" -> [s EXCEPT !.data[c.name] = Absent]
      [] c.do = "rotate" -> [s EXCEPT !.password = c.password]

Readable(f) == f \notin {Empty, Torn}

\* A store that does not exist yet is opened with any password.
Unlocks(f, pw) == f = Missing \/ (Readable(f) /\ f.password = pw)

Unlocked(f, pw) == IF f = Missing THEN [password |-> pw, data |-> NoSecrets] ELSE f

\* Mutant: what a crash left in the temporary file is not truncated.
OpenedKeeping(f) == IF f = Missing THEN Empty ELSE f

\* write_text truncates the file it opens.
Opened(f) == Empty

\* Over anything but an empty file a shorter text leaves a tail.
Over(f, s) == IF f = Empty THEN {s} ELSE {s, Torn}

\* Mutant: the store that set returns is dropped, as if set changed it in place.
KeptOld(before, after) == before

Kept(before, after) == after

\* The processes that a new secrets.enc takes by surprise.
Surprised(p) == {q \in Procs \ {p} : pc[q] # "idle"}

\* A process that ends forgets what it had in memory.
End(p) ==
    /\ todo' = [todo EXCEPT ![p] = <<>>]
    /\ held' = [held EXCEPT ![p] = Missing]
    /\ next' = [next EXCEPT ![p] = Missing]

-----------------------------------------------------------------------------
(* Commands that change the store.                                         *)

\* Unlocking reads secrets.enc once; migrate reads .env as well.
Unlock(p, a, pw) ==
    /\ pc[p] = "idle" /\ a.op \in {"secret", "init", "migrate"}
    /\ ask' = [ask EXCEPT ![p] = a]
    /\ IF a.op = "migrate" /\ env = "migrated" THEN
            pc' = [pc EXCEPT ![p] = "done"] /\ UNCHANGED <<todo, held>>
       ELSE IF Unlocks(storefile, pw) THEN
            /\ pc' = [pc EXCEPT ![p] = "change"]
            /\ todo' = [todo EXCEPT ![p] = a.todo]
            /\ held' = [held EXCEPT ![p] = Unlocked(storefile, pw)]
       ELSE pc' = [pc EXCEPT ![p] = "failed"] /\ UNCHANGED <<todo, held>>
    /\ UNCHANGED <<storefile, tempfile, env, next, opened, outcome, stale, shared>>

\* delete refuses a name that the store in memory does not have.
Refuse(p) ==
    LET c == Head(todo[p])
    IN  /\ pc[p] = "change"
        /\ c.do = "rm" /\ held[p].data[c.name] = Absent
        /\ pc' = [pc EXCEPT ![p] = "failed"] /\ End(p)
        /\ UNCHANGED <<storefile, tempfile, env, ask, opened, outcome, stale, shared>>

\* _persist opens the temporary file, which may be one that others have open.
OpenTemp(p) ==
    LET c == Head(todo[p])
    IN  /\ pc[p] = "change"
        /\ c.do = "rm" => held[p].data[c.name] # Absent
        /\ next' = [next EXCEPT ![p] = Apply(c, held[p])]
        /\ tempfile' = Opened(tempfile)
        /\ opened' = [opened EXCEPT ![p] = "temp"]
        /\ shared' = (shared \/ \E q \in Procs : opened[q] = "temp" \/ pc[q] = "replace")
        /\ pc' = [pc EXCEPT ![p] = "write"]
        /\ UNCHANGED <<storefile, env, ask, todo, held, outcome, stale>>

\* The text goes to the file that was opened, whatever its name is by now.
WriteTemp(p) ==
    /\ pc[p] = "write"
    /\ IF opened[p] = "temp" THEN tempfile' \in Over(tempfile, next[p])
                             ELSE UNCHANGED tempfile
    /\ IF opened[p] = "store"
         THEN storefile' \in Over(storefile, next[p]) /\ stale' = stale \cup Surprised(p)
         ELSE UNCHANGED <<storefile, stale>>
    /\ opened' = [opened EXCEPT ![p] = "none"]
    /\ pc' = [pc EXCEPT ![p] = "replace"]
    /\ UNCHANGED <<env, ask, todo, held, next, outcome, shared>>

\* Mutant: .env is renamed after the first import.
AfterReplaceOnce(p) ==
    IF ask[p].op = "migrate" THEN "imported" ELSE IF Len(todo[p]) > 1 THEN "change" ELSE "done"

AfterReplace(p) ==
    IF Len(todo[p]) > 1 THEN "change" ELSE IF ask[p].op = "migrate" THEN "imported" ELSE "done"

\* The rename; it fails if another process has renamed the file before.
Replace(p) ==
    /\ pc[p] = "replace"
    /\ IF tempfile = Missing
         THEN /\ pc' = [pc EXCEPT ![p] = "failed"] /\ End(p)
              /\ UNCHANGED <<storefile, tempfile, opened, stale>>
         ELSE /\ storefile' = tempfile /\ tempfile' = Missing
              /\ opened' = [q \in Procs |-> CASE opened[q] = "temp" -> "store"
                                              [] opened[q] = "none" -> "none"
                                              [] OTHER -> "gone"]
              /\ stale' = (stale \cup Surprised(p)) \ {p}
              /\ pc' = [pc EXCEPT ![p] = AfterReplace(p)]
              /\ IF AfterReplace(p) = "done"
                   THEN End(p)
                   ELSE /\ held' = [held EXCEPT ![p] = Kept(@, next[p])]
                        /\ next' = [next EXCEPT ![p] = Missing]
                        /\ todo' = [todo EXCEPT ![p] = Tail(@)]
    /\ UNCHANGED <<env, ask, outcome, shared>>

\* The end of migrate_legacy_env.
RenameEnv(p) ==
    /\ pc[p] = "imported"
    /\ IF env = "present" THEN env' = "migrated" /\ pc' = [pc EXCEPT ![p] = "done"]
                          ELSE pc' = [pc EXCEPT ![p] = "failed"] /\ UNCHANGED env
    /\ End(p)
    /\ UNCHANGED <<storefile, tempfile, ask, opened, outcome, stale, shared>>

\* The process dies or the disk is full; what it was writing may be torn.
Fail(p) ==
    /\ pc[p] \in {"change", "write", "replace", "imported"}
    /\ pc' = [pc EXCEPT ![p] = "failed"]
    /\ opened' = [opened EXCEPT ![p] = "none"]
    /\ tempfile' \in IF opened[p] = "temp" THEN {tempfile, Torn} ELSE {tempfile}
    /\ storefile' \in IF opened[p] = "store" THEN {storefile, Torn} ELSE {storefile}
    /\ End(p)
    /\ UNCHANGED <<env, ask, outcome, stale, shared>>
-----------------------------------------------------------------------------
(* Look-ups of a target's password.                                        *)

\* Mutant: a wrong password is taken for a secret that is not there.
WrongPasswordFallsThrough == "legacy"

WrongPassword == "refused"

Found(s, n) == IF s.data[n] = Absent THEN "legacy" ELSE "stored"

\* _resolve_secret; an unlocked store is kept for the life of the process.
Resolve(p, n, pw) ==
    /\ pc[p] \in {"idle", "unlocked", "resolved"}
    /\ ask' = [ask EXCEPT ![p] = [op |-> "resolve", name |-> n]]
    /\ IF pc[p] = "unlocked"
         THEN /\ outcome' = [outcome EXCEPT ![p] = Found(held[p], n)]
              /\ UNCHANGED <<pc, held, stale>>
         ELSE /\ stale' = stale \ {p}
              /\ IF storefile = Missing \/ ~Readable(storefile) THEN
                      /\ outcome' = [outcome EXCEPT ![p] = "legacy"]
                      /\ pc' = [pc EXCEPT ![p] = "resolved"]
                      /\ UNCHANGED held
                 ELSE IF Unlocks(storefile, pw) THEN
                      /\ outcome' = [outcome EXCEPT ![p] = Found(storefile, n)]
                      /\ pc' = [pc EXCEPT ![p] = "unlocked"]
                      /\ held' = [held EXCEPT ![p] = storefile]
                 ELSE /\ outcome' = [outcome EXCEPT ![p] = WrongPassword]
                      /\ pc' = [pc EXCEPT ![p] = "resolved"]
                      /\ UNCHANGED held
    /\ UNCHANGED <<storefile, tempfile, env, todo, next, opened, shared>>
-----------------------------------------------------------------------------
Init ==
    /\ storefile \in Blobs \cup {Missing}
    /\ tempfile = Missing
    /\ env = "present"
    /\ pc = [p \in Procs |-> "idle"]
    /\ ask = [p \in Procs |-> NoCommand]
    /\ todo = [p \in Procs |-> <<>>]
    /\ held = [p \in Procs |-> Missing] /\ next = [p \in Procs |-> Missing]
    /\ opened = [p \in Procs |-> "none"]
    /\ outcome = [p \in Procs |-> "none"]
    /\ stale = {} /\ shared = FALSE

Step(p) ==
    \/ \E a \in Commands, pw \in Passwords : Unlock(p, a, pw)
    \/ Refuse(p) \/ OpenTemp(p) \/ WriteTemp(p) \/ Replace(p) \/ RenameEnv(p) \/ Fail(p)
    \/ \E n \in Names, pw \in Passwords : Resolve(p, n, pw)

Next == \E p \in Procs : Step(p)

Spec == Init /\ [][Next]_secretsVars
-----------------------------------------------------------------------------
\* Type correctness.
TypeOK ==
    /\ storefile \in Blobs \cup {Missing, Empty, Torn}
    /\ tempfile \in Blobs \cup {Missing, Empty, Torn}
    /\ env \in {"present", "migrated"}
    /\ pc \in [Procs -> {"idle", "change", "write", "replace", "imported", "unlocked",
                         "resolved", "done", "failed"}]
    /\ ask \in [Procs -> Commands \cup {NoCommand}]
    /\ todo \in [Procs -> Seq(Changes)]
    /\ held \in [Procs -> Blobs \cup {Missing}] /\ next \in [Procs -> Blobs \cup {Missing}]
    /\ opened \in [Procs -> {"none", "temp", "store", "gone"}]
    /\ outcome \in [Procs -> {"none", "stored", "legacy", "refused"}]
    /\ stale \subseteq Procs /\ shared \in BOOLEAN

\* A process in the middle of its command knows what it has to do and what it writes.
ChangesInHand ==
    \A p \in Procs :
        /\ pc[p] \in {"change", "write", "replace"} => todo[p] # <<>>
        /\ pc[p] \in {"change", "write", "replace", "imported", "unlocked"} => held[p] # Missing
        /\ pc[p] \in {"write", "replace"} => next[p] = Apply(Head(todo[p]), held[p])
        /\ outcome[p] # "none" => ask[p].op = "resolve" /\ pc[p] \in {"unlocked", "resolved"}

\* The temporary file belongs to one process at a time.
TempIsOwned ==
    ~shared =>
        /\ Readable(storefile)
        /\ \A p, q \in Procs :
              pc[p] \in {"write", "replace"} /\ pc[q] \in {"write", "replace"} => p = q
        /\ \A p \in Procs :
              /\ opened[p] = IF pc[p] = "write" THEN "temp" ELSE "none"
              /\ pc[p] = "write" => tempfile = Empty
              /\ pc[p] = "replace" => tempfile = next[p]

\* What a process has in memory is what the file holds, unless it was replaced.
HeldIsCurrent ==
    ~shared => \A p \in Procs \ stale :
        /\ pc[p] \in {"change", "write", "replace", "imported", "unlocked"} =>
             held[p] = Unlocked(storefile, held[p].password)
        /\ outcome[p] = "legacy" =>
             storefile = Missing \/ storefile.data[ask[p].name] = Absent

\* The value that the last of the first k lines of .env with that name has.
Imported(k, s) ==
    \A i \in 1 .. k :
        (\A j \in i + 1 .. k : Legacy[j].name # Legacy[i].name) =>
            s.data[Legacy[i].name] = Legacy[i].value

ImportsInOrder ==
    \A p \in Procs :
        /\ pc[p] = "imported" => Imported(Len(Legacy), held[p])
        /\ ask[p].op = "migrate" /\ pc[p] \in {"change", "write", "replace"} =>
             \E k \in 0 .. Len(Legacy) :
                /\ todo[p] = SubSeq(Legacy, k + 1, Len(Legacy))
                /\ Imported(k, held[p])

\* The inductive invariant.
StoreInv ==
    TypeOK /\ ChangesInHand /\ TempIsOwned /\ HeldIsCurrent /\ ImportsInOrder

\* secrets.enc is a whole store at every moment, whichever processes die and
\* whatever they leave behind, as long as no two of them write the temporary file
\* at once (_persist writes beside the file and renames).
StoreReadable == ~shared => Readable(storefile)

\* secrets.enc changes only by a rename, and then by what one command asked of what
\* the file held at that moment, unless the file was replaced between that command's
\* reading and its writing (set, delete and with_password keep the rest).
ChangesAreAsked ==
    [][storefile' # storefile /\ ~shared =>
         \E p \in Procs :
            /\ pc[p] = "replace"
            /\ \/ p \in stale
               \/ storefile' = Apply(Head(todo[p]), Unlocked(storefile, held[p].password))
      ]_secretsVars

\* .env is renamed only when every secret in it is in the store, though imports are
\* written one by one and may be cut short (migrate_legacy_env: nothing is lost).
MigrationComplete ==
    [][env' # env /\ ~shared =>
         \E p \in Procs : pc[p] = "imported" /\ (p \in stale \/ Imported(Len(Legacy), storefile))
      ]_secretsVars

\* A look-up turns to the environment only if the store has no such secret: a wrong
\* password is not a missing secret (config._resolve_secret), and a store that is
\* being replaced is never found unreadable.
LegacyOnlyWithoutSecret ==
    \A p \in Procs \ stale : outcome[p] = "legacy" /\ ~shared =>
        storefile = Missing \/ storefile.data[ask[p].name] = Absent
=============================================================================

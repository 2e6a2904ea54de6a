---------------------------- MODULE PrismTargets ----------------------------
(***************************************************************************)
(* Which Prism Central a call reaches.  config.yaml lists the targets      *)
(* (config.py); the setup wizard of cli/init.py rewrites it, in place; a   *)
(* process reads it once, when its first call asks for a connection, and   *)
(* goes by what it read for the rest of its life (mcp_server/_shared.py,   *)
(* ConnectionManager).  Every command of the CLI is a process of its own;  *)
(* the MCP server serves its calls from several threads.                   *)
(***************************************************************************)
EXTENDS Naturals

CONSTANTS Names,      \* names of targets
          Hosts,      \* Prism Centrals, by the address they are reached at
          Procs,      \* processes
          Wizards,    \* runs of the setup wizard
          Omitted,    \* the target argument left out
          NoBook,     \* a process that has read no configuration
          NoHost,     \* no Prism Central
          FirstBooks, \* the configurations there may be at first
          Size,       \* targets in such a configuration at most
          MaxEdits    \* targets entered in a behaviour

Entries == [name : Names, host : Hosts]

\* A configuration gives its targets lines, which say in what order the file
\* lists them.
Lines == 1 .. Size + MaxEdits
BooksOn(lines) == UNION {[taken -> Entries] : taken \in SUBSET lines}
Books == BooksOn(Lines)
Empty == [k \in {} |-> NoHost]

ASSUME TargetsAssumption ==
    /\ Omitted \notin Names /\ NoHost \notin Hosts
    /\ Size \in Nat /\ MaxEdits \in Nat
    /\ FirstBooks \subseteq BooksOn(1 .. Size)

VARIABLES file,        \* the targets in config.yaml
          whole,       \* whether the file is whole: a write empties it first
          book,        \* book[p]: the configuration process p goes by
          wiz,         \* wiz[w]: where wizard w is
          draft,       \* draft[w]: its list of targets
          basis,       \* basis[w]: the file as w last read or wrote it
          edits,
          overwritten, \* history: names entered again over an entry
          displaced,   \* history: whether such an entry was the first one
          disturbed    \* history: whether a wizard wrote over a file it had not seen

wizardVars == <<wiz, draft, basis, edits>>
editVars == <<overwritten, displaced, disturbed>>
targetsVars == <<file, whole, book, wizardVars, editVars>>

-----------------------------------------------------------------------------
Foremost(lines) == CHOOSE k \in lines : \A j \in lines : k <= j

\* default_target: the first entry.
DefaultHost(b) == IF DOMAIN b = {} THEN NoHost ELSE b[Foremost(DOMAIN b)].host

\* get_target: the first entry of that name.
Named(b, n) == {k \in DOMAIN b : b[k].name = n}
HostOf(b, n) == IF Named(b, n) = {} THEN NoHost ELSE b[Foremost(Named(b, n))].host

\* The default target is the one of that name.
Leads(b, n) == DOMAIN b # {} /\ b[Foremost(DOMAIN b)].name = n

\* connect: a session is kept per target, and the configuration of a manager
\* never changes, so a kept session goes where a new one would.
Addressed(b, t) == IF t = Omitted THEN DefaultHost(b) ELSE HostOf(b, t)

\* There is no config.yaml: one that was ever filled has a target.
Missing == whole /\ DOMAIN file = {}

\* load_config: a file that is being written reads as one without targets.
Contents == IF whole THEN file ELSE Empty

TargetsInit ==
    /\ file \in FirstBooks
    /\ whole = TRUE
    /\ book = [p \in Procs |-> NoBook]
    /\ wiz = [w \in Wizards |-> "idle"]
    /\ draft = [w \in Wizards |-> Empty]
    /\ basis = [w \in Wizards |-> Empty]
    /\ edits = 0
    /\ overwritten = {} /\ displaced = FALSE /\ disturbed = FALSE

-----------------------------------------------------------------------------
\* init_cmd reads the targets there are.
OpenWizard(w) ==
    /\ wiz[w] = "idle"
    /\ wiz' = [wiz EXCEPT ![w] = "asking"]
    /\ draft' = [draft EXCEPT ![w] = Contents]
    /\ basis' = [basis EXCEPT ![w] = Contents]
    /\ UNCHANGED <<file, whole, book, edits, editVars>>

\* Entries of that name are dropped; the new one goes to the end.
Entered(b, n, h, last) ==
    [k \in (DOMAIN b \ Named(b, n)) \cup {last} |->
        IF k = last THEN [name |-> n, host |-> h] ELSE b[k]]

\* A target is entered; write_text empties the file.
EnterTarget(w, n, h) ==
    /\ wiz[w] = "asking"
    /\ edits < MaxEdits
    /\ edits' = edits + 1
    /\ wiz' = [wiz EXCEPT ![w] = "writing"]
    /\ draft' = [draft EXCEPT ![w] = Entered(@, n, h, Size + edits')]
    /\ whole' = FALSE
    /\ overwritten' = IF Named(draft[w], n) # {} THEN overwritten \cup {n} ELSE overwritten
    /\ displaced' = (displaced \/ Leads(draft[w], n))
    /\ disturbed' = (disturbed \/ ~whole \/ file # basis[w])
    /\ UNCHANGED <<file, book, basis>>

\* ... and fills it; the wizard asks for another target.
FillFile(w) ==
    /\ wiz[w] = "writing"
    /\ wiz' = [wiz EXCEPT ![w] = "asking"]
    /\ file' = draft[w]
    /\ whole' = TRUE
    /\ basis' = [basis EXCEPT ![w] = draft[w]]
    /\ UNCHANGED <<book, draft, edits, editVars>>

\* The operator has no more targets, or the wizard dies, perhaps in a write.
EndWizard(w) ==
    /\ wiz[w] \in {"asking", "writing"}
    /\ wiz' = [wiz EXCEPT ![w] = "over"]
    /\ draft' = [draft EXCEPT ![w] = Empty]
    /\ basis' = [basis EXCEPT ![w] = Empty]
    /\ UNCHANGED <<file, whole, book, edits, editVars>>

Wizard ==
    \E w \in Wizards :
        \/ OpenWizard(w) \/ FillFile(w) \/ EndWizard(w)
        \/ \E n \in Names, h \in Hosts : EnterTarget(w, n, h)

-----------------------------------------------------------------------------
TargetsTypeOK ==
    /\ file \in Books /\ whole \in BOOLEAN
    /\ book \in [Procs -> Books \cup {NoBook}]
    /\ wiz \in [Wizards -> {"idle", "asking", "writing", "over"}]
    /\ draft \in [Wizards -> Books] /\ basis \in [Wizards -> Books]
    /\ edits \in 0 .. MaxEdits
    /\ overwritten \subseteq Names
    /\ displaced \in BOOLEAN /\ disturbed \in BOOLEAN

\* The targets over which none was entered.
Stable == {t \in Names \cup {Omitted} : IF t = Omitted THEN ~displaced ELSE t \notin overwritten}

\* What a look-up of one of these found in b it finds in the configuration f.
Follows(targets, b, f) ==
    \A t \in targets : Addressed(b, t) # NoHost => Addressed(f, t) = Addressed(b, t)

\* Lines are given in turn, so a new target has the last one.
LinesInTurn ==
    \A b \in {file} \cup {draft[w] : w \in Wizards} : b \in BooksOn(1 .. Size + edits)

\* A wizard that met no other asks over what the file says, and is the only one
\* to write.
WizardsInTurn ==
    /\ \A w \in Wizards : wiz[w] = "asking" => draft[w] = basis[w]
    /\ ~disturbed =>
          \A w \in Wizards : wiz[w] = "writing" =>
              /\ ~whole /\ Follows(Stable, file, draft[w])
              /\ \A v \in Wizards : wiz[v] = "writing" => v = w
=============================================================================

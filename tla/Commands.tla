------------------------------- MODULE Commands -------------------------------
(* The commands of an application and their shortcuts (ui/command.rs), with the spelling    *)
(* of keys (keymap.rs): a registry grows by one command after another and refuses one that  *)
(* conflicts, a view is refused whose nested scopes share a key, commands are enabled and   *)
(* disabled, and a key runs the first command that applies where the focus is.              *)
(* A key is a code and its modifiers; of the letters there is one, small and capital.  Left *)
(* out: names of keys and how a column of a table is split, limits of identities and lists. *)
EXTENDS Integers, Sequences, SequencesExt, FiniteSetsExt

CONSTANTS Spellings,     \* how shortcuts are written
          Presses,       \* what terminals send
          Application, Scopes,  \* the scope of a whole application, nodes that are scopes
          Trees,         \* views: who is the parent of whom, among nodes that are mounted
          MaxCommands

Codes == {"d", "D", "tab", "backtab", "f1"}
CommandsAssumption ==
  /\ Spellings \cup Presses \subseteq [code : Codes, mods : SUBSET {"shift", "ctrl"}]
  /\ \A t \in Trees : t \in [DOMAIN t -> DOMAIN t \cup {Application}]
  /\ MaxCommands \in Nat

VARIABLES commands,  \* Registry: commands in the order they were registered
          tree,      \* the View
          table      \* the same shortcuts in a table of bindings (Keymap)
commandVars == <<commands, tree, table>>

Letters == {"d", "D"}
Upper(code) == IF code = "d" THEN "D" ELSE code
Key(code, mods) == [code |-> code, mods |-> mods]

\* KeySpec::parse: shift is in a capital letter and in a tab that goes back.
Parse(s) ==
  IF "shift" \notin s.mods \/ s.code \notin Letters \cup {"tab"} THEN s
  ELSE Key(IF s.code = "tab" THEN "backtab" ELSE Upper(s.code), s.mods \ {"shift"})

\* KeySpec::matches: whether a terminal also reports shift does not matter then.
Matches(spec, k) ==
  LET Shiftless(mods) == IF spec.code \in Letters \cup {"backtab"} THEN mods \ {"shift"} ELSE mods
  IN k.code = spec.code /\ Shiftless(k.mods) = Shiftless(spec.mods)

\* normalise: what a terminal sends, spelled as parse does.
Normalised(k) ==
  CASE "shift" \in k.mods /\ k.code = "tab" -> Key("backtab", k.mods \ {"shift"})
    [] "shift" \in k.mods /\ k.code \in Letters -> Key(Upper(k.code), k.mods)
    [] OTHER -> k

(* The registry *)

Bound(cs) == UNION {{<<n, k>> : k \in cs[n].keys} : n \in DOMAIN cs}
Overlap(a, b) == a = b \/ a = Application \/ b = Application

\* (mutant) only commands of one scope conflict
ConflictsWithin(cs, c) == \E b \in Bound(cs) : b[2] \in c.keys /\ cs[b[1]].scope = c.scope
\* Registry::new: a key that another command has where both could apply.
Conflicts(cs, c) == \E b \in Bound(cs) : b[2] \in c.keys /\ Overlap(cs[b[1]].scope, c.scope)

\* Node and ancestors, the scopes that a key is resolved in when it is focused.
Ancestry(t, node) ==
  LET up[n \in DOMAIN t] == IF t[n] = Application THEN {n} ELSE {n} \cup up[t[n]]
  IN IF node \in DOMAIN t THEN up[node] ELSE {}

\* validate_view: nested scopes that are mounted share no key.
NestedShare(cs, t) ==
  \E a, b \in Bound(cs) :
    LET s == cs[a[1]].scope
        u == cs[b[1]].scope
    IN /\ a # b /\ a[2] = b[2] /\ Application \notin {s, u}
       /\ u \in Ancestry(t, s) \/ s \in Ancestry(t, u)
Accepted(cs, t) == ~NestedShare(cs, t)

Applies(c, t, focus) == c.enabled /\ (c.scope = Application \/ c.scope \in Ancestry(t, focus))
Matching(cs, k) == {b[1] : b \in {x \in Bound(cs) : Matches(x[2], k)}}
Candidates(cs, t, k, focus) == {n \in Matching(cs, k) : Applies(cs[n], t, focus)}
\* Registry::resolve, and Keymap::resolve: the first in the order they were written.
Resolve(cs, t, k, focus) ==
  LET on == Candidates(cs, t, k, focus) IN IF on = {} THEN 0 ELSE Min(on)
TableResolve(entries, k) ==
  LET on == {n \in DOMAIN entries : Matches(entries[n], Normalised(k))}
  IN IF on = {} THEN 0 ELSE Min(on)

CommandsInit == commands = <<>> /\ tree \in Trees /\ table = <<>>

Register ==
  /\ Len(commands) < MaxCommands
  /\ \E spelled \in {s \in SUBSET Spellings : s # {} /\ Cardinality(s) <= 2}, scope \in Scopes \cup {Application} :
       LET c == [keys |-> {Parse(s) : s \in spelled}, scope |-> scope, enabled |-> TRUE]
       IN /\ ~Conflicts(commands, c) /\ Cardinality(c.keys) = Cardinality(spelled)
          /\ Accepted(Append(commands, c), tree)
          /\ commands' = Append(commands, c)
          /\ table' = table \o SetToSeq(c.keys)
  /\ UNCHANGED tree

\* set_enabled, or a registry that differs in what is enabled.
Enable == /\ \E n \in DOMAIN commands : commands' = [commands EXCEPT ![n].enabled = ~@]
          /\ UNCHANGED <<tree, table>>

Mount == /\ tree' \in Trees /\ Accepted(commands, tree') /\ UNCHANGED <<commands, table>>

CommandsNext == Register \/ Enable \/ Mount

CommandsSpec == CommandsInit /\ [][CommandsNext]_commandVars

(* Properties *)

\* A key means one thing: wherever the focus is, at most one enabled command applies to it,
\* so the order of the registry does not matter ("ambiguous bindings are errors",
\* command.rs:81), whatever is mounted and enabled later.
OneMeaning ==
  \A k \in Presses, focus \in DOMAIN tree : Cardinality(Candidates(commands, tree, k, focus)) <= 1

\* Both spellings that a terminal may send reach the same entry of a table, the one that
\* was written for them, and a registry finds whatever the table finds if the key comes as
\* parse spells it.
TableAgrees ==
  /\ \A k \in Presses : TableResolve(table, k) = TableResolve(table, Normalised(k))
  /\ \A s \in Spellings :
       Parse(s) \in Range(table) => TableResolve(table, s) # 0 /\ Matching(commands, Normalised(s)) # {}

\* "a binding works in one terminal and not the next" (keymap.rs:246) is what normalise is
\* there to prevent; a registry does not use it (README.md, section 3).
RegistryAgrees ==
  \A k \in Presses, focus \in DOMAIN tree :
    Resolve(commands, tree, k, focus) = Resolve(commands, tree, Normalised(k), focus)
=============================================================================

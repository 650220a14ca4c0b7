---------------------------- MODULE SymbolTable ----------------------------
(***************************************************************************)
(* Name lookup.  The semantic pass keeps a SymbolTable, a stack of scopes  *)
(* searched from the innermost outwards; the IR generator keeps its own    *)
(* stack of identifier layers.  A scope and a layer are functions whose    *)
(* domain is the set of names they hold.                                   *)
(***************************************************************************)
EXTENDS Integers, Sequences

EmptyScope == [n \in {} |-> {}]
\* A stack of scopes that map some of Names into V.
IsStackOf(stack, Names, V) ==
    /\ stack \in Seq({stack[i] : i \in DOMAIN stack})
    /\ \A i \in DOMAIN stack : \A n \in DOMAIN stack[i] : n \in Names /\ stack[i][n] \in V

\* std::map::operator[]= : bind n, replacing what the map holds for it.
Bind(map, n, v) ==
    [m \in DOMAIN map \cup {n} |-> IF m = n THEN v ELSE map[m]]

\* std::map::insert : bind n unless the map already holds it.
Insert(map, n, v) == IF n \in DOMAIN map THEN map ELSE Bind(map, n, v)

NewTable == <<EmptyScope>>
PushScope(table) == Append(table, EmptyScope)
PopScope(table) == SubSeq(table, 1, Len(table) - 1)

AddToScope(table, n, symbol) ==
    [table EXCEPT ![Len(table)] = Insert(table[Len(table)], n, symbol)]

\* Callers make sure that there is a parent: .at() throws otherwise.
AddToParentScope(table, n, symbol) ==
    [table EXCEPT ![Len(table) - 1] = Insert(table[Len(table) - 1], n, symbol)]

HasOrd(table, n) == \E i \in DOMAIN table : n \in DOMAIN table[i]

\* The symbol of the innermost scope that holds n.
GetOrd(table, n) ==
    LET i == CHOOSE i \in DOMAIN table :
                 /\ n \in DOMAIN table[i]
                 /\ \A j \in DOMAIN table : n \in DOMAIN table[j] => j <= i
    IN table[i][n]
=============================================================================

------------------------------ MODULE TypedefNames ------------------------------
(***************************************************************************)
(* Typedef names: lexer.l asks TypedefTable what an identifier is at the   *)
(* moment it is scanned; the parser, one token behind, fills the table and *)
(* keeps its scopes.  The parser is bison's, for the part of the grammar   *)
(* where it matters what a name is: it reads the next token when what it   *)
(* has shifted leaves a choice, and reduces without it otherwise.  The     *)
(* author of the program knows what the names are, and writes what C's     *)
(* grammar allows (so he declares no name again that is a typedef name).   *)
(***************************************************************************)
EXTENDS Integers, Sequences, FiniteSets

CONSTANTS
    Name,     \* identifiers
    NoName,   \* of a token that is none
    MaxDepth  \* bound on the nesting of blocks

ASSUME NameAssumption == NoName \notin Name
ASSUME DepthAssumption == MaxDepth \in Nat

VARIABLES
    author,    \* the place up to which the text is written and scanned
    cScopes,   \* the typedef names declared in each open scope, as C has it
    parser,    \* the place up to which its tokens are shifted
    scopes,    \* TypedefTable::_scopes
    lookahead  \* the token that is scanned and not yet shifted

vars == <<author, cScopes, parser, scopes, lookahead>>

-----------------------------------------------------------------------------
(* The grammar *)

NameKind == {"IDENTIFIER", "TYPE_NAME"}
\* `()` stands for a list of parameters, `int` for every type but a name.
OtherKind == {"typedef", "int", "*", ",", "()", ";", "{", "}"}

\* A place: where in a declaration or statement, what each open block has come
\* to, whether the declaration is a typedef and the names it declares so far.
Place(at, blocks, isTypedef, declares) ==
    [at |-> at, blocks |-> blocks, isTypedef |-> isTypedef, declares |-> declares]
Start == Place("item", <<>>, FALSE, {})

Last(s) == s[Len(s)]
Front(s) == SubSeq(s, 1, Len(s) - 1)
InBlock(p) == p.blocks # <<>>
MayDeclare(p) == InBlock(p) => Last(p.blocks) = "declarations"

\* Where a token may come, and where it leads.
Before(kind) ==
    CASE kind = "typedef" -> {"item"}
      [] kind \in {"int", "TYPE_NAME"} -> {"item", "storage"}
      [] kind = "*" -> {"specifiers", "use"}
      [] kind = "IDENTIFIER" -> {"specifiers", "pointer", "comma", "item", "operand"}
      [] kind = "," -> {"declared", "function"}
      [] kind = "()" -> {"declared"}
      [] kind = ";" -> {"declared", "function", "entered", "use"}
      [] kind = "{" -> {"function", "item"}
      [] kind = "}" -> {"item"}
Reached(p, kind) ==
    CASE kind = "typedef" -> "storage"
      [] kind \in {"int", "TYPE_NAME"} -> "specifiers"
      [] kind = "*" -> IF p.at = "use" THEN "operand" ELSE "pointer"
      [] kind = "IDENTIFIER" -> IF p.at \in {"item", "operand"} THEN "use" ELSE "declared"
      [] kind = "," -> "comma"
      [] kind = "()" -> "function"
      [] kind = ";" -> "item"
      [] kind = "{" -> "opened"
      [] kind = "}" -> "closed"

\* Declarations come first in a block, statements are in blocks, and a function
\* is defined at the top of the file.
Legal(p, kind) ==
    /\ p.at \in Before(kind)
    /\ p.at = "item" /\ kind \in {"typedef", "int", "TYPE_NAME"} => MayDeclare(p)
    /\ p.at = "item" /\ kind \in {"IDENTIFIER", "{", "}"} => InBlock(p)
    /\ p.at = "function" /\ kind = "{" =>
        ~InBlock(p) /\ ~p.isTypedef /\ Cardinality(p.declares) = 1

\* The place after a token.
Blocks(p, kind) ==
    LET now == IF InBlock(p) /\ p.at = "item" /\ kind \in {"IDENTIFIER", "{"}
               THEN Append(Front(p.blocks), "statements") ELSE p.blocks
    IN CASE kind = "{" -> Append(now, "declarations")
         [] kind = "}" -> Front(p.blocks)
         [] OTHER -> now
After(p, kind, name) ==
    Place(Reached(p, kind), Blocks(p, kind),
          kind \notin {";", "{"} /\ (p.isTypedef \/ kind = "typedef"),
          IF kind \in {";", "{"} THEN {}
          ELSE p.declares \cup (IF Reached(p, kind) = "declared" /\ kind = "IDENTIFIER"
                                THEN {name} ELSE {}))

-----------------------------------------------------------------------------
(* TypedefTable *)

pushScope(s) == Append(s, {})
popScope(s) == Front(s)
addTypes(s, names) == [s EXCEPT ![Len(s)] = @ \cup names]
\* Mutant: only the innermost scope is searched.
isTypeInnermost(s, name) == name \in Last(s)
isType(s, name) == \E i \in DOMAIN s : name \in s[i]

(* C: a block's names end with it, and a typedef name is one from the end of *)
(* its declarator.                                                           *)
CKind(name) == IF \E i \in DOMAIN cScopes : name \in cScopes[i] THEN "TYPE_NAME" ELSE "IDENTIFIER"
CAfter(s, p, kind, name) ==
    CASE kind = "{" -> Append(s, {})
      [] kind = "}" -> Front(s)
      [] kind = "IDENTIFIER" /\ Reached(p, kind) = "declared" /\ p.isTypedef ->
            [s EXCEPT ![Len(s)] = @ \cup {name}]
      [] OTHER -> s

-----------------------------------------------------------------------------
(* Scanning and parsing *)

NoToken == [kind |-> "none", written |-> "none", name |-> NoName]
Settled(p) == IF p.at \in {"opened", "closed"} THEN [p EXCEPT !.at = "item"] ELSE p

Init ==
    /\ author = Start /\ cScopes = <<{}>>
    /\ parser = Start /\ scopes = <<{}>>
    /\ lookahead = NoToken

\* yylex(), called when the parser has no token and cannot go on without.
MayScan == lookahead = NoToken /\ parser.at \notin {"opened", "closed"}
Scan(kind, name, scanned) ==
    /\ MayScan /\ Legal(author, kind)
    /\ kind = "{" => Len(author.blocks) < MaxDepth
    /\ lookahead' = [kind |-> scanned, written |-> kind, name |-> name]
    /\ author' = Settled(After(author, kind, name))
    /\ cScopes' = CAfter(cScopes, author, kind, name)
    /\ UNCHANGED <<parser, scopes>>
\* {L}({L}|{D})*.  A declaration does not mention its own names again.
ScanName ==
    \E name \in Name \ author.declares :
        Scan(CKind(name), name, IF isType(scopes, name) THEN "TYPE_NAME" ELSE "IDENTIFIER")
ScanOther == \E kind \in OtherKind : Scan(kind, NoName, kind)

Shift ==
    /\ lookahead # NoToken /\ Legal(parser, lookahead.kind)
    /\ ~(lookahead.kind = ";" /\ parser.at \in {"declared", "function"})
    /\ parser' = After(parser, lookahead.kind, lookahead.name)
    /\ lookahead' = NoToken
    /\ UNCHANGED <<author, cScopes, scopes>>

\* Mutant: of a list of declarators, one is entered.
EnterFirstType ==
    /\ lookahead.kind = ";" /\ parser.at \in {"declared", "function"}
    /\ parser' = [parser EXCEPT !.at = "entered", !.isTypedef = FALSE, !.declares = {}]
    /\ scopes' = IF parser.isTypedef
                 THEN addTypes(scopes, {CHOOSE name \in parser.declares : TRUE}) ELSE scopes
    /\ UNCHANGED <<author, cScopes, lookahead>>
\* The action in the middle of `declaration`: the list of declarators has ended
\* because the next token is `;`.
EnterTypes ==
    /\ lookahead.kind = ";" /\ parser.at \in {"declared", "function"}
    /\ parser' = [parser EXCEPT !.at = "entered", !.isTypedef = FALSE, !.declares = {}]
    /\ scopes' = IF parser.isTypedef THEN addTypes(scopes, parser.declares) ELSE scopes
    /\ UNCHANGED <<author, cScopes, lookahead>>

\* compound_statement, after `{` and after `}`: there is nothing to choose.
OpenScope ==
    /\ parser.at = "opened"
    /\ parser' = Settled(parser) /\ scopes' = pushScope(scopes)
    /\ UNCHANGED <<author, cScopes, lookahead>>
\* Mutant: the scope stays.
CloseScopeNot ==
    /\ parser.at = "closed"
    /\ parser' = Settled(parser)
    /\ UNCHANGED <<author, cScopes, lookahead, scopes>>
CloseScope ==
    /\ parser.at = "closed"
    /\ parser' = Settled(parser) /\ scopes' = popScope(scopes)
    /\ UNCHANGED <<author, cScopes, lookahead>>

Next == ScanName \/ ScanOther \/ Shift \/ EnterTypes \/ OpenScope \/ CloseScope
Spec == Init /\ [][Next]_vars

-----------------------------------------------------------------------------
\* Every identifier is the token that C makes of it, although the table is
\* read one token ahead of the parser that writes it: after the last typedef of
\* a list, at both ends of a block, and for a name that is a type in one block
\* and a variable in another.
ClassifiedAsInC == lookahead.kind = lookahead.written

\* No valid text is rejected, and none is parsed as another: the parser follows
\* the author, and between two declarations or statements the table is C's.
ParsedAsWritten ==
    /\ lookahead # NoToken => Legal(parser, lookahead.kind)
    /\ lookahead = NoToken /\ parser.at = "item" => parser = author /\ scopes = cScopes

\* There is a scope for the file and one for each open block, never fewer (the
\* assertion in popScope(), the test in addType()) and never more.
ScopesMatchBlocks ==
    Len(scopes) = 1 + Len(parser.blocks) + (CASE parser.at = "opened" -> -1
                                              [] parser.at = "closed" -> 1
                                              [] OTHER -> 0)

-----------------------------------------------------------------------------
(* The inductive invariant behind them *)

At == {"item", "storage", "specifiers", "pointer", "comma", "declared", "function", "entered",
       "opened", "closed", "use", "operand"}
PlaceType ==
    [at : At, blocks : Seq({"declarations", "statements"}), isTypedef : BOOLEAN,
     declares : SUBSET Name]
Kind == NameKind \cup OtherKind
TokenType ==
    {NoToken} \cup {token \in [kind : Kind, written : Kind, name : Name \cup {NoName}] :
                        token.kind = "IDENTIFIER" => token.name \in Name}
TypeOK ==
    /\ author \in PlaceType /\ parser \in PlaceType
    /\ cScopes \in Seq(SUBSET Name) /\ scopes \in Seq(SUBSET Name)
    /\ lookahead \in TokenType

\* Outside of a declaration there is nothing left of the last one.
NothingDeclared(p) ==
    p.at \in {"item", "use", "operand", "entered", "opened", "closed"} =>
        ~p.isTypedef /\ p.declares = {}

\* What the parser still owes to the table: the types it is about to enter,
\* the scope it is about to open or close.
Entered(s, p) == IF p.isTypedef THEN addTypes(s, p.declares) ELSE s
Reduced(s, p) ==
    CASE p.at = "opened" -> pushScope(s)
      [] p.at = "closed" -> popScope(s)
      [] OTHER -> Entered(s, p)

\* The author is ahead of the parser by the lookahead and by what it owes.
InStep ==
    IF lookahead = NoToken
    THEN author = Settled(parser) /\ cScopes = Reduced(scopes, parser)
    ELSE /\ lookahead.kind = lookahead.written
         /\ parser.at \notin {"opened", "closed"} /\ Legal(parser, lookahead.kind)
         /\ author = Settled(After(parser, lookahead.kind, lookahead.name))
         /\ cScopes = CAfter(Entered(scopes, parser), parser, lookahead.kind, lookahead.name)
IndInv == TypeOK /\ ScopesMatchBlocks /\ NothingDeclared(parser) /\ InStep
=============================================================================

----------------------------- MODULE TypedefProofs -----------------------------
(***************************************************************************)
(* Proofs about TypedefNames, for every set of names and any nesting of    *)
(* blocks: the lexer takes every identifier for what C takes it, although  *)
(* it asks a table that the parser fills one token later.                  *)
(***************************************************************************)
EXTENDS TypedefNames, SequenceTheorems, TLAPS

BlockState == {"declarations", "statements"}

-----------------------------------------------------------------------------
(* Sequences *)

LEMMA FrontShorter ==
    ASSUME NEW S, NEW s \in Seq(S), s # <<>>
    PROVE  Front(s) \in Seq(S) /\ Len(Front(s)) = Len(s) - 1 /\ Len(s) > 0
<1>1. Len(s) \in Nat \ {0}
  BY EmptySeq
<1>2. \A i \in 1 .. Len(s) - 1 : s[i] \in S
  BY <1>1
<1>3. /\ Front(s) \in Seq(S)
      /\ Len(Front(s)) = IF 1 <= Len(s) - 1 THEN Len(s) - 1 ELSE 0
  BY <1>1, <1>2, SubSeqProperties DEF Front
<1>4. Len(s) \in Nat /\ Len(s) > 0
  BY <1>1
<1>5. \A n \in Nat : n > 0 => (IF 1 <= n - 1 THEN n - 1 ELSE 0) = n - 1
  OBVIOUS
<1>6. Len(Front(s)) = Len(s) - 1
  BY <1>3, <1>4, <1>5
<1> QED
  BY <1>3, <1>4, <1>6

LEMMA AppendLonger ==
    ASSUME NEW S, NEW s \in Seq(S), NEW e \in S
    PROVE  Append(s, e) \in Seq(S) /\ Len(Append(s, e)) = Len(s) + 1
OBVIOUS

\* Entering types keeps the scopes.
LEMMA AddTypesShape ==
    ASSUME NEW s \in Seq(SUBSET Name), NEW names \in SUBSET Name, Len(s) > 0
    PROVE  /\ addTypes(s, names) \in Seq(SUBSET Name)
           /\ Len(addTypes(s, names)) = Len(s)
           /\ addTypes(s, {}) = s
           /\ \A n \in Name : addTypes(addTypes(s, names), {n}) = addTypes(s, names \cup {n})
<1>1. addTypes(s, names) \in Seq(SUBSET Name) /\ Len(addTypes(s, names)) = Len(s)
  BY DEF addTypes
<1>2. addTypes(s, {}) = s
  BY DEF addTypes
<1>3. ASSUME NEW n \in Name
      PROVE  addTypes(addTypes(s, names), {n}) = addTypes(s, names \cup {n})
  BY <1>1 DEF addTypes
<1> QED
  BY <1>1, <1>2, <1>3

LEMMA EnteredShape ==
    ASSUME NEW s \in Seq(SUBSET Name), NEW p \in PlaceType, Len(s) > 0
    PROVE  Entered(s, p) \in Seq(SUBSET Name) /\ Len(Entered(s, p)) = Len(s)
BY AddTypesShape DEF Entered, PlaceType

\* Only the names of the declaration under way are classified differently
\* before and after it is entered.
LEMMA SameNames ==
    ASSUME NEW s \in Seq(SUBSET Name), NEW p \in PlaceType, Len(s) > 0,
           NEW name \in Name \ p.declares
    PROVE  (\E i \in DOMAIN Entered(s, p) : name \in Entered(s, p)[i]) <=> isType(s, name)
<1>1. CASE ~p.isTypedef
  BY <1>1 DEF Entered, isType
<1>2. CASE p.isTypedef
  <2>1. DOMAIN addTypes(s, p.declares) = DOMAIN s
    BY DEF addTypes
  <2>2. \A i \in DOMAIN s :
            addTypes(s, p.declares)[i] = s[i] \/ addTypes(s, p.declares)[i] = s[i] \cup p.declares
    BY DEF addTypes
  <2> QED
    BY <1>2, <2>1, <2>2 DEF Entered, isType
<1> QED
  BY <1>1, <1>2 DEF PlaceType

-----------------------------------------------------------------------------
(* Places *)

\* A block more after `{`, one less after `}`.
LEMMA BlocksShape ==
    ASSUME NEW p \in PlaceType, NEW kind \in Kind, Legal(p, kind)
    PROVE  /\ Blocks(p, kind) \in Seq(BlockState)
           /\ kind = "{" => Len(Blocks(p, kind)) = Len(p.blocks) + 1
           /\ kind = "}" => Len(Blocks(p, kind)) = Len(p.blocks) - 1
           /\ kind \notin {"{", "}"} => Len(Blocks(p, kind)) = Len(p.blocks)
<1> DEFINE now == IF InBlock(p) /\ p.at = "item" /\ kind \in {"IDENTIFIER", "{"}
                  THEN Append(Front(p.blocks), "statements") ELSE p.blocks
<1>1. p.blocks \in Seq(BlockState)
  BY DEF PlaceType, BlockState
<1>2. now \in Seq(BlockState) /\ Len(now) = Len(p.blocks)
  <2>1. CASE InBlock(p) /\ p.at = "item" /\ kind \in {"IDENTIFIER", "{"}
    <3>1. /\ Front(p.blocks) \in Seq(BlockState)
          /\ Len(Front(p.blocks)) = Len(p.blocks) - 1 /\ Len(p.blocks) > 0
      BY <1>1, <2>1, FrontShorter DEF InBlock
    <3>2. "statements" \in BlockState
      BY DEF BlockState
    <3>3. /\ Append(Front(p.blocks), "statements") \in Seq(BlockState)
          /\ Len(Append(Front(p.blocks), "statements")) = Len(Front(p.blocks)) + 1
      BY <3>1, <3>2, AppendLonger
    <3>4. now = Append(Front(p.blocks), "statements")
      BY <2>1
    <3> HIDE DEF now
    <3> QED
      BY <1>1, <3>1, <3>3, <3>4
  <2>2. CASE ~(InBlock(p) /\ p.at = "item" /\ kind \in {"IDENTIFIER", "{"})
    BY <1>1, <2>2
  <2> QED
    BY <2>1, <2>2
<1>3. CASE kind = "{"
  <2>1. Blocks(p, kind) = Append(now, "declarations")
    BY <1>3 DEF Blocks
  <2>2. "declarations" \in BlockState
    BY DEF BlockState
  <2> HIDE DEF now
  <2>3. Append(now, "declarations") \in Seq(BlockState) /\ Len(Append(now, "declarations")) = Len(now) + 1
    BY <1>2, <2>2, AppendLonger
  <2> QED
    BY <1>2, <1>3, <2>1, <2>3
<1>4. CASE kind = "}"
  <2>1. p.blocks # <<>>
    BY <1>4 DEF Legal, Before, InBlock
  <2> QED
    BY <1>1, <1>4, <2>1, FrontShorter DEF Blocks
<1>5. CASE kind \notin {"{", "}"}
  <2>1. Blocks(p, kind) = now
    BY <1>5 DEF Blocks
  <2> QED
    BY <1>1, <1>2, <1>5, <2>1
<1> QED
  BY <1>3, <1>4, <1>5

LEMMA ReachedIsPlace ==
    ASSUME NEW p, NEW kind \in Kind
    PROVE  /\ Reached(p, kind) \in At
           /\ Reached(p, kind) = "opened" <=> kind = "{"
           /\ Reached(p, kind) = "closed" <=> kind = "}"
BY DEF Reached, Kind, NameKind, OtherKind, At

LEMMA AfterType ==
    ASSUME NEW p \in PlaceType, NEW kind \in Kind, NEW name, Legal(p, kind),
           kind = "IDENTIFIER" => name \in Name
    PROVE  After(p, kind, name) \in PlaceType
<1>1. p.isTypedef \in BOOLEAN /\ p.declares \in SUBSET Name
  BY DEF PlaceType
<1> QED
  BY <1>1, BlocksShape, ReachedIsPlace DEF After, Place, PlaceType, BlockState

\* A declaration is left behind when it ends.
LEMMA AfterNothing ==
    ASSUME NEW p \in PlaceType, NEW kind \in Kind, NEW name, Legal(p, kind), NothingDeclared(p)
    PROVE  NothingDeclared(After(p, kind, name))
<1>1. /\ After(p, kind, name).at = Reached(p, kind)
      /\ After(p, kind, name).isTypedef =
            (kind \notin {";", "{"} /\ (p.isTypedef \/ kind = "typedef"))
      /\ kind \in {";", "{"} => After(p, kind, name).declares = {}
      /\ Reached(p, kind) # "declared" /\ kind \notin {";", "{"} =>
            After(p, kind, name).declares = p.declares
  BY DEF After, Place
<1>2. CASE kind \in {";", "{"}
  BY <1>1, <1>2 DEF NothingDeclared
<1>3. CASE kind \in {"typedef", "int", "TYPE_NAME", ",", "()"}
  BY <1>1, <1>3 DEF NothingDeclared, Reached
<1>4. CASE kind = "*"
  BY <1>1, <1>4 DEF NothingDeclared, Reached, Legal, Before
<1>5. CASE kind = "IDENTIFIER"
  BY <1>1, <1>5 DEF NothingDeclared, Reached
<1>6. CASE kind = "}"
  BY <1>1, <1>6 DEF NothingDeclared, Legal, Before
<1> QED
  BY <1>2, <1>3, <1>4, <1>5, <1>6 DEF Kind, NameKind, OtherKind

\* Where no declaration ends with the token, what C makes of the scopes is what
\* the parser makes of them once it has shifted it.
LEMMA ShiftedScopes ==
    ASSUME NEW s \in Seq(SUBSET Name), NEW p \in PlaceType, NEW kind \in Kind, NEW name,
           kind = "IDENTIFIER" => name \in Name,
           Len(s) > 0, Legal(p, kind), NothingDeclared(p),
           ~(kind = ";" /\ p.at \in {"declared", "function"})
    PROVE  CAfter(Entered(s, p), p, kind, name) = Reduced(s, After(p, kind, name))
<1> DEFINE q == After(p, kind, name)
<1>1. /\ q.at = Reached(p, kind)
      /\ q.isTypedef = (kind \notin {";", "{"} /\ (p.isTypedef \/ kind = "typedef"))
      /\ q.declares = IF kind \in {";", "{"} THEN {}
                      ELSE p.declares \cup (IF Reached(p, kind) = "declared"
                                               /\ kind = "IDENTIFIER" THEN {name} ELSE {})
  BY DEF After, Place
<1> SUFFICES CAfter(Entered(s, p), p, kind, name) = Reduced(s, q)
  OBVIOUS
<1> HIDE DEF q
<1>2. p.declares \in SUBSET Name /\ p.isTypedef \in BOOLEAN
  BY DEF PlaceType
<1>3. Reduced(s, q) = CASE kind = "{" -> pushScope(s)
                        [] kind = "}" -> popScope(s)
                        [] OTHER -> Entered(s, q)
  <2>1. (q.at = "opened" <=> kind = "{") /\ (q.at = "closed" <=> kind = "}")
    <3>1. (Reached(p, kind) = "opened" <=> kind = "{") /\ (Reached(p, kind) = "closed" <=> kind = "}")
      BY ReachedIsPlace
    <3> QED
      BY <1>1, <3>1
  <2> QED
    BY <2>1 DEF Reduced
<1>4. CASE kind \in {"{", "}", ";"}
  <2>1. ~p.isTypedef
    BY <1>4 DEF Legal, Before, NothingDeclared
  <2> QED
    BY <1>1, <1>3, <1>4, <2>1 DEF CAfter, Entered, pushScope, popScope
<1>5. CASE kind = "IDENTIFIER" /\ Reached(p, kind) = "declared"
  <2>1. CASE p.isTypedef
    <3>1. q.isTypedef /\ q.declares = p.declares \cup {name}
      BY <1>1, <1>5, <2>1
    <3>2. Reduced(s, q) = addTypes(s, p.declares \cup {name})
      BY <1>3, <1>5, <3>1 DEF Entered
    <3>3. CAfter(Entered(s, p), p, kind, name) = addTypes(addTypes(s, p.declares), {name})
      BY <1>5, <2>1 DEF CAfter, Entered, addTypes
    <3> QED
      BY <1>2, <1>5, <3>2, <3>3, AddTypesShape
  <2>2. CASE ~p.isTypedef
    BY <1>1, <1>3, <1>5, <2>2 DEF CAfter, Entered
  <2> QED
    BY <1>2, <2>1, <2>2
<1>6. CASE kind = "typedef"
  <2>1. ~p.isTypedef /\ p.declares = {}
    BY <1>6 DEF Legal, Before, NothingDeclared
  <2>2. q.isTypedef /\ q.declares = {}
    BY <1>1, <1>6, <2>1
  <2> QED
    BY <1>3, <1>6, <2>1, <2>2, AddTypesShape DEF CAfter, Entered
<1>7. CASE /\ kind \notin {"{", "}", ";", "typedef"}
           /\ ~(kind = "IDENTIFIER" /\ Reached(p, kind) = "declared")
  <2>1. q.isTypedef = p.isTypedef /\ q.declares = p.declares
    BY <1>1, <1>2, <1>7
  <2> QED
    BY <1>3, <1>7, <2>1 DEF CAfter, Entered
<1> QED
  BY <1>4, <1>5, <1>6, <1>7

LEMMA SettledPlace ==
    ASSUME NEW p \in PlaceType
    PROVE  /\ Settled(p) \in PlaceType /\ Settled(p).at \notin {"opened", "closed"}
           /\ Settled(p).blocks = p.blocks /\ Settled(p).isTypedef = p.isTypedef
           /\ Settled(p).declares = p.declares
           /\ p.at \in {"opened", "closed"} => Settled(p).at = "item"
           /\ p.at \notin {"opened", "closed"} => Settled(p) = p
BY DEF Settled, PlaceType, At

LEMMA CAfterType ==
    ASSUME NEW s \in Seq(SUBSET Name), Len(s) > 0, NEW p, NEW kind \in Kind, NEW name,
           kind = "IDENTIFIER" => name \in Name
    PROVE  CAfter(s, p, kind, name) \in Seq(SUBSET Name)
<1>1. CASE kind = "{"
  <2>1. CAfter(s, p, kind, name) = Append(s, {})
    BY <1>1 DEF CAfter
  <2> QED
    BY <2>1, AppendLonger
<1>2. CASE kind = "}"
  <2>1. CAfter(s, p, kind, name) = Front(s)
    BY <1>2 DEF CAfter
  <2>2. s # <<>>
    OBVIOUS
  <2> QED
    BY <2>1, <2>2, FrontShorter
<1>3. CASE kind = "IDENTIFIER" /\ Reached(p, kind) = "declared" /\ p.isTypedef
  <2>1. CAfter(s, p, kind, name) = addTypes(s, {name})
    BY <1>3 DEF CAfter, addTypes
  <2>2. {name} \in SUBSET Name
    BY <1>3
  <2> QED
    BY <2>1, <2>2, AddTypesShape
<1>4. CASE /\ kind \notin {"{", "}"}
           /\ ~(kind = "IDENTIFIER" /\ Reached(p, kind) = "declared" /\ p.isTypedef)
  BY <1>4 DEF CAfter
<1> QED
  BY <1>1, <1>2, <1>3, <1>4

-----------------------------------------------------------------------------
(* The steps *)

LEMMA InitInv == Init => IndInv
<1> SUFFICES ASSUME Init PROVE IndInv
  OBVIOUS
<1> USE DEF Init, Start, Place
<1>1. <<{}>> \in Seq(SUBSET Name) /\ Len(<<{}>>) = 1 /\ Len(<<>>) = 0
  OBVIOUS
<1>2. Start \in PlaceType
  BY DEF PlaceType, At
<1>3. TypeOK
  BY <1>1, <1>2 DEF TypeOK, TokenType
<1>4. ScopesMatchBlocks
  BY <1>1 DEF ScopesMatchBlocks
<1>5. NothingDeclared(parser)
  BY DEF NothingDeclared
<1>6. InStep
  BY DEF InStep, Settled, Reduced, Entered
<1> QED
  BY <1>3, <1>4, <1>5, <1>6 DEF IndInv

\* There is always the scope of the file.
LEMMA SomeScope ==
    ASSUME IndInv
    PROVE  /\ parser.at # "opened" => Len(scopes) > 0
           /\ parser.at \notin {"opened", "closed"} => Len(scopes) = 1 + Len(parser.blocks)
           /\ parser.at = "opened" => Len(scopes) = Len(parser.blocks)
           /\ parser.at = "closed" => Len(scopes) = 2 + Len(parser.blocks)
<1>1. Len(scopes) \in Nat /\ Len(parser.blocks) \in Nat
  BY DEF IndInv, TypeOK, PlaceType
<1>2. CASE parser.at \notin {"opened", "closed"}
  <2>1. Len(scopes) = 1 + Len(parser.blocks) + 0
    BY <1>2 DEF IndInv, ScopesMatchBlocks
  <2> QED
    BY <1>1, <1>2, <2>1
<1>3. CASE parser.at = "closed"
  <2>1. Len(scopes) = 1 + Len(parser.blocks) + 1
    BY <1>3 DEF IndInv, ScopesMatchBlocks
  <2> QED
    BY <1>1, <1>3, <2>1
<1>4. CASE parser.at = "opened"
  <2>1. Len(scopes) = 1 + Len(parser.blocks) + (-1)
    BY <1>4 DEF IndInv, ScopesMatchBlocks
  <2> QED
    BY <1>1, <1>4, <2>1
<1> QED
  BY <1>2, <1>3, <1>4

LEMMA ScanStep ==
    ASSUME IndInv, NEW kind \in Kind, NEW name, NEW scanned, Scan(kind, name, scanned),
           kind \in NameKind => name \in Name \ author.declares,
           kind \notin NameKind => name = NoName /\ scanned = kind,
           kind \in NameKind =>
               /\ kind = CKind(name)
               /\ scanned = IF isType(scopes, name) THEN "TYPE_NAME" ELSE "IDENTIFIER"
    PROVE  IndInv'
<1>1. /\ parser.at \notin {"opened", "closed"} /\ parser \in PlaceType
      /\ author = parser /\ cScopes = Entered(scopes, parser)
  BY SettledPlace DEF IndInv, InStep, TypeOK, Reduced, Scan, MayScan
<1>2. scopes \in Seq(SUBSET Name) /\ Len(scopes) > 0
  BY <1>1, SomeScope DEF IndInv, TypeOK
<1>3. scanned = kind
  <2>1. CASE kind \in NameKind
    <3>1. (\E i \in DOMAIN cScopes : name \in cScopes[i]) <=> isType(scopes, name)
      BY <1>1, <1>2, <2>1, SameNames
    <3> QED
      BY <2>1, <3>1 DEF CKind
  <2> QED
    BY <2>1
<1>4. kind = "IDENTIFIER" => name \in Name
  BY DEF NameKind
<1>5. Legal(parser, kind)
  BY <1>1 DEF Scan
<1>6. /\ lookahead' = [kind |-> kind, written |-> kind, name |-> name]
      /\ author' = Settled(After(parser, kind, name))
      /\ cScopes' = CAfter(Entered(scopes, parser), parser, kind, name)
      /\ UNCHANGED <<parser, scopes>>
  BY <1>1, <1>3 DEF Scan
<1>7. lookahead' # NoToken
  BY <1>6 DEF NoToken, Kind, NameKind, OtherKind
<1>8. TypeOK'
  <2>1. author' \in PlaceType
    <3>1. After(parser, kind, name) \in PlaceType
      BY <1>1, <1>4, <1>5, AfterType
    <3> QED
      BY <1>6, <3>1, SettledPlace
  <2>2. cScopes' \in Seq(SUBSET Name)
    <3>1. Entered(scopes, parser) \in Seq(SUBSET Name) /\ Len(Entered(scopes, parser)) > 0
      BY <1>1, <1>2, EnteredShape
    <3> QED
      BY <1>4, <1>6, <3>1, CAfterType
  <2>3. lookahead' \in TokenType
    <3>1. name \in Name \cup {NoName}
      BY DEF NameKind
    <3> QED
      BY <1>4, <1>6, <3>1 DEF TokenType
  <2> QED
    BY <1>1, <1>2, <1>6, <2>1, <2>2, <2>3 DEF TypeOK
<1>9. ScopesMatchBlocks' /\ NothingDeclared(parser)'
  BY <1>6 DEF IndInv, ScopesMatchBlocks, NothingDeclared
<1>10. InStep'
  BY <1>1, <1>5, <1>6, <1>7 DEF InStep
<1> QED
  BY <1>8, <1>9, <1>10 DEF IndInv

LEMMA ScanNameStep == IndInv /\ ScanName => IndInv'
<1> SUFFICES ASSUME IndInv, NEW name \in Name \ author.declares,
                    Scan(CKind(name), name,
                         IF isType(scopes, name) THEN "TYPE_NAME" ELSE "IDENTIFIER")
             PROVE  IndInv'
  BY DEF ScanName
<1>1. CKind(name) \in NameKind /\ CKind(name) \in Kind
  BY DEF CKind, NameKind, Kind
<1> QED
  BY <1>1, ScanStep

LEMMA ScanOtherStep == IndInv /\ ScanOther => IndInv'
<1> SUFFICES ASSUME IndInv, NEW kind \in OtherKind, Scan(kind, NoName, kind)
             PROVE  IndInv'
  BY DEF ScanOther
<1>1. kind \in Kind /\ kind \notin NameKind
  BY DEF OtherKind, NameKind, Kind
<1> QED
  BY <1>1, ScanStep

LEMMA ShiftStep == IndInv /\ Shift => IndInv'
<1> SUFFICES ASSUME IndInv, Shift PROVE IndInv'
  OBVIOUS
<1> DEFINE kind == lookahead.kind
           name == lookahead.name
<1>1. /\ lookahead \in TokenType /\ lookahead # NoToken
      /\ parser \in PlaceType /\ scopes \in Seq(SUBSET Name)
  BY DEF IndInv, TypeOK, Shift
<1>2. kind \in Kind /\ (kind = "IDENTIFIER" => name \in Name)
  BY <1>1 DEF TokenType
<1>3. /\ parser.at \notin {"opened", "closed"} /\ Legal(parser, kind)
      /\ author = Settled(After(parser, kind, name))
      /\ cScopes = CAfter(Entered(scopes, parser), parser, kind, name)
      /\ NothingDeclared(parser)
  BY <1>1 DEF IndInv, InStep
<1>4. Len(scopes) > 0 /\ Len(scopes) = 1 + Len(parser.blocks)
  BY <1>3, SomeScope
<1>5. /\ parser' = After(parser, kind, name) /\ lookahead' = NoToken
      /\ UNCHANGED <<author, cScopes, scopes>>
      /\ ~(kind = ";" /\ parser.at \in {"declared", "function"})
  BY DEF Shift
<1> HIDE DEF kind, name
<1>6. parser' \in PlaceType
  BY <1>1, <1>2, <1>3, <1>5, AfterType
<1>7. TypeOK'
  BY <1>5, <1>6 DEF IndInv, TypeOK, TokenType
<1>8. ScopesMatchBlocks'
  <2>1. parser'.blocks = Blocks(parser, kind) /\ parser'.at = Reached(parser, kind)
    BY <1>5 DEF After, Place
  <2>2. /\ kind = "{" => Len(parser'.blocks) = Len(parser.blocks) + 1
        /\ kind = "}" => Len(parser'.blocks) = Len(parser.blocks) - 1
        /\ kind \notin {"{", "}"} => Len(parser'.blocks) = Len(parser.blocks)
    BY <1>1, <1>2, <1>3, <2>1, BlocksShape
  <2>3. (parser'.at = "opened" <=> kind = "{") /\ (parser'.at = "closed" <=> kind = "}")
    BY <1>2, <2>1, ReachedIsPlace
  <2>4. Len(scopes) \in Nat /\ Len(parser.blocks) \in Nat
    BY <1>1 DEF PlaceType
  <2>5. CASE kind = "{"
    <3>1. Len(scopes) = 1 + (Len(parser.blocks) + 1) + (-1)
      BY <1>4, <2>4
    <3> QED
      BY <1>5, <2>2, <2>3, <2>5, <3>1 DEF ScopesMatchBlocks
  <2>6. CASE kind = "}"
    <3>1. Len(scopes) = 1 + (Len(parser.blocks) - 1) + 1
      BY <1>4, <2>4
    <3> QED
      BY <1>5, <2>2, <2>3, <2>6, <3>1 DEF ScopesMatchBlocks
  <2>7. CASE kind \notin {"{", "}"}
    <3>1. Len(scopes) = 1 + Len(parser.blocks) + 0
      BY <1>4, <2>4
    <3> QED
      BY <1>5, <2>2, <2>3, <2>7, <3>1 DEF ScopesMatchBlocks
  <2> QED
    BY <2>5, <2>6, <2>7
<1>9. NothingDeclared(parser')
  BY <1>1, <1>2, <1>3, <1>5, AfterNothing
<1>10. InStep'
  <2>1. cScopes = Reduced(scopes, parser')
    BY <1>1, <1>2, <1>3, <1>4, <1>5, ShiftedScopes
  <2> QED
    BY <1>3, <1>5, <2>1 DEF InStep
<1> QED
  BY <1>7, <1>8, <1>9, <1>10 DEF IndInv

LEMMA EnterTypesStep == IndInv /\ EnterTypes => IndInv'
<1> SUFFICES ASSUME IndInv, EnterTypes PROVE IndInv'
  OBVIOUS
<1> DEFINE name == lookahead.name
<1>1. /\ lookahead.kind = ";" /\ parser.at \in {"declared", "function"}
      /\ parser' = [parser EXCEPT !.at = "entered", !.isTypedef = FALSE, !.declares = {}]
      /\ scopes' = Entered(scopes, parser)
      /\ UNCHANGED <<author, cScopes, lookahead>>
  BY DEF EnterTypes, Entered
<1>2. lookahead # NoToken
  <2>1. lookahead.kind = ";"
    BY <1>1
  <2>2. NoToken.kind # ";"
    BY DEF NoToken
  <2> QED
    BY <2>1, <2>2
<1>3. parser \in PlaceType /\ scopes \in Seq(SUBSET Name)
  BY DEF IndInv, TypeOK
<1>4. /\ parser' \in PlaceType /\ parser'.at = "entered" /\ parser'.blocks = parser.blocks
      /\ ~parser'.isTypedef /\ parser'.declares = {}
  BY <1>1, <1>3 DEF PlaceType, At
<1>5. Len(scopes) > 0 /\ Len(scopes) = 1 + Len(parser.blocks)
  BY <1>1, SomeScope
<1>6. scopes' \in Seq(SUBSET Name) /\ Len(scopes') = Len(scopes)
  BY <1>1, <1>3, <1>5, EnteredShape
<1>7. TypeOK'
  BY <1>1, <1>4, <1>6 DEF IndInv, TypeOK
<1>8. ScopesMatchBlocks'
  <2>1. Len(scopes') = 1 + Len(parser'.blocks) + 0
    <3>1. Len(parser.blocks) \in Nat
      BY <1>3 DEF PlaceType
    <3> QED
      BY <1>4, <1>5, <1>6, <3>1
  <2> QED
    BY <1>4, <2>1 DEF ScopesMatchBlocks
<1>9. NothingDeclared(parser')
  BY <1>4 DEF NothingDeclared
<1>10. InStep'
  <2>1. Legal(parser', ";")
    BY <1>4 DEF Legal, Before
  <2>2. After(parser, ";", name) = After(parser', ";", name)
    BY <1>1, <1>4 DEF After, Place, Reached, Blocks
  <2>3. author = Settled(After(parser, ";", name)) /\ lookahead.kind = lookahead.written
    BY <1>1, <1>2 DEF IndInv, InStep
  <2>4. cScopes = CAfter(Entered(scopes, parser), parser, ";", name)
    BY <1>1, <1>2 DEF IndInv, InStep
  <2>5. cScopes = scopes'
    BY <1>1, <2>4 DEF CAfter
  <2>6. CAfter(Entered(scopes', parser'), parser', ";", name) = scopes'
    BY <1>4 DEF CAfter, Entered
  <2> QED
    BY <1>1, <1>2, <1>4, <2>1, <2>2, <2>3, <2>5, <2>6 DEF InStep
<1> QED
  BY <1>7, <1>8, <1>9, <1>10 DEF IndInv

\* A scope is opened or closed while no token is read ahead.
LEMMA NothingAhead ==
    ASSUME IndInv, parser.at \in {"opened", "closed"}
    PROVE  /\ lookahead = NoToken /\ author = Settled(parser)
           /\ parser.at = "opened" => cScopes = pushScope(scopes)
           /\ parser.at = "closed" => cScopes = popScope(scopes)
           /\ ~parser.isTypedef
BY DEF IndInv, InStep, Reduced, NothingDeclared

\* Where the parser goes on once a scope is opened or closed.
LEMMA ScopeStep ==
    ASSUME IndInv, parser.at \in {"opened", "closed"}, parser' = Settled(parser),
           UNCHANGED <<author, cScopes, lookahead>>,
           scopes' = cScopes, Len(cScopes) = 1 + Len(parser.blocks)
    PROVE  IndInv'
<1>1. /\ lookahead = NoToken /\ author = parser'
      /\ ~parser.isTypedef /\ NothingDeclared(parser)
  BY NothingAhead DEF IndInv
<1>2. /\ parser' \in PlaceType /\ parser'.at = "item" /\ parser'.blocks = parser.blocks
      /\ parser'.isTypedef = parser.isTypedef /\ parser'.declares = parser.declares
  BY SettledPlace DEF IndInv, TypeOK
<1>3. TypeOK'
  BY <1>2 DEF IndInv, TypeOK
<1>4. ScopesMatchBlocks'
  <2>1. Len(parser.blocks) \in Nat
    BY DEF IndInv, TypeOK, PlaceType
  <2>2. Len(scopes') = 1 + Len(parser'.blocks) + 0
    BY <1>2, <2>1
  <2> QED
    BY <1>2, <2>2 DEF ScopesMatchBlocks
<1>5. NothingDeclared(parser')
  BY <1>1, <1>2 DEF NothingDeclared
<1>6. InStep'
  <2>1. Settled(parser') = parser'
    BY <1>2 DEF Settled
  <2>2. Reduced(scopes', parser') = scopes'
    BY <1>1, <1>2 DEF Reduced, Entered
  <2> QED
    BY <1>1, <2>1, <2>2 DEF InStep
<1> QED
  BY <1>3, <1>4, <1>5, <1>6 DEF IndInv

LEMMA OpenScopeStep == IndInv /\ OpenScope => IndInv'
<1> SUFFICES ASSUME IndInv, OpenScope PROVE IndInv'
  OBVIOUS
<1>1. /\ parser.at = "opened" /\ parser' = Settled(parser) /\ scopes' = pushScope(scopes)
      /\ UNCHANGED <<author, cScopes, lookahead>>
  BY DEF OpenScope
<1>2. cScopes = pushScope(scopes)
  BY <1>1, NothingAhead
<1>3. scopes \in Seq(SUBSET Name) /\ Len(parser.blocks) \in Nat
  BY DEF IndInv, TypeOK, PlaceType
<1>4. Len(pushScope(scopes)) = Len(scopes) + 1
  BY <1>3, AppendLonger DEF pushScope
<1>5. Len(scopes) = Len(parser.blocks)
  BY <1>1, SomeScope
<1>6. Len(cScopes) = 1 + Len(parser.blocks)
  BY <1>2, <1>3, <1>4, <1>5
<1> QED
  BY <1>1, <1>2, <1>6, ScopeStep

LEMMA CloseScopeStep == IndInv /\ CloseScope => IndInv'
<1> SUFFICES ASSUME IndInv, CloseScope PROVE IndInv'
  OBVIOUS
<1>1. /\ parser.at = "closed" /\ parser' = Settled(parser) /\ scopes' = popScope(scopes)
      /\ UNCHANGED <<author, cScopes, lookahead>>
  BY DEF CloseScope
<1>2. cScopes = popScope(scopes)
  BY <1>1, NothingAhead
<1>3. scopes \in Seq(SUBSET Name) /\ Len(parser.blocks) \in Nat
  BY DEF IndInv, TypeOK, PlaceType
<1>4. Len(scopes) = 2 + Len(parser.blocks) /\ Len(scopes) > 0
  BY <1>1, SomeScope
<1>5. scopes # <<>>
  BY <1>4
<1>6. Len(popScope(scopes)) = Len(scopes) - 1
  BY <1>3, <1>5, FrontShorter DEF popScope
<1>7. Len(cScopes) = 1 + Len(parser.blocks)
  BY <1>2, <1>3, <1>4, <1>6
<1> QED
  BY <1>1, <1>2, <1>7, ScopeStep

LEMMA NoStep == IndInv /\ UNCHANGED vars => IndInv'
BY DEF IndInv, vars, TypeOK, ScopesMatchBlocks, NothingDeclared, InStep

-----------------------------------------------------------------------------
\* What the parser has still to do to the table is all that the author, and C,
\* are ahead of it: a token read ahead never comes before the types or the scope
\* that it needs (lexer.l:75, parser.y:292 and 502).
THEOREM KeepsInStep == Spec => []IndInv
<1>1. IndInv /\ [Next]_vars => IndInv'
  BY ScanNameStep, ScanOtherStep, ShiftStep, EnterTypesStep, OpenScopeStep, CloseScopeStep,
     NoStep DEF Next
<1> QED
  BY <1>1, InitInv, PTL DEF Spec

\* lexer.l gives every identifier the kind of token that C gives it, whatever
\* the names, the order of the declarations and the nesting of the blocks.
THEOREM Classified == Spec => []ClassifiedAsInC
<1>1. IndInv => ClassifiedAsInC
  BY DEF IndInv, InStep, ClassifiedAsInC, NoToken
<1> QED
  BY <1>1, KeepsInStep, PTL

\* popScope() never removes the scope of the file, and addType() always has one.
THEOREM ScopesBalanced == Spec => []ScopesMatchBlocks
<1>1. IndInv => ScopesMatchBlocks
  BY DEF IndInv
<1> QED
  BY <1>1, KeepsInStep, PTL

\* Every text that C allows is accepted, token by token, with C's typedef names
\* in the table between two declarations or statements.
THEOREM Accepted == Spec => []ParsedAsWritten
<1>1. IndInv => ParsedAsWritten
  <2> SUFFICES ASSUME IndInv PROVE ParsedAsWritten
    OBVIOUS
  <2>1. lookahead # NoToken => Legal(parser, lookahead.kind)
    BY DEF IndInv, InStep
  <2>2. ASSUME lookahead = NoToken, parser.at = "item"
        PROVE  parser = author /\ scopes = cScopes
    <3>1. author = Settled(parser) /\ cScopes = Reduced(scopes, parser)
      BY <2>2 DEF IndInv, InStep
    <3>2. ~parser.isTypedef
      BY <2>2 DEF IndInv, NothingDeclared
    <3>3. Settled(parser) = parser
      BY <2>2 DEF Settled
    <3>4. Reduced(scopes, parser) = scopes
      BY <2>2, <3>2 DEF Reduced, Entered
    <3> QED
      BY <3>1, <3>3, <3>4
  <2> QED
    BY <2>1, <2>2 DEF ParsedAsWritten
<1> QED
  BY <1>1, KeepsInStep, PTL
=============================================================================

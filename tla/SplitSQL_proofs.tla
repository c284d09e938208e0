-------------------------- MODULE SplitSQL_proofs --------------------------
(***************************************************************************)
(* Proofs about splitSQL for scripts of any length and any set of letters. *)
(***************************************************************************)
EXTENDS SplitSQL, FiniteSetTheorems, SequenceTheorems, TLAPS

(* The flags exclude each other, whatever the script. *)
THEOREM SplitTypeCorrect == Spec => []TypeOK
<1>1. Init => TypeOK
  <2> SUFFICES ASSUME Init PROVE TypeOK
    OBVIOUS
  <2>1. text \in Seq(Runes) /\ Len(text) \in Nat
    BY RunesAssumption, LenProperties DEF Init
  <2>2. <<>> \in Seq(Runes) /\ into \in [Positions -> Nat]
    BY DEF Init
  <2>3. 1 \in 1..(Len(text) + 1)
    BY <2>1
  <2> QED BY <2>1, <2>2, <2>3 DEF Init, TypeOK, Positions
<1>2. TypeOK /\ [Next]_vars => TypeOK'
  <2> SUFFICES ASSUME TypeOK, [Next]_vars PROVE TypeOK'
    OBVIOUS
  <2> USE DEF TypeOK, Positions
  <2>1. CASE UNCHANGED vars
    BY <2>1 DEF vars, flags
  <2>2. ASSUME NEW i \in 1..(Len(text) + 1), Goto(i)
        PROVE  /\ text' = text /\ done' = done
               /\ pos' \in 1..(Len(text') + 1)
               /\ starts' \subseteq 1..(Len(text') + 1)
    BY <2>2 DEF Goto
  <2>3. ASSUME NEW a \in Int, NEW b \in Int, Write(a, b), text' = text
        PROVE  into' \in [Positions' -> Nat]
    BY <2>3 DEF Write
  <2>4. Reading => pos \in Positions /\ pos + 1 \in 1..(Len(text) + 1) /\ Len(text) \in Nat
    BY DEF Reading
  <2>5. CASE OpenLine
    <3>1. Goto(pos + 1)
      BY <2>5 DEF OpenLine
    <3> QED BY <2>2, <2>4, <2>5, <3>1 DEF OpenLine, OpensLine, MayComment, Outside
  <2>6. CASE OpenBlock
    <3>1. Goto(pos + 1)
      BY <2>6 DEF OpenBlock
    <3> QED BY <2>2, <2>4, <2>6, <3>1 DEF OpenBlock, OpensBlock, MayComment, Outside
  <2>7. CASE SkipComment
    <3>1. Goto(pos + 1)
      BY <2>7 DEF SkipComment
    <3> QED BY <2>2, <2>4, <2>7, <3>1 DEF SkipComment, flags
  <2>8. CASE CloseLine
    <3>1. Goto(pos + 1) /\ Write(pos, pos) /\ text' = text
      BY <2>8 DEF CloseLine, Goto
    <3>2. /\ inS' = inS /\ inD' = inD /\ inLine' = FALSE /\ inBlock' = inBlock
          /\ dollar' = dollar /\ out' = out
      BY <2>8 DEF CloseLine
    <3>3. into' \in [Positions' -> Nat]
      BY <2>3, <2>4, <3>1
    <3>4. /\ pos' \in 1..(Len(text') + 1) /\ done' = done /\ starts' \subseteq 1..(Len(text') + 1)
      BY <2>2, <2>4, <2>8, <3>1 DEF CloseLine
    <3> QED BY <3>1, <3>2, <3>3, <3>4
  <2>9. CASE CloseBlock
    <3>1. Goto(pos + 2) /\ pos + 2 \in 1..(Len(text) + 1)
      BY <2>4, <2>9 DEF CloseBlock, Two
    <3> QED BY <2>2, <2>4, <2>9, <3>1 DEF CloseBlock
  <2>10. CASE OpenDollar
    <3>1. PICK e \in Positions : /\ IsTag(pos, e)
                                 /\ dollar' = SubSeq(text, pos, e)
                                 /\ Write(pos, e)
                                 /\ Goto(e + 1)
      BY <2>10 DEF OpenDollar
    <3>2. e + 1 \in 1..(Len(text) + 1) /\ e \in Int /\ text' = text
      BY <3>1 DEF Goto
    <3>3. dollar' \in Seq(Runes)
      BY <2>4, <2>10, <3>1 DEF OpenDollar
    <3> QED BY <2>2, <2>3, <2>4, <2>10, <3>1, <3>2, <3>3
            DEF OpenDollar, OpensDollar, InComment
  <2>11. CASE CloseDollar
    <3>1. Goto(pos + ByteLen(dollar)) /\ TagAgainAt(pos) /\ text' = text
      BY <2>11 DEF CloseDollar, ClosesDollar, Goto
    <3>2. IsFiniteSet({k \in DOMAIN dollar : dollar[k] \in Wide})
      BY FS_Interval, FS_Subset
    <3>3. ByteLen(dollar) \in Nat
      BY <3>2, FS_CardinalityType DEF ByteLen
    <3>4. pos + ByteLen(dollar) \in 1..(Len(text) + 1)
      BY <2>4, <2>11, <3>1, <3>3 DEF TagAgainAt, CloseDollar
    <3>5. into' \in [Positions' -> Nat]
      BY <2>11, <3>1 DEF CloseDollar, Write
    <3> QED BY <2>2, <2>11, <3>1, <3>4, <3>5 DEF CloseDollar
  <2>12. CASE Quote
    <3>1. Goto(pos + 1) /\ Write(pos, pos) /\ text' = text
      BY <2>12 DEF Quote, Goto
    <3>2. /\ inLine' = inLine /\ inBlock' = inBlock /\ dollar' = dollar /\ out' = out
          /\ ~ inLine /\ ~ inBlock /\ dollar = <<>>
      BY <2>12 DEF Quote, IsSingle, IsDouble, InComment
    <3>3. /\ inS' \in BOOLEAN /\ inD' \in BOOLEAN /\ ~ (inS' /\ inD')
      <4>1. CASE IsSingle
        BY <2>12, <4>1 DEF Quote, IsSingle, IsDouble
      <4>2. CASE IsDouble
        BY <2>12, <4>2 DEF Quote, IsSingle, IsDouble
      <4> QED BY <2>12, <4>1, <4>2 DEF Quote
    <3>4. into' \in [Positions' -> Nat]
      BY <2>3, <2>4, <3>1
    <3>5. /\ pos' \in 1..(Len(text') + 1) /\ done' = done /\ starts' \subseteq 1..(Len(text') + 1)
      BY <2>2, <2>4, <2>12, <3>1 DEF Quote
    <3> QED BY <3>1, <3>2, <3>3, <3>4, <3>5
  <2>13. CASE Separate
    <3>1. Goto(pos + 1)
      BY <2>13 DEF Separate
    <3> QED BY <2>2, <2>4, <2>13, <3>1 DEF Separate, flags
  <2>14. CASE Copy
    <3>1. Goto(pos + 1) /\ Write(pos, pos) /\ text' = text
      BY <2>14 DEF Copy, Goto
    <3> QED BY <2>2, <2>3, <2>4, <2>14, <3>1 DEF Copy, flags
  <2>15. CASE Finish
    BY <2>15 DEF Finish, flags
  <2> QED BY <2>1, <2>5, <2>6, <2>7, <2>8, <2>9, <2>10, <2>11, <2>12, <2>13,
             <2>14, <2>15 DEF Next
<1> QED BY <1>1, <1>2, PTL DEF Spec

-----------------------------------------------------------------------------
(* The last statement: no position is written beyond the current one.      *)
WrittenSoFar ==
  /\ \A p \in Positions : into[p] <= out + 1
  /\ NothingLeftBehind

(* A rune that is not whitespace is in one of the statements handed to the  *)
(* database, for every script (NothingLeftBehind).                          *)
THEOREM TailIsKept == Spec => []NothingLeftBehind
<1>1. Init => WrittenSoFar
  BY DEF Init, WrittenSoFar, NothingLeftBehind
<1>2. TypeOK /\ WrittenSoFar /\ [Next]_vars => WrittenSoFar'
  <2> SUFFICES ASSUME TypeOK, WrittenSoFar, [Next]_vars PROVE WrittenSoFar'
    OBVIOUS
  <2> USE DEF WrittenSoFar, NothingLeftBehind, Positions
  <2>1. CASE UNCHANGED vars
    BY <2>1 DEF vars
  <2>2. ASSUME NEW a \in Int, NEW b \in Int, Write(a, b), text' = text, out' = out,
               ~ done'
        PROVE  WrittenSoFar'
    BY <2>2 DEF Write, TypeOK
  <2>3. ASSUME UNCHANGED <<into, out, text>>, ~ done' PROVE WrittenSoFar'
    BY <2>3
  <2>4. Reading => ~ done /\ pos \in Int
    BY DEF Reading, TypeOK
  <2>5. CASE OpenLine \/ OpenBlock \/ SkipComment \/ CloseBlock
    BY <2>3, <2>4, <2>5 DEF OpenLine, OpenBlock, SkipComment, CloseBlock, Goto
  <2>6. CASE CloseLine \/ Quote \/ Copy
    BY <2>2, <2>4, <2>6 DEF CloseLine, Quote, Copy, Goto
  <2>7. CASE OpenDollar
    BY <2>2, <2>4, <2>7 DEF OpenDollar, Goto
  <2>8. CASE CloseDollar
    <3>1. pos + Len(dollar) - 1 \in Int
      BY <2>4, <2>8, LenProperties DEF CloseDollar, TypeOK
    <3> QED BY <2>2, <2>4, <2>8, <3>1 DEF CloseDollar, Goto
  <2>9. CASE Separate
    BY <2>4, <2>9 DEF Separate, Goto, TypeOK
  <2>10. CASE Finish
    <3>1. /\ into' = into /\ text' = text /\ out \in Nat
          /\ \A p \in 1..Len(text) : into[p] \in Nat /\ into[p] <= out + 1
      BY <2>10 DEF Finish, TypeOK
    <3>2. CASE BlankRest
      <4>1. out' = out
        BY <2>10, <3>2 DEF Finish
      <4> QED BY <3>1, <3>2, <4>1 DEF BlankRest
    <3>3. CASE ~ BlankRest
      <4>1. out' = out + 1
        BY <2>10, <3>3 DEF Finish
      <4> QED BY <3>1, <4>1
    <3> QED BY <3>2, <3>3
  <2> QED BY <2>1, <2>5, <2>6, <2>7, <2>8, <2>9, <2>10 DEF Next
<1>3. WrittenSoFar => NothingLeftBehind
  BY DEF WrittenSoFar
<1> QED BY SplitTypeCorrect, <1>1, <1>2, <1>3, PTL DEF Spec

-----------------------------------------------------------------------------
(* The inductive invariant for regular scripts: the places where the scan   *)
(* was outside everything are token starts one after the other, and the     *)
(* token it is in, if any, has not ended yet.                               *)

End == Len(text) + 1
Last(i) == i \in starts /\ \A k \in starts : k <= i

(* The flags tell what the current token is. *)
Opened(i) ==
  /\ inS => text[i] = "sq"
  /\ inD => text[i] = "dq"
  /\ inLine => LineOpens(i)
  /\ inBlock => BlockOpens(i) /\ \A c \in (i + 2)..(pos - 1) : ~ Two(c, "*", "/")
  /\ dollar # <<>> =>
       \E e \in Positions : IsTag(i, e) /\ e < pos /\ dollar = SubSeq(text, i, e)

(* What has been read excludes an end up to here. *)
Horizon ==
  IF inBlock THEN pos + 1 ELSE IF dollar # <<>> THEN pos + Len(dollar) - 1 ELSE pos

Current ==
  IF Outside THEN pos \in starts
  ELSE \E i \in Positions :
         /\ Last(i) /\ i < pos /\ Opened(i)
         /\ \A k \in (i + 1)..End : k <= Horizon => ~ MayEnd(i, k)

Chained ==
  /\ 1 \in starts /\ starts \subseteq 1..pos
  /\ \A j \in starts \ {1} : \E i \in starts : i < j /\ TokenTo(i, j)
  /\ \A i, k \in starts : i < k => \E j \in starts : i < j /\ TokenTo(i, j)

Labelled ==
  /\ ~ done => out = Cardinality(SeparatorsBefore(pos))
  /\ \A p \in Positions :
       /\ p < pos /\ ~ LeftOut(p) => into[p] = StatementOf(p)
       /\ p < pos /\ LeftOut(p) => into[p] = 0
       /\ p >= pos => into[p] = 0

Scan == Current /\ Chained /\ Labelled /\ (done => pos = End)

(* The kinds of tokens exclude each other. *)
LEMMA LineEnds ==
  ASSUME TypeOK, NEW i \in Positions, NEW j \in Int, LineOpens(i)
  PROVE  MayEnd(i, j) <=> text[j - 1] = "nl"
  BY RunesAssumption DEF MayEnd, LineOpens, BlockOpens, ServerTag, TagOpens, Two, Quotes

(* A comment ends at a */, ... *)
LEMMA BlockEndsThere ==
  ASSUME TypeOK, NEW i \in Positions, NEW j \in Int, BlockOpens(i), MayEnd(i, j)
  PROVE  j >= i + 4 /\ Two(j - 2, "*", "/")
  BY RunesAssumption DEF MayEnd, LineOpens, BlockOpens, ServerTag, TagOpens, Two, Quotes

(* ... and without a comment inside at the first one. *)
LEMMA BlockEnds ==
  ASSUME TypeOK, Regular, NEW i \in Positions, i \in starts, NEW j \in Int, BlockOpens(i),
         j >= i + 4, Two(j - 2, "*", "/"),
         \A c \in (i + 2)..(j - 3) : ~ Two(c, "*", "/")
  PROVE  MayEnd(i, j)
<1>1. i \in Int /\ j <= Len(text) + 1 /\ Len(text) \in Nat
  BY DEF Positions, Two, TypeOK
<1>2. Closings(i, j) = {j - 2}
  BY <1>1 DEF Closings
<1>3. text[i] = "/" /\ text[i + 1] = "*" /\ text[j - 2] = "*" /\ ~ Nests(i)
  BY DEF BlockOpens, Two, Regular
<1>4. ASSUME NEW k \in i..(j - 2), k # i, Two(k, "/", "*"), text[k - 1] # "*"
      PROVE  FALSE
  <2>1. k # i + 1 /\ k # j - 2
    BY <1>3, <1>4 DEF Two
  <2>2. k \in (i + 2)..Len(text) /\ k <= j - 3 /\ k \in Int
    BY <1>1, <1>4, <2>1
  <2>3. PICK c \in (i + 2)..(k - 1) : Two(c, "*", "/")
    BY <1>3, <1>4, <2>2 DEF Nests
  <2>4. c \in (i + 2)..(j - 3)
    BY <1>1, <2>2, <2>3
  <2> QED BY <2>3, <2>4
<1>5. Openings(i, j) = {i}
  <2>1. i \in i..(j - 2) /\ Two(i, "/", "*")
    BY <1>1 DEF BlockOpens
  <2> QED BY <1>4, <2>1 DEF Openings
<1>6. Cardinality({i}) = 1 /\ Cardinality({j - 2}) = 1
  BY FS_Singleton
<1>7. Cardinality(Openings(i, j)) = Cardinality(Closings(i, j))
  BY <1>2, <1>5, <1>6
<1> QED BY <1>7 DEF MayEnd

LEMMA QuoteEnds ==
  ASSUME TypeOK, NEW i \in Positions, NEW j \in Int, text[i] \in Quotes
  PROVE  MayEnd(i, j) <=> j >= i + 2 /\ text[j - 1] = text[i]
  BY RunesAssumption DEF MayEnd, LineOpens, BlockOpens, ServerTag, TagOpens, Two, Quotes

(* Where splitSQL comes to a tag it is one of PostgreSQL's, and conversely. *)
LEMMA TagsAgree ==
  ASSUME TypeOK, Regular, NEW i \in Positions, i \in starts, NEW e \in Positions
  PROVE  IsTag(i, e) <=> ServerTag(i, e)
<1>1. ASSUME IsTag(i, e) PROVE ServerTag(i, e)
  BY <1>1 DEF Regular, IsTag, ServerTag
<1>2. ASSUME ServerTag(i, e) PROVE IsTag(i, e)
  <2>1. \A k \in i..e : text[k] \notin Wide
    BY <1>2 DEF Regular
  <2>2. i \in Int /\ e \in Int /\ \A k \in (i + 1)..(e - 1) : k \in i..e
    BY DEF Positions
  <2> QED BY <1>2, <2>1, <2>2 DEF IsTag, ServerTag
<1> QED BY <1>1, <1>2

(* A tag has one end. *)
LEMMA TagEnds ==
  ASSUME TypeOK, NEW i \in Positions, NEW e \in Positions, NEW j \in Int, ServerTag(i, e)
  PROVE  MayEnd(i, j) <=> /\ j > e + 1 + e - i
                          /\ SubSeq(text, j - 1 - (e - i), j - 1) = SubSeq(text, i, e)
<1>1. ASSUME NEW d \in Positions, ServerTag(i, d) PROVE d = e
  <2>1. d \in Int /\ e \in Int /\ i \in Int
    BY DEF Positions
  <2>2. "$" \notin Word \cup Wide
    <3>1. "$" \in Marks
      BY DEF Marks
    <3> QED BY <3>1, RunesAssumption
  <2>3. ~ (d < e)
    <3> SUFFICES ASSUME d < e PROVE FALSE
      OBVIOUS
    <3>1. d \in (i + 1)..(e - 1)
      BY <1>1, <2>1 DEF ServerTag
    <3> QED BY <1>1, <2>2, <3>1 DEF ServerTag
  <2>4. ~ (e < d)
    <3> SUFFICES ASSUME e < d PROVE FALSE
      OBVIOUS
    <3>1. e \in (i + 1)..(d - 1)
      BY <1>1, <2>1 DEF ServerTag
    <3> QED BY <1>1, <2>2, <3>1 DEF ServerTag
  <2> QED BY <2>1, <2>3, <2>4
<1>2. ~ LineOpens(i) /\ ~ BlockOpens(i) /\ text[i] \notin Quotes /\ TagOpens(i)
  BY DEF ServerTag, LineOpens, BlockOpens, Two, Quotes, TagOpens
<1> QED BY <1>1, <1>2 DEF MayEnd

LEMMA OtherEnds ==
  ASSUME TypeOK, NEW i \in Positions, NEW j \in Int,
         ~ LineOpens(i), ~ BlockOpens(i), text[i] \notin Quotes, ~ TagOpens(i)
  PROVE  MayEnd(i, j) <=> j = i + 1
  BY DEF MayEnd, TagOpens

(* What a text holds does not change while the text does not. *)
LEMMA SameText ==
  ASSUME text' = text
  PROVE  /\ Positions' = Positions
         /\ \A i, j \in Int : MayEnd(i, j)' <=> MayEnd(i, j)
         /\ \A i, j \in Int : TokenTo(i, j)' <=> TokenTo(i, j)
         /\ \A i : (LineOpens(i)' <=> LineOpens(i)) /\ (BlockOpens(i)' <=> BlockOpens(i))
         /\ \A i, e : IsTag(i, e)' <=> IsTag(i, e)
         /\ \A i, e : ServerTag(i, e)' <=> ServerTag(i, e)
         /\ \A i, p : Drops(i, p)' <=> Drops(i, p)
<1>1. Positions' = Positions
  BY DEF Positions
<1>2. \A i, e : ServerTag(i, e)' <=> ServerTag(i, e)
  BY DEF ServerTag
<1>t. \A i, e : IsTag(i, e)' <=> IsTag(i, e)
  BY DEF IsTag
<1>3. \A i : (LineOpens(i)' <=> LineOpens(i)) /\ (BlockOpens(i)' <=> BlockOpens(i))
  BY DEF LineOpens, BlockOpens, Two
<1>4. \A i, j \in Int : MayEnd(i, j)' <=> MayEnd(i, j)
  <2>1. \A i : TagOpens(i)' <=> TagOpens(i)
    BY <1>1, <1>2 DEF TagOpens
  <2>2. \A i, a, b : Two(i, a, b)' <=> Two(i, a, b)
    BY DEF Two
  <2> SUFFICES ASSUME NEW i \in Int, NEW j \in Int
               PROVE  MayEnd(i, j)' <=> MayEnd(i, j)
    OBVIOUS
  <2> DEFINE Again(e) == /\ ServerTag(i, e) /\ j > e + 1 + e - i
                         /\ SubSeq(text, j - 1 - (e - i), j - 1) = SubSeq(text, i, e)
  <2>3. \A e : Again(e)' <=> Again(e)
    BY <1>2
  <2>4. (\E e \in Positions' : Again(e)') <=> (\E e \in Positions : Again(e))
    BY <1>1, <2>3
  <2>5. (text[i] \in Quotes /\ j >= i + 2 /\ text[j - 1] = text[i])'
          <=> (text[i] \in Quotes /\ j >= i + 2 /\ text[j - 1] = text[i])
    BY DEF Quotes
  <2> DEFINE Ends(h, k) == /\ BlockOpens(h) /\ k >= h + 4 /\ Two(k - 2, "*", "/")
                           /\ Cardinality(Openings(h, k)) = Cardinality(Closings(h, k))
  <2>e. Ends(i, j)' <=> Ends(i, j)
    <3>1. Openings(i, j)' = Openings(i, j) /\ Closings(i, j)' = Closings(i, j)
      BY <2>2 DEF Openings, Closings
    <3> QED BY <1>3, <2>2, <3>1
  <2> HIDE DEF Again, Ends
  <2>6. MayEnd(i, j) <=>
          \/ LineOpens(i) /\ text[j - 1] = "nl"
          \/ Ends(i, j)
          \/ text[i] \in Quotes /\ j >= i + 2 /\ text[j - 1] = text[i]
          \/ \E e \in Positions : Again(e)
          \/ /\ ~ LineOpens(i) /\ ~ BlockOpens(i) /\ text[i] \notin Quotes /\ ~ TagOpens(i)
             /\ j = i + 1
    BY DEF MayEnd, Again, Ends
  <2>7. MayEnd(i, j)' <=>
          \/ LineOpens(i)' /\ (text[j - 1] = "nl")'
          \/ Ends(i, j)'
          \/ (text[i] \in Quotes /\ j >= i + 2 /\ text[j - 1] = text[i])'
          \/ \E e \in Positions' : Again(e)'
          \/ /\ ~ LineOpens(i)' /\ ~ BlockOpens(i)' /\ (text[i] \notin Quotes)' /\ ~ TagOpens(i)'
             /\ j = i + 1
    BY DEF MayEnd, Again, Ends
  <2>8. ((text[j - 1] = "nl")' <=> text[j - 1] = "nl")
        /\ ((text[i] \notin Quotes)' <=> text[i] \notin Quotes)
    BY DEF Quotes
  <2> QED BY <1>3, <2>1, <2>4, <2>5, <2>6, <2>7, <2>8, <2>e
<1>5. \A i, j \in Int : TokenTo(i, j)' <=> TokenTo(i, j)
  <2>1. \A i, j \in Int : \A k \in (i + 1)..(j - 1) : k \in Int
    OBVIOUS
  <2> QED BY <1>4, <2>1 DEF TokenTo
<1>6. \A i, p : Drops(i, p)' <=> Drops(i, p)
  BY <1>3 DEF Drops
<1> QED BY <1>1, <1>2, <1>t, <1>3, <1>4, <1>5, <1>6

LEMMA SameTag ==
  ASSUME text' = text, NEW i, NEW e
  PROVE  Positions' = Positions /\ (IsTag(i, e)' <=> IsTag(i, e))
  BY SameText

LEMMA SameComment ==
  ASSUME text' = text, NEW i
  PROVE  (LineOpens(i)' <=> LineOpens(i)) /\ (BlockOpens(i)' <=> BlockOpens(i))
  BY SameText

(* An iteration inside token i: it copies to the current statement the      *)
(* runes it passes that are not to be left out.                             *)
Advance(i) ==
  /\ ~ done /\ ~ done' /\ text' = text
  /\ i \in Positions /\ Last(i) /\ i <= pos /\ pos < pos' /\ pos' <= End
  /\ \A p \in Positions :
       /\ pos <= p /\ p < pos' /\ ~ Drops(i, p) => into'[p] = out + 1
       /\ p < pos \/ pos' <= p \/ Drops(i, p) => into'[p] = into[p]
  /\ out' = IF text[i] = "semi" THEN out + 1 ELSE out
  /\ text[i] = "semi" => i = pos /\ pos' = pos + 1

LEMMA LabelsKept ==
  ASSUME TypeOK, Chained, Labelled, NEW i \in Positions, Advance(i), pos' \in Int,
         starts' = starts \/ starts' = starts \cup {pos'}
  PROVE  Labelled'
<1>a. /\ ~ done /\ ~ done' /\ text' = text
      /\ Last(i) /\ i <= pos /\ pos < pos' /\ pos' <= End
      /\ out' = IF text[i] = "semi" THEN out + 1 ELSE out
      /\ text[i] = "semi" => i = pos /\ pos' = pos + 1
  BY DEF Advance
<1>b. \A p \in Positions :
        /\ pos <= p /\ p < pos' /\ ~ Drops(i, p) => into'[p] = out + 1
        /\ p < pos \/ pos' <= p \/ Drops(i, p) => into'[p] = into[p]
  BY DEF Advance
<1>c. Positions' = Positions /\ Positions \subseteq Int /\ i \in Int
  BY <1>a, SameText DEF Positions
<1>d. pos \in Int /\ out \in Nat /\ starts \subseteq 1..pos
  BY DEF TypeOK, Chained
<1>1. /\ pos \in Int /\ Positions' = Positions /\ Positions \subseteq Int
      /\ starts \subseteq 1..pos /\ i \in Int /\ i \in starts /\ out \in Nat
      /\ \A k \in starts : k <= i
      /\ i <= pos /\ pos < pos' /\ pos' \in Int /\ text' = text
      /\ text[i] = "semi" => i = pos
  BY <1>a, <1>c, <1>d DEF Last
<1>2. ASSUME NEW p \in Positions, p < pos'
      PROVE  /\ SeparatorsBefore(p)' = SeparatorsBefore(p)
             /\ \A h \in Positions : PartOf(h, p)' <=> PartOf(h, p)
  <2>1. \A h \in Int : h <= p => (h \in starts' <=> h \in starts)
    BY <1>1, <1>2
  <2>2. SeparatorsBefore(p)' = SeparatorsBefore(p)
    BY <1>1, <1>2 DEF SeparatorsBefore
  <2>3. ASSUME NEW h \in Positions PROVE PartOf(h, p)' <=> PartOf(h, p)
    BY <1>1, <2>1 DEF PartOf
  <2> QED BY <2>2, <2>3
<1>3. ASSUME NEW p \in Positions, p < pos'
      PROVE  (LeftOut(p)' <=> LeftOut(p)) /\ StatementOf(p)' = StatementOf(p)
  BY <1>1, <1>2, <1>3, SameText DEF LeftOut, StatementOf
<1>4. ASSUME NEW p \in Positions, pos <= p, p < pos'
      PROVE  LeftOut(p) <=> Drops(i, p)
  <2>1. PartOf(i, p)
    BY <1>1, <1>4 DEF PartOf, Last
  <2>2. ASSUME NEW h \in Positions, PartOf(h, p) PROVE h = i
    <3>1. h <= i
      BY <1>1, <2>2 DEF PartOf
    <3>2. ~ (h < i)
      <4> SUFFICES ASSUME h < i PROVE FALSE
        OBVIOUS
      <4>1. i \in (h + 1)..p
        BY <1>1, <1>4
      <4> QED BY <1>1, <2>2, <4>1 DEF PartOf
    <3> QED BY <1>1, <3>1, <3>2
  <2> QED BY <2>1, <2>2 DEF LeftOut
<1>5. ASSUME NEW p \in Int, pos <= p, text[i] # "semi"
      PROVE  SeparatorsBefore(p) = SeparatorsBefore(pos)
  <2>1. ASSUME NEW s \in starts, text[s] = "semi" PROVE s < pos
    <3>1. s \in 1..pos /\ s <= i
      BY <1>1 DEF Last
    <3>2. s # i
      BY <1>5, <2>1
    <3> QED BY <1>1, <3>1, <3>2
  <2>2. \A s \in starts : text[s] = "semi" => s < pos /\ s < p
    BY <1>1, <1>5, <2>1
  <2> QED BY <2>2 DEF SeparatorsBefore
<1>6. out' = Cardinality(SeparatorsBefore(pos)')
  <2>0. (\A s \in starts : s < pos') /\ (\A s \in starts' : s < pos' <=> s \in starts)
    <3>1. \A s \in starts : s \in Int /\ s <= pos
      BY <1>1
    <3>2. \A s \in starts : s < pos'
      BY <1>a, <1>d, <3>1
    <3>3. \A s \in starts' : s < pos' => s \in starts
      BY <1>a, <1>d
    <3>4. starts \subseteq starts'
      OBVIOUS
    <3> QED BY <3>2, <3>3, <3>4
  <2>1. SeparatorsBefore(pos)' = {s \in starts : text[s] = "semi"}
    BY <1>1, <2>0 DEF SeparatorsBefore
  <2>2. SeparatorsBefore(pos') = {s \in starts : text[s] = "semi"}
    BY <2>0 DEF SeparatorsBefore
  <2>3. CASE text[i] # "semi"
    BY <1>1, <1>a, <1>5, <2>1, <2>2, <2>3 DEF Labelled
  <2>4. CASE text[i] = "semi"
    <3>1. pos \in starts /\ text[pos] = "semi"
      BY <1>1, <2>4
    <3>2. SeparatorsBefore(pos') = SeparatorsBefore(pos) \cup {pos}
      <4>1. \A s \in starts : text[s] = "semi" => s < pos \/ s = pos
        BY <1>1
      <4> QED BY <1>1, <2>2, <3>1, <4>1 DEF SeparatorsBefore
    <3>3. pos \notin SeparatorsBefore(pos)
      BY <1>1 DEF SeparatorsBefore
    <3>4. IsFiniteSet(SeparatorsBefore(pos))
      <4>1. SeparatorsBefore(pos) \subseteq 1..pos
        BY <1>1 DEF SeparatorsBefore
      <4>2. IsFiniteSet(1..pos)
        BY <1>1, FS_Interval
      <4> QED BY <4>1, <4>2, FS_Subset
    <3>5. Cardinality(SeparatorsBefore(pos')) = Cardinality(SeparatorsBefore(pos)) + 1
      BY <3>2, <3>3, <3>4, FS_AddElement
    <3> QED BY <1>a, <2>1, <2>2, <2>4, <3>5 DEF Labelled
  <2> QED BY <2>3, <2>4
<1>7. ASSUME NEW p \in Positions
      PROVE  /\ p < pos' /\ ~ LeftOut(p)' => into'[p] = StatementOf(p)'
             /\ p < pos' /\ LeftOut(p)' => into'[p] = 0
             /\ p >= pos' => into'[p] = 0
  <2>0. p \in Int /\ pos \in Int /\ pos' \in Int /\ pos < pos' /\ out \in Nat
    BY <1>1
  <2>a. /\ p < pos /\ ~ LeftOut(p) => into[p] = StatementOf(p)
        /\ p < pos /\ LeftOut(p) => into[p] = 0
        /\ p >= pos => into[p] = 0
    BY DEF Labelled
  <2>b. /\ pos <= p /\ p < pos' /\ ~ Drops(i, p) => into'[p] = out + 1
        /\ p < pos \/ pos' <= p \/ Drops(i, p) => into'[p] = into[p]
    BY <1>b
  <2>1. CASE p < pos
    BY <1>3, <2>0, <2>a, <2>b, <2>1
  <2>2. CASE pos <= p /\ p < pos'
    <3>1. CASE Drops(i, p)
      BY <1>3, <1>4, <2>0, <2>a, <2>b, <2>2, <3>1
    <3>2. CASE ~ Drops(i, p)
      <4>1. text[i] # "semi"
        BY <3>2 DEF Drops
      <4>2. SeparatorsBefore(p) = SeparatorsBefore(pos)
        BY <1>5, <2>0, <2>2, <4>1
      <4>4. StatementOf(p) = 1 + out
        BY <1>a, <4>2 DEF StatementOf, Labelled
      <4> QED BY <1>3, <1>4, <2>0, <2>b, <2>2, <3>2, <4>4
    <3> QED BY <3>1, <3>2
  <2>3. CASE pos' <= p
    BY <2>0, <2>a, <2>b, <2>3
  <2> QED BY <2>0, <2>1, <2>2, <2>3
<1> QED BY <1>c, <1>a, <1>6, <1>7 DEF Labelled

(* Token i stays open. *)
LEMMA Continues ==
  ASSUME TypeOK, TypeOK', Chained, Labelled, NEW i \in Positions, Advance(i),
         starts' = starts, ~ Outside', Opened(i)',
         \A k \in (i + 1)..End : k <= Horizon' => ~ MayEnd(i, k)
  PROVE  Scan'
<1>1. /\ pos \in Int /\ pos' \in Int /\ text' = text /\ ~ done' /\ End' = End
      /\ Positions' = Positions
  BY SameText DEF TypeOK, Advance, End
<1>2. Labelled'
  BY <1>1, LabelsKept
<1>3. Chained'
  BY <1>1, SameText DEF Chained, Advance
<1>4. Last(i)' /\ i < pos'
  BY <1>1 DEF Last, Advance, Positions
<1>5. \A k \in (i + 1)..End' : k <= Horizon' => ~ MayEnd(i, k)'
  <2>1. \A k \in (i + 1)..End : k \in Int /\ i \in Int
    BY DEF Positions
  <2> QED BY <1>1, <2>1, SameText
<1>6. Current'
  BY <1>1, <1>4, <1>5 DEF Current
<1> QED BY <1>1, <1>2, <1>3, <1>6 DEF Scan

(* Token i ends. *)
LEMMA Ends ==
  ASSUME TypeOK, TypeOK', Chained, Labelled, NEW i \in Positions, Advance(i),
         starts' = starts \cup {pos'}, Outside', TokenTo(i, pos')
  PROVE  Scan'
<1>1. /\ pos \in Int /\ pos' \in Int /\ text' = text /\ ~ done' /\ starts \subseteq 1..pos
      /\ i \in starts /\ i <= pos /\ pos < pos' /\ i \in Int
  BY DEF TypeOK, Advance, Chained, Last, Positions
<1>2. Labelled'
  BY <1>1, LabelsKept
<1>3. \A h, j \in Int : TokenTo(h, j)' <=> TokenTo(h, j)
  BY <1>1, SameText
<1>4. 1 \in starts' /\ starts' \subseteq 1..pos'
  BY <1>1 DEF Chained
<1>5. ASSUME NEW j \in starts' \ {1}
      PROVE  \E h \in starts' : h < j /\ TokenTo(h, j)'
  <2>1. CASE j \in starts
    BY <1>3, <2>1 DEF Chained
  <2>2. CASE j = pos'
    BY <1>1, <1>3, <2>2
  <2> QED BY <2>1, <2>2
<1>6. ASSUME NEW h \in starts', NEW k \in starts', h < k
      PROVE  \E j \in starts' : h < j /\ TokenTo(h, j)'
  <2>1. h \in starts
    BY <1>1, <1>6
  <2>2. CASE k \in starts
    BY <1>3, <1>6, <2>1, <2>2 DEF Chained
  <2>3. CASE k = pos' /\ h = i
    BY <1>1, <1>3, <2>3
  <2>4. CASE k = pos' /\ h # i
    <3>1. h < i
      BY <1>1, <2>1, <2>4 DEF Advance, Last
    <3> QED BY <1>1, <1>3, <2>1, <3>1 DEF Chained
  <2> QED BY <2>2, <2>3, <2>4
<1>7. Chained'
  BY <1>4, <1>5, <1>6 DEF Chained
<1>8. Current'
  BY DEF Current
<1> QED BY <1>1, <1>2, <1>7, <1>8 DEF Scan

-----------------------------------------------------------------------------
(* One lemma per kind of iteration. *)

(* Where an iteration outside everything starts, a token starts. *)
LEMMA AtTokenStart ==
  ASSUME TypeOK, Scan, Reading, Outside
  PROVE  /\ pos \in Positions /\ pos \in Int /\ Last(pos) /\ ~ done
         /\ Len(text) \in Nat /\ pos + 1 <= End
<1>1. pos \in starts /\ starts \subseteq 1..pos
  BY DEF Scan, Current, Chained
<1> QED BY <1>1 DEF TypeOK, Reading, Last, Positions, End

(* An iteration inside a token that neither opens nor closes anything. *)
LEMMA StaysOpen ==
  ASSUME TypeOK, text' = text, pos' \in Int, pos < pos', flags' = flags, ~ Outside,
         inBlock => pos' = pos + 1 /\ ~ Two(pos, "*", "/"),
         NEW i \in Positions, Opened(i)
  PROVE  ~ Outside' /\ Opened(i)'
<1>1. /\ inS' = inS /\ inD' = inD /\ inLine' = inLine /\ inBlock' = inBlock
      /\ dollar' = dollar /\ pos \in Int
  BY DEF flags, TypeOK
<1>2. ~ Outside'
  BY <1>1 DEF Outside
<1>3. \A e \in Positions : e \in Int
  BY DEF Positions
<1>4. (\E e \in Positions : IsTag(i, e) /\ e < pos /\ dollar = SubSeq(text, i, e)) =>
        (\E e \in Positions' : IsTag(i, e)' /\ e < pos' /\ dollar' = SubSeq(text', i, e))
  <2> SUFFICES ASSUME NEW e \in Positions, IsTag(i, e), e < pos, dollar = SubSeq(text, i, e)
               PROVE  /\ e \in Positions' /\ IsTag(i, e)' /\ e < pos'
                      /\ dollar' = SubSeq(text', i, e)
    OBVIOUS
  <2>1. e \in Positions' /\ IsTag(i, e)'
    BY SameTag
  <2>2. e < pos'
    BY <1>1, <1>3
  <2> QED BY <1>1, <2>1, <2>2
<1>5. (LineOpens(i)' <=> LineOpens(i)) /\ (BlockOpens(i)' <=> BlockOpens(i))
  BY SameComment
<1>6. ASSUME inBlock, NEW c \in (i + 2)..(pos' - 1)
      PROVE  ~ Two(c, "*", "/")'
  <2>1. c = pos \/ c \in (i + 2)..(pos - 1)
    BY <1>1, <1>3, <1>6
  <2>2. ~ Two(c, "*", "/")
    BY <1>6, <2>1 DEF Opened
  <2> QED BY <2>2 DEF Two
<1>7. Opened(i)'
  BY <1>1, <1>4, <1>5, <1>6 DEF Opened
<1> QED BY <1>2, <1>7

LEMMA OpenLineStep ==
  ASSUME TypeOK, TypeOK', Scan, OpenLine
  PROVE  Scan'
<1>1. /\ Reading /\ Outside /\ LineOpens(pos) /\ pos' = pos + 1 /\ text' = text
      /\ done' = done /\ into' = into /\ out' = out /\ inLine' = TRUE
      /\ inS' = inS /\ inD' = inD /\ inBlock' = inBlock /\ dollar' = dollar
      /\ (~ Outside' => starts' = starts)
  BY DEF OpenLine, OpensLine, MayComment, Goto, LineOpens
<1>2. /\ pos \in Positions /\ pos \in Int /\ Last(pos) /\ ~ done /\ pos + 1 <= End
  BY <1>1, AtTokenStart
<1>i. PICK i \in Positions : i = pos
  BY <1>2
<1>3. ~ Outside' /\ starts' = starts
  BY <1>1 DEF Outside
<1>4. text[pos] = "-"
  BY <1>1 DEF LineOpens, Two
<1>5. \A p \in Positions : pos <= p /\ p < pos' => Drops(i, p)
  BY <1>1, <1>2, <1>i, <1>4 DEF Drops, Positions
<1>6. Advance(i)
  BY <1>1, <1>2, <1>i, <1>4, <1>5 DEF Advance
<1>7. Opened(i)'
  <2>1. (LineOpens(i)' <=> LineOpens(i)) /\ (BlockOpens(i)' <=> BlockOpens(i))
    BY <1>1, SameComment
  <2> QED BY <1>1, <1>i, <2>1 DEF Opened, Outside
<1>8. Horizon' = pos + 1
  BY <1>1 DEF Horizon, Outside
<1>9. ASSUME NEW k \in (i + 1)..End, k <= Horizon'
      PROVE  ~ MayEnd(i, k)
  <2>1. k = pos + 1 /\ k \in Int
    BY <1>2, <1>i, <1>8, <1>9
  <2> QED BY <1>1, <1>2, <1>i, <1>4, <2>1, LineEnds
<1> QED BY <1>2, <1>3, <1>6, <1>7, <1>9, Continues DEF Scan

LEMMA OpenBlockStep ==
  ASSUME TypeOK, TypeOK', Scan, OpenBlock
  PROVE  Scan'
<1>1. /\ Reading /\ Outside /\ BlockOpens(pos) /\ pos' = pos + 1 /\ text' = text
      /\ done' = done /\ into' = into /\ out' = out /\ inBlock' = TRUE
      /\ inS' = inS /\ inD' = inD /\ inLine' = inLine /\ dollar' = dollar
      /\ (~ Outside' => starts' = starts)
  BY DEF OpenBlock, OpensBlock, MayComment, Goto, BlockOpens
<1>2. /\ pos \in Positions /\ pos \in Int /\ Last(pos) /\ ~ done /\ pos + 1 <= End
  BY <1>1, AtTokenStart
<1>i. PICK i \in Positions : i = pos
  BY <1>2
<1>3. ~ Outside' /\ starts' = starts
  BY <1>1 DEF Outside
<1>4. text[pos] = "/"
  BY <1>1 DEF BlockOpens, Two
<1>5. \A p \in Positions : Drops(i, p)
  BY <1>1, <1>i DEF Drops
<1>6. Advance(i)
  BY <1>1, <1>2, <1>i, <1>4, <1>5 DEF Advance
<1>7. Opened(i)'
  <2>1. (LineOpens(i)' <=> LineOpens(i)) /\ (BlockOpens(i)' <=> BlockOpens(i))
    BY <1>1, SameComment
  <2>2. \A c \in (i + 2)..(pos' - 1) : FALSE
    BY <1>1, <1>2, <1>i
  <2> QED BY <1>1, <1>i, <2>1, <2>2 DEF Opened, Outside
<1>8. Horizon' = pos + 2
  BY <1>1, <1>2 DEF Horizon
<1>9. ASSUME NEW k \in (i + 1)..End, k <= Horizon'
      PROVE  ~ MayEnd(i, k)
  <2>1. k < pos + 4 /\ k \in Int
    BY <1>2, <1>i, <1>8, <1>9
  <2> QED BY <1>1, <1>2, <1>i, <2>1, BlockEndsThere
<1> QED BY <1>2, <1>3, <1>6, <1>7, <1>9, Continues DEF Scan

LEMMA OpenDollarStep ==
  ASSUME TypeOK, TypeOK', Regular, Scan, OpenDollar
  PROVE  Scan'
<1>1. PICK e \in Positions : /\ IsTag(pos, e)
                             /\ dollar' = SubSeq(text, pos, e)
                             /\ Write(pos, e)
                             /\ Goto(e + 1)
  BY DEF OpenDollar
<1>2. /\ Reading /\ Outside /\ pos' = e + 1 /\ text' = text /\ done' = done /\ out' = out
      /\ inS' = inS /\ inD' = inD /\ inLine' = inLine /\ inBlock' = inBlock
      /\ (~ Outside' => starts' = starts)
  BY <1>1 DEF OpenDollar, OpensDollar, InComment, Goto, Outside
<1>3. /\ pos \in Positions /\ pos \in Int /\ Last(pos) /\ ~ done /\ Len(text) \in Nat
      /\ e \in Int /\ pos < e /\ e + 1 <= End
  BY <1>1, <1>2, AtTokenStart DEF IsTag, Positions, End
<1>i. PICK i \in Positions : i = pos
  BY <1>3
<1>4. text[pos] = "$"
  BY <1>1 DEF IsTag
<1>5. Len(dollar') = e - pos + 1 /\ dollar' # <<>>
  <2>1. Len(SubSeq(text, pos, e)) = e - pos + 1
    BY <1>3, SubSeqProperties DEF TypeOK, Positions
  <2>2. Len(dollar') = e - pos + 1
    BY <1>1, <2>1, Zenon
  <2>3. dollar' # <<>>
    <3>1. e - pos + 1 # 0
      BY <1>3
    <3>2. Len(<<>>) = 0
      OBVIOUS
    <3> QED BY <2>2, <3>1, <3>2, Zenon
  <2> QED BY <2>2, <2>3
<1>6. ~ Outside' /\ starts' = starts
  BY <1>2, <1>5 DEF Outside
<1>7. \A p \in Positions : ~ Drops(i, p)
  BY <1>4, <1>i DEF Drops, LineOpens, BlockOpens, Two
<1>8. \A p \in Positions : p \in pos..e <=> pos <= p /\ p < pos'
  BY <1>2, <1>3 DEF Positions
<1>9. Advance(i)
  BY <1>1, <1>2, <1>3, <1>i, <1>4, <1>7, <1>8 DEF Advance, Write
<1>10. Opened(i)'
  <2>0. e \in Positions' /\ IsTag(i, e)'
    BY <1>1, <1>2, <1>i, SameTag
  <2>1. e < pos' /\ dollar' = SubSeq(text', i, e)
    BY <1>1, <1>2, <1>3, <1>i
  <2> QED BY <1>2, <2>0, <2>1 DEF Opened, Outside
<1>11. Horizon' = e + 1 + e - pos
  BY <1>2, <1>3, <1>5 DEF Horizon, Outside
<1>12. ASSUME NEW k \in (i + 1)..End, k <= Horizon'
       PROVE  ~ MayEnd(i, k)
  <2>1. ServerTag(i, e)
    BY <1>1, <1>3, <1>i, TagsAgree DEF Last
  <2> QED BY <1>3, <1>i, <1>11, <1>12, <2>1, TagEnds
<1> QED BY <1>3, <1>6, <1>9, <1>10, <1>12, Continues DEF Scan

(* A quote opens outside everything, and closes at the next one of its kind. *)
LEMMA QuoteStep ==
  ASSUME TypeOK, TypeOK', Scan, Quote
  PROVE  Scan'
<1>1. /\ Reading /\ pos' = pos + 1 /\ text' = text /\ done' = done /\ out' = out
      /\ inLine' = inLine /\ inBlock' = inBlock /\ dollar' = dollar
      /\ ~ inLine /\ ~ inBlock /\ dollar = <<>> /\ ~ done
      /\ starts' = IF Outside' THEN starts \cup {pos + 1} ELSE starts
      /\ Write(pos, pos)
  BY DEF Quote, Goto, IsSingle, IsDouble, InComment, Reading
<1>2. pos \in Positions /\ pos \in Int /\ pos + 1 <= End /\ pos \in DOMAIN text
  BY <1>1 DEF Reading, TypeOK, Positions, End
<1>3. \/ /\ text[pos] = "sq" /\ ~ inD /\ inS' = ~ inS /\ inD' = inD
      \/ /\ text[pos] = "dq" /\ ~ inS /\ inD' = ~ inD /\ inS' = inS
  BY DEF Quote, IsSingle, IsDouble
<1>4. text[pos] \in Quotes
  BY <1>3 DEF Quotes
<1>5. \A p \in Positions : p \in pos..pos <=> pos <= p /\ p < pos'
  BY <1>1, <1>2 DEF Positions
<1>6. ASSUME NEW i \in Positions, Last(i), i <= pos, text[i] \in Quotes
      PROVE  Advance(i)
  <2>1. \A p \in Positions : ~ Drops(i, p)
    BY <1>6 DEF Drops, LineOpens, BlockOpens, Two, Quotes
  <2>2. text[i] # "semi"
    BY <1>6 DEF Quotes
  <2> QED BY <1>1, <1>2, <1>5, <1>6, <2>1, <2>2 DEF Advance, Write
<1>7. CASE Outside
  <2>1. /\ Last(pos) /\ ~ inS /\ ~ inD
    BY <1>1, <1>7, AtTokenStart DEF Outside
  <2>2. PICK i \in Positions : i = pos
    BY <1>2
  <2>3. Advance(i)
    BY <1>2, <1>4, <1>6, <2>1, <2>2
  <2>4. ~ Outside' /\ starts' = starts
    BY <1>1, <1>3, <2>1 DEF Outside
  <2>5. Opened(i)'
    BY <1>1, <1>3, <2>1, <2>2 DEF Opened
  <2>6. Horizon' = pos + 1
    BY <1>1 DEF Horizon
  <2>7. ASSUME NEW k \in (i + 1)..End, k <= Horizon'
        PROVE  ~ MayEnd(i, k)
    <3>1. k \in Int /\ ~ (k >= i + 2)
      BY <1>2, <2>2, <2>6, <2>7
    <3> QED BY <1>4, <2>2, <3>1, QuoteEnds
  <2> QED BY <2>3, <2>4, <2>5, <2>7, Continues DEF Scan
<1>8. CASE ~ Outside
  <2>1. PICK i \in Positions :
          /\ Last(i) /\ i < pos /\ Opened(i)
          /\ \A k \in (i + 1)..End : k <= Horizon => ~ MayEnd(i, k)
    BY <1>8 DEF Scan, Current
  <2>2. i \in Int /\ i <= pos /\ text[i] = text[pos] /\ text[i] \in Quotes
    BY <1>1, <1>2, <1>3, <1>4, <1>8, <2>1 DEF Outside, Opened, Positions
  <2>a. inS \/ inD
    BY <1>1, <1>8 DEF Outside
  <2>b. ~ inS' /\ ~ inD'
    <3>1. CASE inS' = ~ inS /\ inD' = inD /\ ~ inD
      BY <2>a, <3>1, Zenon
    <3>2. CASE inD' = ~ inD /\ inS' = inS /\ ~ inS
      BY <2>a, <3>2, Zenon
    <3> QED BY <1>3, <3>1, <3>2, Zenon
  <2>3. Outside'
    BY <1>1, <2>b DEF Outside
  <2>4. Advance(i) /\ starts' = starts \cup {pos'}
    BY <1>1, <1>6, <2>1, <2>2, <2>3
  <2>5. MayEnd(i, pos')
    <3>1. pos' \in Int /\ pos' >= i + 2 /\ pos' - 1 = pos
      BY <1>1, <1>2, <2>1, <2>2
    <3> QED BY <2>2, <3>1, QuoteEnds
  <2>6. ASSUME NEW k \in (i + 1)..(pos' - 1) PROVE ~ MayEnd(i, k)
    <3>1. Horizon = pos
      BY <1>1 DEF Horizon
    <3>2. k \in (i + 1)..End /\ k <= pos
      BY <1>1, <1>2, <2>2, <2>6 DEF TypeOK, End
    <3> QED BY <2>1, <3>1, <3>2
  <2>7. TokenTo(i, pos')
    BY <2>5, <2>6 DEF TokenTo
  <2> QED BY <2>3, <2>4, <2>7, Ends DEF Scan
<1> QED BY <1>7, <1>8

LEMMA SeparateStep ==
  ASSUME TypeOK, TypeOK', Scan, Separate
  PROVE  Scan'
<1>1. /\ Reading /\ Outside /\ pos' = pos + 1 /\ text' = text /\ done' = done
      /\ out' = out + 1 /\ into' = into /\ flags' = flags /\ text[pos] = "semi"
      /\ starts' = IF Outside' THEN starts \cup {pos + 1} ELSE starts
  BY DEF Separate, Separates, Goto, InComment, Outside
<1>2. Outside'
  BY <1>1 DEF Outside, flags
<1>3. /\ pos \in Positions /\ pos \in Int /\ Last(pos) /\ ~ done /\ pos + 1 <= End
  BY <1>1, AtTokenStart
<1>4. \A p \in Positions : Drops(pos, p)
  BY <1>1 DEF Drops
<1>5. Advance(pos)
  BY <1>1, <1>3, <1>4 DEF Advance
<1>6. ~ LineOpens(pos) /\ ~ BlockOpens(pos) /\ text[pos] \notin Quotes /\ ~ TagOpens(pos)
  BY <1>1 DEF LineOpens, BlockOpens, Two, Quotes, TagOpens, ServerTag
<1>7. \A k \in Int : MayEnd(pos, k) <=> k = pos + 1
  BY <1>3, <1>6, OtherEnds
<1>8. TokenTo(pos, pos')
  BY <1>1, <1>3, <1>7 DEF TokenTo
<1> QED BY <1>1, <1>2, <1>3, <1>5, <1>8, Ends DEF Scan

(* A rune in a comment. *)
LEMMA SkipStep ==
  ASSUME TypeOK, TypeOK', Scan, SkipComment
  PROVE  Scan'
<1>1. /\ Reading /\ ~ Outside /\ pos' = pos + 1 /\ text' = text /\ done' = done /\ ~ done
      /\ out' = out /\ into' = into /\ flags' = flags
      /\ (~ Outside' => starts' = starts)
      /\ (inLine /\ text[pos] # "nl") \/ (inBlock /\ ~ Two(pos, "*", "/"))
  BY DEF SkipComment, Goto, Outside, Reading
<1>2. pos \in Positions /\ pos \in Int /\ pos + 1 <= End
  BY <1>1 DEF Reading, TypeOK, Positions, End
<1>3. PICK i \in Positions :
        /\ Last(i) /\ i < pos /\ Opened(i)
        /\ \A k \in (i + 1)..End : k <= Horizon => ~ MayEnd(i, k)
  BY <1>1 DEF Scan, Current
<1>4. i \in Int /\ i <= pos
  BY <1>2, <1>3 DEF Positions
<1>5. ~ Outside' /\ Opened(i)'
  BY <1>1, <1>2, <1>3, StaysOpen DEF TypeOK
<1>6. \A p \in Positions : pos <= p /\ p < pos' => Drops(i, p)
  <2>1. \A p \in Positions : pos <= p /\ p < pos' => p = pos
    BY <1>1, <1>2 DEF Positions
  <2>2. Drops(i, pos)
    BY <1>1, <1>3 DEF Drops, Opened
  <2> QED BY <2>1, <2>2
<1>7. text[i] # "semi"
  BY <1>1, <1>3 DEF Opened, LineOpens, BlockOpens, Two
<1>8. Advance(i)
  BY <1>1, <1>2, <1>3, <1>4, <1>6, <1>7 DEF Advance
<1>9. ASSUME NEW k \in (i + 1)..End, k <= Horizon' PROVE ~ MayEnd(i, k)
  <2>1. k \in Int
    OBVIOUS
  <2>2. CASE inLine
    <3>1. Horizon = pos /\ Horizon' = pos + 1
      BY <1>1, <2>2 DEF Horizon, flags, TypeOK
    <3>2. CASE k <= pos
      BY <1>3, <3>1, <3>2
    <3>3. CASE k = pos + 1
      <4>1. k - 1 = pos /\ text[pos] # "nl" /\ LineOpens(i)
        BY <1>1, <1>2, <1>3, <2>2, <3>3 DEF Opened, TypeOK
      <4> QED BY <2>1, <4>1, LineEnds
    <3> QED BY <1>2, <1>9, <2>1, <3>1, <3>2, <3>3
  <2>3. CASE inBlock
    <3>1. Horizon = pos + 1 /\ Horizon' = pos + 2
      BY <1>1, <1>2, <2>3 DEF Horizon, flags
    <3>2. CASE k <= pos + 1
      BY <1>3, <3>1, <3>2
    <3>3. CASE k = pos + 2
      <4>1. ~ Two(k - 2, "*", "/")
        BY <1>1, <1>2, <2>3, <3>3 DEF TypeOK
      <4> QED BY <1>3, <2>1, <2>3, <4>1, BlockEndsThere DEF Opened
    <3> QED BY <1>2, <1>9, <2>1, <3>1, <3>2, <3>3
  <2> QED BY <1>1, <2>2, <2>3
<1> QED BY <1>1, <1>5, <1>8, <1>9, Continues DEF Scan

LEMMA CloseLineStep ==
  ASSUME TypeOK, TypeOK', Scan, CloseLine
  PROVE  Scan'
<1>1. /\ Reading /\ inLine /\ text[pos] = "nl" /\ pos' = pos + 1 /\ text' = text
      /\ done' = done /\ ~ done /\ out' = out /\ inLine' = FALSE
      /\ inS' = inS /\ inD' = inD /\ inBlock' = inBlock /\ dollar' = dollar
      /\ Write(pos, pos) /\ (Outside' => starts' = starts \cup {pos'})
  BY DEF CloseLine, Goto, Reading
<1>2. pos \in Positions /\ pos \in Int /\ pos + 1 <= End
  BY <1>1 DEF Reading, TypeOK, Positions, End
<1>3. /\ ~ Outside /\ Outside' /\ starts' = starts \cup {pos'} /\ Horizon = pos
  BY <1>1 DEF Outside, TypeOK, Horizon
<1>4. PICK i \in Positions :
        /\ Last(i) /\ i < pos /\ Opened(i)
        /\ \A k \in (i + 1)..End : k <= Horizon => ~ MayEnd(i, k)
  BY <1>3 DEF Scan, Current
<1>5. i \in Int /\ i <= pos /\ LineOpens(i) /\ text[i] = "-"
  BY <1>1, <1>2, <1>4 DEF Opened, LineOpens, Two, Positions
<1>6. \A p \in Positions : p \in pos..pos <=> pos <= p /\ p < pos'
  BY <1>1, <1>2 DEF Positions
<1>7. ~ Drops(i, pos)
  BY <1>1, <1>5 DEF Drops, BlockOpens, Two
<1>8. Advance(i)
  <2>1. \A p \in Positions : pos <= p /\ p < pos' => p = pos
    BY <1>1, <1>2 DEF Positions
  <2> QED BY <1>1, <1>2, <1>4, <1>5, <1>6, <1>7, <2>1 DEF Advance, Write
<1>9. MayEnd(i, pos')
  BY <1>1, <1>2, <1>5, LineEnds
<1>10. ASSUME NEW k \in (i + 1)..(pos' - 1) PROVE ~ MayEnd(i, k)
  <2>1. k \in (i + 1)..End /\ k <= pos
    BY <1>1, <1>2, <1>5, <1>10 DEF TypeOK, End
  <2> QED BY <1>3, <1>4, <2>1
<1>11. TokenTo(i, pos')
  BY <1>9, <1>10 DEF TokenTo
<1> QED BY <1>3, <1>8, <1>11, Ends DEF Scan

LEMMA CloseBlockStep ==
  ASSUME TypeOK, TypeOK', Regular, Scan, CloseBlock
  PROVE  Scan'
<1>1. /\ Reading /\ inBlock /\ Two(pos, "*", "/") /\ pos' = pos + 2 /\ text' = text
      /\ done' = done /\ ~ done /\ out' = out /\ into' = into /\ inBlock' = FALSE
      /\ inS' = inS /\ inD' = inD /\ inLine' = inLine /\ dollar' = dollar
      /\ (Outside' => starts' = starts \cup {pos'})
  BY DEF CloseBlock, Goto, Reading
<1>2. /\ pos \in Positions /\ pos \in Int /\ pos + 2 <= End /\ Len(text) \in Nat
  BY <1>1 DEF Reading, TypeOK, Positions, End, Two
<1>3. /\ ~ Outside /\ Outside' /\ starts' = starts \cup {pos'} /\ Horizon = pos + 1
  BY <1>1 DEF Outside, TypeOK, Horizon
<1>4. PICK i \in Positions :
        /\ Last(i) /\ i < pos /\ Opened(i)
        /\ \A k \in (i + 1)..End : k <= Horizon => ~ MayEnd(i, k)
  BY <1>3 DEF Scan, Current
<1>5. i \in Int /\ i <= pos /\ BlockOpens(i) /\ text[i] = "/"
  BY <1>1, <1>2, <1>4 DEF Opened, BlockOpens, Two, Positions
<1>6. Advance(i)
  BY <1>1, <1>2, <1>4, <1>5 DEF Advance, Drops
<1>7. i + 2 <= pos
  <2>1. ~ Two(i + 1, "*", "/")
    BY <1>4, <1>5 DEF Regular, Last
  <2>2. pos # i + 1
    BY <1>1, <2>1
  <2> QED BY <1>2, <1>4, <1>5, <2>2
<1>8. MayEnd(i, pos')
  <2>1. pos' \in Int /\ pos' >= i + 4 /\ pos' - 2 = pos
    BY <1>1, <1>2, <1>5, <1>7
  <2>2. \A c \in (i + 2)..(pos' - 3) : ~ Two(c, "*", "/")
    <3>1. pos' - 3 = pos - 1
      BY <1>1, <1>2
    <3> QED BY <1>1, <1>4, <3>1 DEF Opened
  <2> QED BY <1>1, <1>4, <1>5, <2>1, <2>2, BlockEnds DEF Last
<1>9. ASSUME NEW k \in (i + 1)..(pos' - 1) PROVE ~ MayEnd(i, k)
  <2>1. k \in (i + 1)..End /\ k <= pos + 1
    BY <1>1, <1>2, <1>5, <1>9 DEF End
  <2> QED BY <1>3, <1>4, <2>1
<1>10. TokenTo(i, pos')
  BY <1>8, <1>9 DEF TokenTo
<1> QED BY <1>3, <1>6, <1>10, Ends DEF Scan

(* Under Regular the bytes of a tag are its runes. *)
LEMMA TagBytes ==
  ASSUME TypeOK, Regular, NEW i \in Positions, i \in starts, NEW e \in Positions, IsTag(i, e)
  PROVE  LET tag == SubSeq(text, i, e)
         IN  /\ Len(tag) = e - i + 1 /\ tag # <<>> /\ tag[1] = "$"
             /\ Len(tag) + Cardinality({k \in DOMAIN tag : tag[k] \in Wide}) = e - i + 1
<1> DEFINE tag == SubSeq(text, i, e)
<1>1. i \in Int /\ e \in Int /\ i < e /\ e <= Len(text) /\ 1 <= i /\ text[i] = "$"
  BY DEF IsTag, Positions, TypeOK
<1>2. /\ Len(tag) = e - i + 1 /\ DOMAIN tag = 1..(e - i + 1)
      /\ \A k \in 1..(e - i + 1) : tag[k] = text[i + k - 1]
  BY <1>1, SubSeqProperties DEF TypeOK
<1>3. tag # <<>>
  <2>1. Len(tag) # 0
    BY <1>1, <1>2
  <2>2. Len(<<>>) = 0
    OBVIOUS
  <2> QED BY <2>1, <2>2, Zenon
<1>4. tag[1] = "$"
  <2>1. 1 \in 1..(e - i + 1) /\ i + 1 - 1 = i
    BY <1>1
  <2> QED BY <1>1, <1>2, <2>1
<1>5. {k \in DOMAIN tag : tag[k] \in Wide} = {}
  <2> SUFFICES ASSUME NEW k \in DOMAIN tag, tag[k] \in Wide PROVE FALSE
    OBVIOUS
  <2>1. i + k - 1 \in i..e /\ tag[k] = text[i + k - 1]
    BY <1>1, <1>2
  <2> QED BY <2>1 DEF Regular
<1>6. Cardinality({}) = 0
  BY FS_EmptySet
<1>7. Len(tag) + Cardinality({k \in DOMAIN tag : tag[k] \in Wide}) = e - i + 1
  <2>1. Cardinality({k \in DOMAIN tag : tag[k] \in Wide}) = 0
    BY <1>5, <1>6, Zenon
  <2> HIDE DEF tag
  <2> QED BY <1>1, <1>2, <2>1
<1> QED BY <1>2, <1>3, <1>4, <1>7, Zenon

LEMMA CloseDollarStep ==
  ASSUME TypeOK, TypeOK', Regular, Scan, CloseDollar
  PROVE  Scan'
<1>1. /\ Reading /\ dollar # <<>> /\ dollar' = <<>> /\ text' = text /\ TagAgainAt(pos)
      /\ ~ inS /\ ~ inD /\ ~ inLine /\ ~ inBlock
      /\ done' = done /\ ~ done /\ out' = out /\ inBlock' = inBlock
      /\ inS' = inS /\ inD' = inD /\ inLine' = inLine
      /\ pos' = pos + ByteLen(dollar) /\ Write(pos, pos + Len(dollar) - 1)
      /\ (Outside' => starts' = starts \cup {pos'})
  BY DEF CloseDollar, ClosesDollar, Goto, Reading, InComment
<1>2. pos \in Positions /\ pos \in Int /\ Len(text) \in Nat
  BY <1>1 DEF Reading, TypeOK, Positions
<1>3. ~ Outside /\ Outside' /\ starts' = starts \cup {pos'}
  BY <1>1 DEF Outside
<1>4. PICK i \in Positions :
        /\ Last(i) /\ i < pos /\ Opened(i)
        /\ \A k \in (i + 1)..End : k <= Horizon => ~ MayEnd(i, k)
  BY <1>3 DEF Scan, Current
<1>5. PICK e \in Positions : IsTag(i, e) /\ e < pos /\ dollar = SubSeq(text, i, e)
  BY <1>1, <1>4 DEF Opened
<1>6. i \in Int /\ e \in Int /\ i < e
  BY <1>5 DEF IsTag, Positions, TypeOK
<1>7. Len(dollar) = e - i + 1 /\ ByteLen(dollar) = e - i + 1
  BY <1>4, <1>5, TagBytes DEF ByteLen, Last
<1>8. /\ pos' = pos + (e - i + 1) /\ pos' <= End
      /\ SubSeq(text, pos, pos' - 1) = SubSeq(text, i, e)
  BY <1>1, <1>2, <1>5, <1>6, <1>7 DEF TagAgainAt, End
<1>9. text[i] = "$"
  BY <1>5 DEF IsTag
<1>10. \A p \in Positions : ~ Drops(i, p)
  BY <1>9 DEF Drops, LineOpens, BlockOpens, Two
<1>11. \A p \in Positions : p \in pos..(pos + Len(dollar) - 1) <=> pos <= p /\ p < pos'
  BY <1>2, <1>6, <1>7, <1>8 DEF Positions
<1>12. Advance(i)
  <2>1. i <= pos /\ pos < pos'
    BY <1>2, <1>4, <1>6, <1>8
  <2> QED BY <1>1, <1>2, <1>4, <1>8, <1>9, <1>10, <1>11, <2>1 DEF Advance, Write
<1>13. MayEnd(i, pos')
  <2>1. /\ pos' \in Int /\ pos' > e + 1 + e - i /\ pos' - 1 - (e - i) = pos
    BY <1>2, <1>5, <1>6, <1>8
  <2>2. ServerTag(i, e)
    BY <1>4, <1>5, TagsAgree DEF Last
  <2> QED BY <1>8, <2>1, <2>2, TagEnds
<1>14. ASSUME NEW k \in (i + 1)..(pos' - 1) PROVE ~ MayEnd(i, k)
  <2>1. Horizon = pos + (e - i + 1) - 1
    BY <1>1, <1>7 DEF Horizon
  <2>2. k \in (i + 1)..End /\ k <= Horizon
    BY <1>2, <1>6, <1>8, <1>14, <2>1 DEF End
  <2> QED BY <1>4, <2>2
<1>15. TokenTo(i, pos')
  BY <1>13, <1>14 DEF TokenTo
<1> QED BY <1>3, <1>12, <1>15, Ends DEF Scan

(* Any other rune: a token of its own, or a part of a quote. *)
LEMMA CopyStep ==
  ASSUME TypeOK, TypeOK', Regular, Scan, Copy
  PROVE  Scan'
<1>1. /\ Reading /\ pos' = pos + 1 /\ text' = text /\ done' = done /\ ~ done /\ out' = out
      /\ flags' = flags /\ Write(pos, pos) /\ ~ inLine /\ ~ inBlock
      /\ starts' = IF Outside' THEN starts \cup {pos + 1} ELSE starts
  BY DEF Copy, Goto, Reading, InComment
<1>2. pos \in Positions /\ pos \in Int /\ pos + 1 <= End /\ Len(text) \in Nat
  BY <1>1 DEF Reading, TypeOK, Positions, End
<1>3. \A p \in Positions : p \in pos..pos <=> pos <= p /\ p < pos'
  BY <1>1, <1>2 DEF Positions
<1>4. ASSUME NEW i \in Positions, Last(i), i <= pos, ~ LineOpens(i), ~ BlockOpens(i),
             text[i] # "semi"
      PROVE  Advance(i)
  <2>1. \A p \in Positions : ~ Drops(i, p)
    BY <1>4 DEF Drops
  <2> QED BY <1>1, <1>2, <1>3, <1>4, <2>1 DEF Advance, Write
<1>5. CASE Outside
  <2>1. Outside' /\ starts' = starts \cup {pos'}
    BY <1>1, <1>5 DEF Outside, flags
  <2>2. Last(pos)
    BY <1>1, <1>5, AtTokenStart
  <2>t. ~ TagOpens(pos)
    <3>1. \A e \in Positions : ~ IsTag(pos, e)
      BY <1>5 DEF Copy, InComment, OpensLine, OpensBlock, MayComment, Outside, OpensDollar
    <3> QED BY <1>2, <2>2, <3>1, TagsAgree DEF TagOpens, Last
  <2>3. /\ ~ LineOpens(pos) /\ ~ BlockOpens(pos) /\ ~ TagOpens(pos) /\ text[pos] # "semi"
        /\ text[pos] \notin Quotes
    BY <1>5, <2>t DEF Copy, InComment, OpensLine, OpensBlock, MayComment, Outside, OpensDollar,
                IsSingle, IsDouble, Separates, LineOpens, BlockOpens, Quotes
  <2>4. Advance(pos)
    BY <1>2, <1>4, <2>2, <2>3
  <2>5. \A k \in Int : MayEnd(pos, k) <=> k = pos + 1
    BY <1>2, <2>3, OtherEnds
  <2>6. TokenTo(pos, pos')
    BY <1>1, <1>2, <2>5 DEF TokenTo
  <2> QED BY <1>2, <2>1, <2>4, <2>6, Ends DEF Scan
<1>6. CASE ~ Outside
  <2>1. PICK i \in Positions :
          /\ Last(i) /\ i < pos /\ Opened(i)
          /\ \A k \in (i + 1)..End : k <= Horizon => ~ MayEnd(i, k)
    BY <1>6 DEF Scan, Current
  <2>2. i \in Int /\ i <= pos
    BY <1>2, <2>1 DEF Positions
  <2>3. ~ Outside' /\ Opened(i)' /\ starts' = starts
    BY <1>1, <1>2, <1>6, <2>1, StaysOpen DEF TypeOK
  <2>4. CASE dollar = <<>>
    <3>1. text[i] \in Quotes /\ text[pos] # text[i]
      BY <1>1, <1>6, <2>1, <2>4
      DEF Outside, Opened, Quotes, Copy, IsSingle, IsDouble, TypeOK
    <3>2. Advance(i)
      BY <1>4, <2>1, <2>2, <3>1 DEF Quotes, LineOpens, BlockOpens, Two
    <3>3. Horizon = pos /\ Horizon' = pos + 1
      BY <1>1, <2>4 DEF Horizon, flags
    <3>4. ASSUME NEW k \in (i + 1)..End, k <= Horizon' PROVE ~ MayEnd(i, k)
      <4>1. CASE k <= pos
        BY <2>1, <3>3, <4>1
      <4>2. CASE k = pos + 1
        <5>1. k \in Int /\ k - 1 = pos
          BY <1>2, <4>2
        <5> QED BY <3>1, <5>1, QuoteEnds
      <4> QED BY <1>2, <2>2, <3>3, <3>4, <4>1, <4>2
    <3> QED BY <2>3, <3>2, <3>4, Continues DEF Scan
  <2>5. CASE dollar # <<>>
    <3>1. PICK e \in Positions : IsTag(i, e) /\ e < pos /\ dollar = SubSeq(text, i, e)
      BY <2>1, <2>5 DEF Opened
    <3>2. i \in Int /\ e \in Int /\ i < e /\ text[i] = "$"
      BY <3>1 DEF IsTag, Positions, TypeOK
    <3>3. /\ Len(dollar) = e - i + 1 /\ ByteLen(dollar) = e - i + 1 /\ dollar[1] = "$"
      BY <2>1, <3>1, TagBytes DEF ByteLen, Last
    <3>4. Advance(i)
      BY <1>4, <2>1, <2>2, <3>2 DEF LineOpens, BlockOpens, Two
    <3>5. Horizon = pos + (e - i + 1) - 1 /\ Horizon' = pos + 1 + (e - i + 1) - 1
      BY <1>1, <2>5, <3>3 DEF Horizon, flags
    <3>6. ~ (text[pos] = "$" /\ TagAgainAt(pos))
      BY <1>1, <2>5 DEF Copy, ClosesDollar, InComment, Outside, TypeOK
    <3>7. ASSUME NEW k \in (i + 1)..End, k <= Horizon' PROVE ~ MayEnd(i, k)
      <4>1. CASE k <= Horizon
        BY <2>1, <4>1
      <4>2. CASE k = pos + (e - i + 1)
        <5> SUFFICES ASSUME MayEnd(i, k) PROVE FALSE
          OBVIOUS
        <5>1. k \in Int /\ k - 1 - (e - i) = pos /\ k - 1 = pos + (e - i + 1) - 1
          BY <1>2, <3>2, <4>2
        <5>2. SubSeq(text, pos, pos + (e - i + 1) - 1) = dollar
          <6>1. ServerTag(i, e)
            BY <2>1, <3>1, TagsAgree DEF Last
          <6> QED BY <3>1, <5>1, <6>1, TagEnds
        <5>3. pos + (e - i + 1) - 1 <= Len(text)
          BY <1>2, <3>2, <4>2 DEF End
        <5>4. TagAgainAt(pos)
          BY <3>3, <5>2, <5>3 DEF TagAgainAt
        <5>5. SubSeq(text, pos, pos + (e - i + 1) - 1)[1] = text[pos]
          BY <1>2, <3>2, <5>3, SubSeqProperties DEF TypeOK, Positions
        <5> QED BY <3>3, <3>6, <5>2, <5>4, <5>5
      <4> QED BY <1>2, <2>2, <3>2, <3>5, <3>7, <4>1, <4>2
    <3> QED BY <2>3, <3>4, <3>7, Continues DEF Scan
  <2> QED BY <2>4, <2>5
<1> QED BY <1>5, <1>6

-----------------------------------------------------------------------------

(* A step that does not move the scan: the last one, and stuttering. *)
LEMMA Rests ==
  ASSUME TypeOK, Scan, text' = text, pos' = pos, flags' = flags, into' = into,
         starts' = starts, done' => pos = End, ~ done' => out' = out /\ ~ done
  PROVE  Scan'
<1>1. /\ text' = text /\ pos' = pos /\ flags' = flags /\ into' = into /\ starts' = starts
      /\ (~ done' => out' = out /\ ~ done)
  OBVIOUS
<1>2. End' = End /\ (done' => pos' = End')
  BY DEF End
<1>3. Outside' <=> Outside
  BY <1>1 DEF Outside, flags
<1>4. /\ Horizon' = Horizon
  BY <1>1 DEF Horizon, flags
<1>5. \A i : Opened(i)' <=> Opened(i)
  BY <1>1 DEF Opened, flags, LineOpens, BlockOpens, Two, IsTag, Positions
<1>6. Current'
  <2>1. CASE Outside
    BY <1>1, <1>3, <2>1 DEF Current, Scan
  <2>2. CASE ~ Outside
    <3>1. PICK i \in Positions :
            /\ Last(i) /\ i < pos /\ Opened(i)
            /\ \A k \in (i + 1)..End : k <= Horizon => ~ MayEnd(i, k)
      BY <2>2 DEF Scan, Current
    <3>2. \A k \in (i + 1)..End' : k <= Horizon' => ~ MayEnd(i, k)'
      <4>1. \A k \in (i + 1)..End : k \in Int /\ i \in Int /\ End' = End
        BY <1>1 DEF Positions, End
      <4> QED BY <1>1, <1>2, <1>4, <3>1, <4>1, SameText
    <3>3. i \in Positions' /\ Last(i)' /\ i < pos' /\ Opened(i)'
      BY <1>1, <1>5, <3>1 DEF Positions, Last
    <3> QED BY <1>3, <2>2, <3>2, <3>3 DEF Current
  <2> QED BY <2>1, <2>2
<1>7. Chained'
  <2>1. \A j \in starts : j \in Int
    BY DEF TypeOK
  <2> QED BY <1>1, <2>1, SameText DEF Chained, Scan
<1>8. Labelled'
  <2>1. \A p : (LeftOut(p)' <=> LeftOut(p)) /\ StatementOf(p)' = StatementOf(p)
    BY <1>1 DEF LeftOut, StatementOf, SeparatorsBefore, PartOf, Drops, LineOpens, BlockOpens,
                Two, Positions
  <2>2. Positions' = Positions
    BY <1>1 DEF Positions
  <2>3. SeparatorsBefore(pos)' = SeparatorsBefore(pos)
    BY <1>1 DEF SeparatorsBefore
  <2>4. ~ done' => out' = Cardinality(SeparatorsBefore(pos)')
    BY <1>1, <2>3 DEF Labelled, Scan
  <2>5. ASSUME NEW p \in Positions
        PROVE  /\ p < pos' /\ ~ LeftOut(p)' => into'[p] = StatementOf(p)'
               /\ p < pos' /\ LeftOut(p)' => into'[p] = 0
               /\ p >= pos' => into'[p] = 0
    BY <1>1, <2>1 DEF Labelled, Scan
  <2> QED BY <2>2, <2>4, <2>5 DEF Labelled
<1> QED BY <1>2, <1>6, <1>7, <1>8 DEF Scan

(* What the invariant says when the scan is done. *)
LEMMA DoneMeansTokens ==
  ASSUME TypeOK, Scan, done
  PROVE  /\ AreTokens(starts)
         /\ \A p \in Positions : into[p] = IF LeftOut(p) THEN 0 ELSE StatementOf(p)
<1>1. pos = End /\ pos \in Int /\ Len(text) \in Nat /\ starts \subseteq 1..End
      /\ \A s \in starts : s \in Int
  BY DEF Scan, TypeOK, End
<1>2. ASSUME NEW j \in starts, j # 1
      PROVE  j \in 2..End /\ \E i \in starts : i <= Len(text) /\ i < j /\ TokenTo(i, j)
  <2>1. PICK i \in starts : i < j /\ TokenTo(i, j)
    BY <1>2 DEF Scan, Chained
  <2>2. i \in Int /\ j \in Int /\ 1 <= i /\ j <= End
    BY <1>1
  <2> QED BY <1>1, <2>1, <2>2 DEF End
<1>3. ASSUME NEW j \in 2..End, NEW i \in starts, i <= Len(text), i < j, TokenTo(i, j)
      PROVE  j \in starts
  <2>0. i \in Int /\ j \in Int /\ MayEnd(i, j) /\ \A k \in (i + 1)..(j - 1) : ~ MayEnd(i, k)
    BY <1>1, <1>3 DEF TokenTo
  <2>1. CASE \E k \in starts : i < k
    <3>1. PICK k \in starts : i < k /\ TokenTo(i, k)
      BY <2>1 DEF Scan, Chained
    <3>2. k \in Int /\ MayEnd(i, k) /\ \A h \in (i + 1)..(k - 1) : ~ MayEnd(i, h)
      BY <1>1, <3>1 DEF TokenTo
    <3>3. ~ (j < k) /\ ~ (k < j)
      BY <1>3, <2>0, <3>1, <3>2
    <3> QED BY <2>0, <3>2, <3>3
  <2>2. CASE ~ \E k \in starts : i < k
    <3>1. ~ Outside
      BY <1>1, <1>3, <2>2 DEF Scan, Current, End
    <3>2. PICK h \in Positions :
            /\ Last(h) /\ h < pos /\ Opened(h)
            /\ \A k \in (h + 1)..End : k <= Horizon => ~ MayEnd(h, k)
      BY <3>1 DEF Scan, Current
    <3>3. h = i
      BY <1>1, <2>0, <2>2, <3>2 DEF Last
    <3>4. Horizon >= End
      <4>1. Len(dollar) \in Nat /\ (dollar # <<>> => Len(dollar) # 0)
        BY LenProperties, EmptySeq DEF TypeOK
      <4> QED BY <1>1, <4>1 DEF Horizon
    <3>5. j \in (h + 1)..End /\ j <= Horizon
      <4>1. Horizon \in Int
        <5>1. Len(dollar) \in Nat
          BY LenProperties DEF TypeOK
        <5> QED BY <1>1, <5>1 DEF Horizon
      <4> QED BY <1>1, <1>3, <2>0, <3>3, <3>4, <4>1
    <3> QED BY <2>0, <3>2, <3>3, <3>5
  <2> QED BY <2>1, <2>2
<1>4. AreTokens(starts)
  <2>1. 1 \in starts
    BY DEF Scan, Chained
  <2> QED BY <1>2, <1>3, <2>1 DEF AreTokens, End
<1>5. ASSUME NEW p \in Positions
      PROVE  into[p] = IF LeftOut(p) THEN 0 ELSE StatementOf(p)
  <2>1. p < pos
    BY <1>1 DEF Positions, End
  <2> QED BY <2>1 DEF Scan, Labelled
<1> QED BY <1>4, <1>5

(* splitSQL cuts every script, of any length, in which it meets none of the  *)
(* constructs listed in Regular, exactly at the semicolons that PostgreSQL's *)
(* lexer sees outside quotes and comments, and every rune reaches the        *)
(* statement it belongs to (SplitsAsTheServerReads).                         *)
THEOREM CutsAreTheServers == Spec => []SplitsAsTheServerReads
<1> DEFINE RegularScan == Regular => Scan
<1>1. Init /\ TypeOK => RegularScan
  <2> SUFFICES ASSUME Init, TypeOK PROVE Scan
    OBVIOUS
  <2>1. /\ Outside /\ pos = 1 /\ starts = {1} /\ ~ done /\ out = 0
        /\ into = [p \in Positions |-> 0]
    BY DEF Init, Outside
  <2>2. SeparatorsBefore(pos) = {}
    BY <2>1 DEF SeparatorsBefore
  <2>3. Cardinality({}) = 0
    BY FS_EmptySet
  <2>4. Labelled
    <3>1. \A p \in Positions : ~ (p < pos) /\ into[p] = 0
      BY <2>1 DEF Positions
    <3> QED BY <2>1, <2>2, <2>3, <3>1 DEF Labelled
  <2>5. Chained
    BY <2>1 DEF Chained
  <2>6. Current
    BY <2>1 DEF Current
  <2> QED BY <2>1, <2>4, <2>5, <2>6 DEF Scan
<1>2. TypeOK /\ TypeOK' /\ RegularScan /\ [Next]_vars => RegularScan'
  <2> SUFFICES ASSUME TypeOK, TypeOK', RegularScan, [Next]_vars, Regular' PROVE Scan'
    OBVIOUS
  <2>1. text' = text
    BY DEF Next, vars, OpenLine, OpenBlock, SkipComment, CloseLine, CloseBlock,
           OpenDollar, CloseDollar, Quote, Separate, Copy, Finish, Goto
  <2>2. Regular /\ Scan
    <3>1. starts \subseteq starts'
      BY DEF Next, vars, OpenLine, OpenBlock, SkipComment, CloseLine, CloseBlock,
             OpenDollar, CloseDollar, Quote, Separate, Copy, Finish, Goto
    <3>2. \A i : (BlockOpens(i)' <=> BlockOpens(i)) /\ (Nests(i)' <=> Nests(i))
                /\ (Two(i + 1, "*", "/")' <=> Two(i + 1, "*", "/"))
      BY <2>1 DEF BlockOpens, Nests, Two
    <3>3. \A i, e : (IsTag(i, e)' <=> IsTag(i, e)) /\ (ServerTag(i, e)' <=> ServerTag(i, e))
      BY <2>1 DEF IsTag, ServerTag
    <3>4. Positions' = Positions
      BY <2>1 DEF Positions
    <3>5. \A i \in starts : BlockOpens(i) => ~ Two(i + 1, "*", "/") /\ ~ Nests(i)
      BY <3>1, <3>2 DEF Regular
    <3>6. \A i \in starts, e \in Positions :
            IsTag(i, e) \/ ServerTag(i, e) =>
              /\ text[i + 1] \notin Digits /\ \A k \in i..e : text[k] \notin Wide
              /\ i > 1 => text[i - 1] \notin Word \cup Wide
      BY <2>1, <3>1, <3>3, <3>4 DEF Regular
    <3>7. \A k \in Positions : text[k] \notin Unknown
      BY <2>1, <3>4 DEF Regular
    <3> QED BY <3>5, <3>6, <3>7 DEF Regular
  <2>3. CASE UNCHANGED vars
    <3>1. /\ text' = text /\ pos' = pos /\ flags' = flags /\ into' = into
          /\ starts' = starts /\ out' = out /\ done' = done
      BY <2>3 DEF vars, flags
    <3> QED BY <2>2, <3>1, Rests DEF Scan
  <2>4. CASE Finish
    <3>1. /\ text' = text /\ pos' = pos /\ flags' = flags /\ into' = into
          /\ starts' = starts /\ done' /\ pos > Len(text)
      BY <2>4 DEF Finish
    <3>2. pos = End
      BY <3>1 DEF TypeOK, End
    <3> QED BY <2>2, <3>1, <3>2, Rests
  <2> QED BY <2>2, <2>3, <2>4, OpenLineStep, OpenBlockStep, SkipStep, CloseLineStep,
             CloseBlockStep, OpenDollarStep, CloseDollarStep, QuoteStep, SeparateStep,
             CopyStep DEF Next
<1>3. TypeOK /\ RegularScan => SplitsAsTheServerReads
  BY DoneMeansTokens DEF SplitsAsTheServerReads
<1> QED BY SplitTypeCorrect, <1>1, <1>2, <1>3, PTL DEF Spec
=============================================================================

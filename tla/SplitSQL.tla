----------------------------- MODULE SplitSQL -----------------------------
(***************************************************************************)
(* splitSQL (cmd/migrate/migrate.go): cuts a migration script into the     *)
(* statements that RunSQLFile sends one by one.  One pass over the runes of *)
(* the text with five flags; a step is one iteration of the loop.          *)
(*                                                                         *)
(* What a rune is is told apart only as far as the loop does.  The strings *)
(* of the result are the positions they were copied from: into[p] is the   *)
(* number of the statement rune p was written to, 0 if to none.            *)
(*                                                                         *)
(* The reference (TokenTo) is how PostgreSQL's lexer reads the text.  What  *)
(* it reads in another way than splitSQL is listed in Regular.             *)
(***************************************************************************)
EXTENDS Integers, Sequences, FiniteSets

CONSTANTS Runes,   \* the kinds of runes
          Word,    \* letters, digits and _
          Digits,  \* of these: 0 to 9
          Wide,    \* the runes of more than one byte (here: of two), letters or not
          Texts    \* the scripts

(* The names of the runes: sq and dq for the quotes, nl for a newline, and   *)
(* two that mean something to PostgreSQL only.                               *)
Quotes == {"sq", "dq"}
Unknown == {"backslash", "return"}
Marks == Quotes \cup Unknown \cup {"-", "/", "*", "$", "semi", "nl"}
ASSUME RunesAssumption ==
  /\ Marks \cup Word \cup Wide \subseteq Runes
  /\ Marks \cap (Word \cup Wide) = {}
  /\ Digits \subseteq Word \ Wide
  /\ Texts \subseteq Seq(Runes)

VARIABLES
  text,              \* the script, src
  pos,               \* i
  inS, inD,          \* between ' ', between " "
  inLine, inBlock,   \* in a comment
  dollar,            \* the tag of the dollar quote, or empty
  into,              \* sb and out: position -> number of its statement
  out,               \* how many statements there are in out
  done,
  starts             \* history: where the scan was outside everything

flags == <<inS, inD, inLine, inBlock, dollar>>
vars == <<text, pos, flags, into, out, done, starts>>

Positions == 1..Len(text)

(* At most one of the flags is up, and a tag is a $...$ of the text. *)
TypeOK ==
  /\ text \in Seq(Runes) /\ pos \in 1..(Len(text) + 1)
  /\ inS \in BOOLEAN /\ inD \in BOOLEAN /\ inLine \in BOOLEAN /\ inBlock \in BOOLEAN
  /\ dollar \in Seq(Runes)
  /\ ~ (inS /\ inD) /\ ~ (inLine /\ inBlock)
  /\ inS \/ inD => ~ inLine /\ ~ inBlock /\ dollar = <<>>
  /\ inLine \/ inBlock => dollar = <<>>
  /\ into \in [Positions -> Nat] /\ out \in Nat
  /\ done \in BOOLEAN
  /\ starts \subseteq 1..(Len(text) + 1)

Init ==
  /\ text \in Texts
  /\ pos = 1
  /\ inS = FALSE /\ inD = FALSE /\ inLine = FALSE /\ inBlock = FALSE
  /\ dollar = <<>>
  /\ into = [p \in Positions |-> 0]
  /\ out = 0
  /\ done = FALSE
  /\ starts = {1}

-----------------------------------------------------------------------------
(* What the text holds at a place. *)

Two(i, a, b) == i < Len(text) /\ text[i] = a /\ text[i + 1] = b

(* $tag$ from i to e: a digit may come first. *)
IsTag(i, e) ==
  /\ e \in (i + 1)..Len(text) /\ text[i] = "$" /\ text[e] = "$"
  /\ \A k \in (i + 1)..(e - 1) : text[k] \in Word

(* len(dollar) counts bytes, the positions of the text are runes. *)
ByteLen(s) == Len(s) + Cardinality({k \in DOMAIN s : s[k] \in Wide})

TagAgainAt(i) ==
  /\ i + ByteLen(dollar) - 1 <= Len(text)
  /\ SubSeq(text, i, i + ByteLen(dollar) - 1) = dollar

-----------------------------------------------------------------------------
(* The branches of the loop. *)

Outside == ~ inS /\ ~ inD /\ dollar = <<>> /\ ~ inLine /\ ~ inBlock
OutsideButForTags == ~ inS /\ ~ inD /\ ~ inLine /\ ~ inBlock
MayComment == Outside

OpensLine == MayComment /\ Two(pos, "-", "-")
OpensBlock == MayComment /\ Two(pos, "/", "*")
InComment == inLine \/ inBlock \/ OpensLine \/ OpensBlock
OpensDollar ==
  /\ ~ InComment /\ ~ inS /\ ~ inD /\ dollar = <<>>
  /\ \E e \in Positions : IsTag(pos, e)
ClosesDollar ==
  /\ ~ InComment /\ ~ inS /\ ~ inD /\ dollar # <<>>
  /\ text[pos] = "$" /\ TagAgainAt(pos)
AnyQuote == ~ InComment /\ dollar = <<>> /\ text[pos] = "sq"
IsSingle == ~ InComment /\ dollar = <<>> /\ text[pos] = "sq" /\ ~ inD
IsDouble == ~ InComment /\ dollar = <<>> /\ text[pos] = "dq" /\ ~ inS
Separates == ~ InComment /\ text[pos] = "semi" /\ ~ inS /\ ~ inD /\ dollar = <<>>

Reading == ~ done /\ pos <= Len(text)

(* sb.WriteRune, sb.WriteString *)
Write(first, last) ==
  into' = [p \in Positions |-> IF p \in first..last THEN out + 1 ELSE into[p]]

Goto(i) ==
  /\ pos' = i
  /\ starts' = IF Outside' THEN starts \cup {i} ELSE starts
  /\ UNCHANGED <<text, done>>

OpenLine ==
  /\ Reading /\ OpensLine
  /\ inLine' = TRUE
  /\ UNCHANGED <<inS, inD, inBlock, dollar, into, out>>
  /\ Goto(pos + 1)

OpenBlock ==
  /\ Reading /\ OpensBlock
  /\ inBlock' = TRUE
  /\ UNCHANGED <<inS, inD, inLine, dollar, into, out>>
  /\ Goto(pos + 1)

SkipComment ==
  /\ Reading
  /\ (inLine /\ text[pos] # "nl") \/ (inBlock /\ ~ Two(pos, "*", "/"))
  /\ UNCHANGED <<flags, into, out>>
  /\ Goto(pos + 1)

CloseLine ==
  /\ Reading /\ inLine /\ text[pos] = "nl"
  /\ inLine' = FALSE
  /\ Write(pos, pos)
  /\ UNCHANGED <<inS, inD, inBlock, dollar, out>>
  /\ Goto(pos + 1)

CloseBlock ==
  /\ Reading /\ inBlock /\ Two(pos, "*", "/")
  /\ inBlock' = FALSE
  /\ UNCHANGED <<inS, inD, inLine, dollar, into, out>>
  /\ Goto(pos + 2)

OpenDollar ==
  /\ Reading /\ OpensDollar
  /\ UNCHANGED <<inS, inD, inLine, inBlock, out>>
  /\ \E e \in Positions :
       /\ IsTag(pos, e)
       /\ dollar' = SubSeq(text, pos, e)
       /\ Write(pos, e)
       /\ Goto(e + 1)

CloseDollar ==
  /\ Reading /\ ClosesDollar
  /\ dollar' = <<>>
  /\ Write(pos, pos + Len(dollar) - 1)
  /\ UNCHANGED <<inS, inD, inLine, inBlock, out>>
  /\ Goto(pos + ByteLen(dollar))

Quote ==
  /\ Reading /\ ~ OpensDollar
  /\ IsSingle \/ IsDouble
  /\ inS' = IF IsSingle THEN ~ inS ELSE inS
  /\ inD' = IF IsDouble THEN ~ inD ELSE inD
  /\ Write(pos, pos)
  /\ UNCHANGED <<inLine, inBlock, dollar, out>>
  /\ Goto(pos + 1)

Separate ==
  /\ Reading /\ Separates
  /\ out' = out + 1
  /\ UNCHANGED <<flags, into>>
  /\ Goto(pos + 1)

Copy ==
  /\ Reading /\ ~ InComment
  /\ ~ OpensDollar /\ ~ ClosesDollar /\ ~ IsSingle /\ ~ IsDouble /\ ~ Separates
  /\ Write(pos, pos)
  /\ UNCHANGED <<flags, out>>
  /\ Goto(pos + 1)

(* The rest of the text is a statement unless it is blank. *)
DropsRest == TRUE
BlankRest == \A p \in Positions : into[p] = out + 1 => text[p] = "nl"

Finish ==
  /\ ~ done /\ pos > Len(text)
  /\ out' = IF BlankRest THEN out ELSE out + 1
  /\ done' = TRUE
  /\ UNCHANGED <<text, pos, flags, into, starts>>

Next ==
  \/ OpenLine \/ OpenBlock \/ SkipComment \/ CloseLine \/ CloseBlock
  \/ OpenDollar \/ CloseDollar \/ Quote \/ Separate \/ Copy \/ Finish

Spec == Init /\ [][Next]_vars

-----------------------------------------------------------------------------
(* How PostgreSQL reads the text. *)

LineOpens(i) == Two(i, "-", "-")
BlockOpens(i) == Two(i, "/", "*")

(* Its tags begin with no digit and may have any rune that is not ASCII. *)
ServerTag(i, e) ==
  /\ e \in (i + 1)..Len(text) /\ text[i] = "$" /\ text[e] = "$"
  /\ \A k \in (i + 1)..(e - 1) : text[k] \in Word \cup Wide
  /\ text[i + 1] \notin Digits
TagOpens(i) == \E e \in Positions : ServerTag(i, e)

(* Its comments nest: in the one that starts at i these /* and */ stand      *)
(* before j.  (As a /*/ would be counted twice, see Regular.)                *)
Openings(i, j) == {k \in i..(j - 2) : Two(k, "/", "*") /\ (k = i \/ text[k - 1] # "*")}
Closings(i, j) == {k \in (i + 2)..(j - 2) : Two(k, "*", "/")}

(* A token that starts at i may end before j. *)
MayEnd(i, j) ==
  \/ LineOpens(i) /\ text[j - 1] = "nl"
  \/ /\ BlockOpens(i) /\ j >= i + 4 /\ Two(j - 2, "*", "/")
     /\ Cardinality(Openings(i, j)) = Cardinality(Closings(i, j))
  \/ text[i] \in Quotes /\ j >= i + 2 /\ text[j - 1] = text[i]
  \/ \E e \in Positions :
       /\ ServerTag(i, e) /\ j > e + 1 + e - i
       /\ SubSeq(text, j - 1 - (e - i), j - 1) = SubSeq(text, i, e)
  \/ /\ ~ LineOpens(i) /\ ~ BlockOpens(i) /\ text[i] \notin Quotes /\ ~ TagOpens(i)
     /\ j = i + 1

(* It ends at the first such place; a comment or quote that is not closed   *)
(* goes to the end of the text.                                             *)
TokenTo(i, j) == MayEnd(i, j) /\ \A k \in (i + 1)..(j - 1) : ~ MayEnd(i, k)

(* The places where a token starts.  As tokens go forward there is one such *)
(* set; the last of its members is the end of the text or an open token.    *)
AreTokens(S) ==
  S = {1} \cup {j \in 2..(Len(text) + 1) : \E i \in S : i <= Len(text) /\ i < j /\ TokenTo(i, j)}

(* Rune p belongs to the token that starts at i. *)
PartOf(i, p) == i \in starts /\ i <= p /\ \A k \in (i + 1)..p : k \notin starts

(* Comments and separators are left out; the newline after -- stays. *)
Drops(i, p) ==
  (LineOpens(i) /\ text[p] # "nl") \/ BlockOpens(i) \/ text[i] = "semi"
LeftOut(p) == \E i \in Positions : PartOf(i, p) /\ Drops(i, p)
SeparatorsBefore(p) == {i \in starts : i < p /\ text[i] = "semi"}
StatementOf(p) == 1 + Cardinality(SeparatorsBefore(p))

(* What splitSQL reads otherwise than PostgreSQL, where neither is inside    *)
(* anything: a comment that opens with /*/, which the loop takes for a whole *)
(* one, or has another comment in it; a tag that begins with a digit or has  *)
(* a rune of several bytes; a tag right after a letter, which is a part of   *)
(* an identifier.  And anywhere: a backslash, as in E'\'', and a carriage    *)
(* return, which ends a line.                                                *)
Nests(i) ==
  \E k \in (i + 2)..Len(text) :
    /\ Two(k, "/", "*") /\ text[k - 1] # "*"
    /\ \A c \in (i + 2)..(k - 1) : ~ Two(c, "*", "/")

Regular ==
  /\ \A i \in starts : BlockOpens(i) => ~ Two(i + 1, "*", "/") /\ ~ Nests(i)
  /\ \A i \in starts, e \in Positions :
       IsTag(i, e) \/ ServerTag(i, e) =>
         /\ text[i + 1] \notin Digits /\ \A k \in i..e : text[k] \notin Wide
         /\ i > 1 => text[i - 1] \notin Word \cup Wide
  /\ \A k \in Positions : text[k] \notin Unknown

-----------------------------------------------------------------------------
(* Properties. *)

(* The script is cut where PostgreSQL's lexer would cut it: at the           *)
(* semicolons outside quotes, dollar quotes and comments, wherever -- and    *)
(* /*, quotes and tags stand inside another of those; and no rune of a       *)
(* statement is lost or gets into another one.  The scripts are those in     *)
(* which the scan meets nothing that Regular lists.                          *)
SplitsAsTheServerReads ==
  done /\ Regular =>
    /\ AreTokens(starts)
    /\ \A p \in Positions : into[p] = IF LeftOut(p) THEN 0 ELSE StatementOf(p)

(* The last statement is sent although no semicolon, or an unclosed quote,  *)
(* ends it.                                                                 *)
NothingLeftBehind ==
  done => \A p \in Positions : into[p] > out => text[p] = "nl"
=============================================================================

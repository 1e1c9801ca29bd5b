----------------------- MODULE SelectorCheckerProofs -----------------------
(***************************************************************************)
(* The walk over a selector list, for lists of any length and any names:   *)
(* it invents no class and reports nothing twice, and on the lists it was  *)
(* written for it finds exactly the classes the selectors apply to.        *)
(***************************************************************************)
EXTENDS SelectorChecker, WellFoundedInduction, SequenceTheorems, TLAPS

-----------------------------------------------------------------------------
(* What an IndexSet holds after insert, extend and pop.                    *)

LEMMA LeastExists ==
  ASSUME NEW S \in SUBSET Nat, S # {}
  PROVE  \E m \in S : \A k \in S : m <= k
<1>1. PICK m \in S : \A k \in S : ~ (<<k, m>> \in OpToRel(<, Nat))
  BY NatLessThanWellFounded, WFMin, Zenon
<1>2. \A k \in S : m <= k
  <2> TAKE k \in S
  <2>1. ~ (<<k, m>> \in OpToRel(<, Nat))
    BY <1>1
  <2>2. <<k, m>> \in Nat \X Nat
    OBVIOUS
  <2>3. ~ (k < m)
    BY <2>1, <2>2 DEF OpToRel
  <2> QED BY <2>3
<1> QED BY <1>2

LEMMA AppendFacts ==
  ASSUME NEW S, NEW q \in Seq(S), NEW c \in S
  PROVE  /\ Append(q, c) \in Seq(S) /\ Append(q, c) # <<>>
         /\ Range(Append(q, c)) = Range(q) \cup {c}
         /\ Front(Append(q, c)) = q
<1> DEFINE r == Append(q, c)
<1>1. /\ r \in Seq(S) /\ r # <<>> /\ Len(r) = Len(q) + 1 /\ Len(q) \in Nat
      /\ DOMAIN q = 1 .. Len(q) /\ DOMAIN r = (1 .. Len(q)) \cup {Len(q) + 1}
      /\ r[Len(q) + 1] = c /\ \A i \in 1 .. Len(q) : r[i] = q[i]
  OBVIOUS
<1>2. Front(r) = q
  BY <1>1 DEF Front
<1> HIDE DEF r
<1>3. Range(r) = Range(q) \cup {c}
  BY <1>1 DEF Range
<1> QED BY <1>1, <1>2, <1>3 DEF r

LEMMA FrontFacts ==
  ASSUME NEW S, NEW q \in Seq(S)
  PROVE  Front(q) \in Seq(S) /\ Range(Front(q)) \subseteq Range(q)
<1>1. Front(q) \in Seq(S) /\ \A i \in DOMAIN Front(q) : i \in DOMAIN q /\ Front(q)[i] = q[i]
  BY DEF Front
<1> QED BY <1>1 DEF Range

LEMMA InsertFacts ==
  ASSUME NEW S, NEW q \in Seq(S), NEW c \in S
  PROVE  /\ Insert(q, c) \in Seq(S)
         /\ Range(Insert(q, c)) = Range(q) \cup {c}
         /\ c \notin Range(q) => Insert(q, c) # <<>> /\ Front(Insert(q, c)) = q
<1>1. Contains(q, c) <=> c \in Range(q)
  BY DEF Contains, Range
<1> QED BY <1>1, AppendFacts DEF Insert

(* extend is defined by recursion: it is defined at all, and adds as many  *)
(* of the new names as there are, since there is no least number at which  *)
(* it is not or does not.                                                  *)
Extends(f, q, more, m) ==
  f = [n \in 0 .. m |-> IF n = 0 THEN q ELSE Insert(f[n - 1], more[n])]

First(q, n) == {q[i] : i \in 1 .. n}

LEMMA ExtendsNext ==
  ASSUME NEW q, NEW more, NEW m \in Nat \ {0}, NEW f, Extends(f, q, more, m - 1)
  PROVE  \E g : Extends(g, q, more, m)
<1> DEFINE g == [n \in 0 .. m |-> IF n = m THEN Insert(f[m - 1], more[m]) ELSE f[n]]
<1>1. \A n \in 0 .. m : g[n] = IF n = 0 THEN q ELSE Insert(g[n - 1], more[n])
  <2> TAKE n \in 0 .. m
  <2>1. CASE n = m
    BY <2>1
  <2>2. CASE n # m /\ n = 0
    BY <2>2 DEF Extends
  <2>3. CASE n # m /\ n # 0
    <3>1. n \in 0 .. m - 1 /\ n - 1 \in 0 .. m /\ n - 1 # m
      BY <2>3
    <3>2. g[n] = f[n] /\ g[n - 1] = f[n - 1]
      BY <2>3, <3>1
    <3>3. f[n] = Insert(f[n - 1], more[n])
      BY <2>3, <3>1 DEF Extends
    <3> QED BY <2>3, <3>2, <3>3
  <2> QED BY <2>1, <2>2, <2>3
<1>2. g = [n \in 0 .. m |-> g[n]]
  OBVIOUS
<1> HIDE DEF g
<1> QED BY <1>1, <1>2 DEF Extends

LEMMA ExtendsExists ==
  ASSUME NEW q, NEW more, NEW len \in Nat
  PROVE  \E f : Extends(f, q, more, len)
<1> DEFINE Undefined == {m \in Nat : ~ \E f : Extends(f, q, more, m)}
<1>1. SUFFICES ASSUME Undefined # {} PROVE FALSE
  OBVIOUS
<1>2. PICK m \in Undefined : \A k \in Undefined : m <= k
  <2>1. Undefined \in SUBSET Nat
    OBVIOUS
  <2> HIDE DEF Undefined
  <2> QED BY <1>1, <2>1, LeastExists
<1>3. CASE m = 0
  <2>1. Extends([n \in 0 .. 0 |-> q], q, more, 0)
    BY DEF Extends
  <2> QED BY <1>2, <1>3, <2>1
<1>4. CASE m # 0
  <2>1. m \in Nat \ {0} /\ m - 1 \in Nat /\ ~(m <= m - 1)
    BY <1>4
  <2>2. m - 1 \notin Undefined
    BY <1>2, <2>1
  <2>3. PICK f : Extends(f, q, more, m - 1)
    BY <2>1, <2>2
  <2>4. \E g : Extends(g, q, more, m)
    BY <2>1, <2>3, ExtendsNext
  <2> QED BY <1>2, <2>4
<1> QED BY <1>3, <1>4

LEMMA ExtendsRange ==
  ASSUME NEW S, NEW q \in Seq(S), NEW more \in Seq(S),
         NEW f, Extends(f, q, more, Len(more)), NEW len \in 0 .. Len(more)
  PROVE  f[len] \in Seq(S) /\ Range(f[len]) = Range(q) \cup First(more, len)
<1> DEFINE Good(n) == f[n] \in Seq(S) /\ Range(f[n]) = Range(q) \cup First(more, n)
           Bad == {n \in 0 .. Len(more) : ~Good(n)}
<1>1. SUFFICES ASSUME Bad # {} PROVE FALSE
  OBVIOUS
<1>2. PICK n \in Bad : \A k \in Bad : n <= k
  <2>1. Bad \in SUBSET Nat
    OBVIOUS
  <2> HIDE DEF Bad
  <2> QED BY <1>1, <2>1, LeastExists
<1>3. n \in 0 .. Len(more) /\ n \in Nat /\ Len(more) \in Nat /\ ~Good(n)
  BY <1>2
<1>4. CASE n = 0
  <2>1. f[0] = q
    BY <1>3 DEF Extends
  <2>2. First(more, 0) = {}
    BY DEF First
  <2> QED BY <1>3, <1>4, <2>1, <2>2
<1>5. CASE n # 0
  <2>1. n - 1 \in 0 .. Len(more) /\ ~(n <= n - 1) /\ n \in 1 .. Len(more)
    BY <1>3, <1>5
  <2>2. more[n] \in S
    BY <2>1
  <2>3. f[n] = Insert(f[n - 1], more[n])
    BY <1>3, <1>5 DEF Extends
  <2>4. Good(n - 1)
    <3>1. n - 1 \notin Bad
      BY <1>2, <2>1
    <3> HIDE DEF Good
    <3> QED BY <2>1, <3>1
  <2>5. f[n] \in Seq(S) /\ Range(f[n]) = Range(f[n - 1]) \cup {more[n]}
    <3>1. f[n - 1] \in Seq(S)
      BY <2>4
    <3> HIDE DEF Good, Bad
    <3>2. \A r \in Seq(S), c \in S : Insert(r, c) \in Seq(S) /\ Range(Insert(r, c)) = Range(r) \cup {c}
      BY InsertFacts
    <3> QED BY <2>2, <2>3, <3>1, <3>2
  <2>6. 1 .. n = (1 .. n - 1) \cup {n}
    BY <2>1
  <2>7. First(more, n) = First(more, n - 1) \cup {more[n]}
    BY <2>6 DEF First
  <2> QED BY <1>3, <2>4, <2>5, <2>7
<1> QED BY <1>4, <1>5

LEMMA ExtendFacts ==
  ASSUME NEW S, NEW q \in Seq(S), NEW more \in Seq(S)
  PROVE  /\ Extend(q, more) \in Seq(S)
         /\ Range(Extend(q, more)) = Range(q) \cup Range(more)
<1> DEFINE upto == CHOOSE f : Extends(f, q, more, Len(more))
           end == Len(more)
<1>1. end \in 0 .. Len(more) /\ Len(more) \in Nat
  OBVIOUS
<1>2. Extends(upto, q, more, Len(more))
  BY <1>1, ExtendsExists
<1>3. Extend(q, more) = upto[end]
  BY DEF Extend, Extends
<1> HIDE DEF upto, end
<1>4. upto[end] \in Seq(S) /\ Range(upto[end]) = Range(q) \cup First(more, end)
  BY <1>1, <1>2, ExtendsRange
<1>5. Range(more) = First(more, end)
  BY DEF Range, First, end
<1> QED BY <1>3, <1>4, <1>5

-----------------------------------------------------------------------------
(* The invariant of every walk.                                            *)

ErrorKind == {"NoSuchClass", "NotPseudo", "NoSuchState", "NoCombinator", "Adjacent"}

TypeOK ==
  /\ list \in Seq(Node) /\ parents \in Seq(Name)
  /\ at \in 0 .. Len(list) + 1
  /\ mode \in {"start", "begin", "consume", "past", "end"}
  /\ mode = "start" => at = 0
  /\ mode \in {"begin", "consume", "past"} => at \in 1 .. Len(list)
  /\ held \in Name /\ classes \in Seq(Name)
  /\ errors \in Seq(ErrorKind \X Nat)

(* c is an Instance, comes from the rule around, or is named up to node i. *)
ComesFrom(c, i) ==
  \/ c \in {Instance} \cup Range(parents)
  \/ \E j \in DOMAIN list : j <= i /\ list[j].kind \in {"class", "pseudo"} /\ list[j].name = c

FromWalk == \A c \in Range(classes) \cup {held} : ComesFrom(c, at)

(* What is reported is about one node after the other, and before the node *)
(* that a selector is to begin at.                                         *)
Reported(es, i) ==
  /\ \A m, n \in DOMAIN es : m < n => es[m][2] <= es[n][2] /\ es[m] # es[n]
  /\ \A n \in DOMAIN es : es[n][2] <= i

IInv ==
  /\ TypeOK
  /\ FromWalk
  /\ Reported(errors, IF mode = "begin" THEN at - 1 ELSE at)

LEMMA ListFacts ==
  ASSUME TypeOK
  PROVE  /\ Len(list) \in Nat /\ DOMAIN list = 1 .. Len(list)
         /\ \A i \in 1 .. Len(list) : list[i].kind \in Kind /\ list[i].name \in Name
<1>1. list \in Seq(Node)
  BY DEF TypeOK
<1>2. \A node \in Node : node.kind \in Kind /\ node.name \in Name
  BY DEF Node
<1> QED BY <1>1, <1>2

LEMMA InstanceName == Instance \in Name /\ \A c \in Name : Valid(c) \in Name /\ Valid(c) \in {c, Instance}
  BY NameAssumption DEF Valid

(* The next token, or the end of the list.                                 *)
LEMMA TokenFacts ==
  ASSUME TypeOK, NEW i \in Nat \ {0}
  PROVE  \/ Token(i) = Len(list) + 1 /\ \A j \in i .. Len(list) : list[j].kind = "call"
         \/ /\ Token(i) \in i .. Len(list) /\ list[Token(i)].kind # "call"
            /\ \A j \in i .. Token(i) - 1 : list[j].kind = "call"
<1> DEFINE tokens == {j \in i .. Len(list) : list[j].kind # "call"}
<1>1. Len(list) \in Nat
  BY ListFacts
<1>2. CASE tokens = {}
  BY <1>2 DEF Token
<1>3. CASE tokens # {}
  <2>1. tokens \in SUBSET Nat
    BY <1>1
  <2>2. \E j \in tokens : \A k \in tokens : j <= k
    <3> HIDE DEF tokens
    <3> QED BY <1>3, <2>1, LeastExists
  <2>3. Token(i) \in tokens /\ \A k \in tokens : Token(i) <= k
    BY <1>3, <2>2 DEF Token
  <2>4. \A j \in i .. Token(i) - 1 : list[j].kind = "call"
    <3> TAKE j \in i .. Token(i) - 1
    <3>1. j \in i .. Len(list) /\ ~(Token(i) <= j)
      BY <1>1, <2>3
    <3> QED BY <2>3, <3>1
  <2> QED BY <2>3, <2>4
<1> QED BY <1>2, <1>3

LEMMA UpcomingFacts ==
  ASSUME TypeOK, at <= Len(list)
  PROVE  /\ Upcoming \in at + 1 .. Len(list) + 1
         /\ ~Exhausted(Upcoming) => Upcoming \in 1 .. Len(list)
         /\ ~Exhausted(Upcoming) => Token(Upcoming + 1) \in Upcoming + 1 .. Len(list) + 1
<1>1. at \in Nat /\ Len(list) \in Nat
  BY ListFacts DEF TypeOK
<1>2. Upcoming \in at + 1 .. Len(list) + 1
  <2>1. at + 1 \in Nat \ {0}
    BY <1>1
  <2> QED BY <1>1, <2>1, TokenFacts DEF Upcoming
<1>3. ASSUME ~Exhausted(Upcoming) PROVE Token(Upcoming + 1) \in Upcoming + 1 .. Len(list) + 1
  <2>1. Upcoming + 1 \in Nat \ {0} /\ Upcoming \in 1 .. Len(list)
    BY <1>1, <1>2, <1>3 DEF Exhausted
  <2> QED BY <1>1, <2>1, TokenFacts
<1> QED BY <1>1, <1>2, <1>3 DEF Exhausted

-----------------------------------------------------------------------------
(* The errors about a node.                                                *)

AboutNode(es, i) ==
  es \in Seq(ErrorKind \X {i}) /\ \A m, n \in DOMAIN es : m < n => es[m] # es[n]

LEMMA AboutOne ==
  ASSUME NEW i, NEW e \in ErrorKind \X {i}
  PROVE  AboutNode(<<e>>, i)
  BY DEF AboutNode

LEMMA AboutTwo ==
  ASSUME NEW i, NEW e \in ErrorKind \X {i}, NEW f \in ErrorKind \X {i}, e # f
  PROVE  AboutNode(<<e>> \o <<f>>, i)
<1> DEFINE T == ErrorKind \X {i}
           s == <<e>>
           t == <<f>>
<1>1. s \in Seq(T) /\ t \in Seq(T) /\ Len(s) = 1 /\ Len(t) = 1 /\ s[1] = e /\ t[1] = f
  OBVIOUS
<1> HIDE DEF T, s, t
<1>2. s \o t \in Seq(T) /\ Len(s \o t) = 2 /\ (s \o t)[1] = e /\ (s \o t)[2] = f
  <2>1. s \o t \in Seq(T) /\ Len(s \o t) = 1 + 1
    BY <1>1, ConcatProperties
  <2>2. \A n \in 1 .. 1 + 1 : (s \o t)[n] = IF n <= 1 THEN s[n] ELSE t[n - 1]
    BY <1>1, ConcatProperties
  <2> QED BY <1>1, <2>1, <2>2
<1>3. DOMAIN (s \o t) = 1 .. 2
  BY <1>2
<1>4. \A m, n \in 1 .. 2 : m < n => m = 1 /\ n = 2
  OBVIOUS
<1>5. AboutNode(s \o t, i)
  BY <1>2, <1>3, <1>4 DEF AboutNode, T
<1> QED BY <1>5 DEF s, t

LEMMA ErrorsAbout ==
  ASSUME NEW i \in Nat
  PROVE  /\ AboutNode(<<>>, i)
         /\ AboutNode(ClassErrors(i), i) /\ AboutNode(PseudoErrors(i), i) /\ AboutNode(StateErrors(i), i)
         /\ AboutNode(<<<<"NoCombinator", i>>>> \o ClassErrors(i), i)
         /\ AboutNode(<<<<"Adjacent", i>>>>, i)
<1> DEFINE noClass == <<"NoSuchClass", i>>
           notPseudo == <<"NotPseudo", i>>
           noState == <<"NoSuchState", i>>
           noCombinator == <<"NoCombinator", i>>
           adjacent == <<"Adjacent", i>>
<1>1. /\ noClass \in ErrorKind \X {i} /\ notPseudo \in ErrorKind \X {i} /\ noState \in ErrorKind \X {i}
      /\ noCombinator \in ErrorKind \X {i} /\ adjacent \in ErrorKind \X {i}
  BY DEF ErrorKind
<1>2. noClass # notPseudo /\ noCombinator # noClass
  OBVIOUS
<1>3. AboutNode(<<>>, i)
  BY DEF AboutNode
<1>4. ClassErrors(i) = <<>> \/ ClassErrors(i) = <<noClass>>
  BY DEF ClassErrors
<1>5. StateErrors(i) = <<>> \/ StateErrors(i) = <<noState>>
  BY DEF StateErrors
<1>6. PseudoErrors(i) = ClassErrors(i) \o <<>> \/ PseudoErrors(i) = ClassErrors(i) \o <<notPseudo>>
  BY DEF PseudoErrors
<1> HIDE DEF noClass, notPseudo, noState, noCombinator, adjacent
<1>7. \A e : <<>> \o <<e>> = <<e>> /\ <<e>> \o <<>> = <<e>>
  OBVIOUS
<1>8. <<>> \o <<>> = <<>>
  OBVIOUS
<1>9. AboutNode(ClassErrors(i), i) /\ AboutNode(StateErrors(i), i)
  BY <1>1, <1>3, <1>4, <1>5, AboutOne
<1>10. AboutNode(<<noCombinator>> \o ClassErrors(i), i)
  BY <1>1, <1>2, <1>4, <1>7, AboutOne, AboutTwo
<1>11. AboutNode(PseudoErrors(i), i)
  BY <1>1, <1>2, <1>3, <1>4, <1>6, <1>7, <1>8, AboutOne, AboutTwo
<1>12. AboutNode(<<adjacent>>, i)
  BY <1>1, AboutOne
<1> QED BY <1>3, <1>9, <1>10, <1>11, <1>12 DEF noCombinator, adjacent

LEMMA ReportedMore ==
  ASSUME NEW es \in Seq(ErrorKind \X Nat), NEW i \in Nat, Reported(es, i - 1),
         NEW new, AboutNode(new, i)
  PROVE  es \o new \in Seq(ErrorKind \X Nat) /\ Reported(es \o new, i)
<1> DEFINE all == es \o new
           p == Len(es)
           q == Len(new)
<1>1. new \in Seq(ErrorKind \X {i}) /\ new \in Seq(ErrorKind \X Nat)
  BY DEF AboutNode
<1>2. p \in Nat /\ q \in Nat /\ DOMAIN es = 1 .. p /\ DOMAIN new = 1 .. q /\ DOMAIN all = 1 .. p + q
  BY <1>1
<1>3. all \in Seq(ErrorKind \X Nat)
  BY <1>1
<1>4. \A n \in 1 .. q : new[n][2] = i
  <2> TAKE n \in 1 .. q
  <2>1. new[n] \in ErrorKind \X {i}
    BY <1>1
  <2> QED BY <2>1
<1>5. \A n \in 1 .. p : es[n][2] \in Nat /\ es[n][2] <= i - 1
  <2> TAKE n \in 1 .. p
  <2>1. es[n] \in ErrorKind \X Nat
    OBVIOUS
  <2> QED BY <2>1 DEF Reported
<1>6. \A n \in 1 .. p : all[n] = es[n]
  BY <1>1
<1>7. \A n \in p + 1 .. p + q : all[n] = new[n - p]
  BY <1>1
<1> HIDE DEF all, p, q
<1>8. \A n \in 1 .. p + q : n \in 1 .. p \/ (n \in p + 1 .. p + q /\ n - p \in 1 .. q)
  BY <1>2
<1>9. \A n \in p + 1 .. p + q : n - p \in 1 .. q /\ all[n][2] = i
  BY <1>2, <1>4, <1>7
<1>10. \A n \in DOMAIN all : all[n][2] <= i
  <2> TAKE n \in DOMAIN all
  <2>1. CASE n \in 1 .. p
    BY <1>5, <1>6, <2>1
  <2>2. CASE n \in p + 1 .. p + q
    BY <1>9, <2>2
  <2> QED BY <1>2, <1>8, <2>1, <2>2
<1>11. ASSUME NEW m \in DOMAIN all, NEW n \in DOMAIN all, m < n
       PROVE  all[m][2] <= all[n][2] /\ all[m] # all[n]
  <2>1. CASE m \in 1 .. p /\ n \in 1 .. p
    BY <1>2, <1>6, <1>11, <2>1 DEF Reported
  <2>2. CASE m \in 1 .. p /\ n \in p + 1 .. p + q
    <3>1. all[n][2] = i /\ all[m][2] <= i - 1 /\ all[m][2] \in Nat
      BY <1>5, <1>6, <1>9, <2>2
    <3> QED BY <3>1
  <2>3. CASE m \in p + 1 .. p + q /\ n \in p + 1 .. p + q
    <3>1. m - p \in 1 .. q /\ n - p \in 1 .. q /\ m - p < n - p
      BY <1>2, <1>11, <2>3
    <3>2. new[m - p] # new[n - p]
      BY <1>2, <3>1 DEF AboutNode
    <3>3. all[n][2] = i /\ all[m][2] = i
      BY <1>9, <2>3
    <3> QED BY <1>7, <2>3, <3>2, <3>3
  <2>4. m \in 1 .. p + q /\ n \in 1 .. p + q
    BY <1>2
  <2>5. n \in 1 .. p => m \in 1 .. p
    BY <1>2, <1>11, <2>4
  <2> QED BY <1>8, <2>1, <2>2, <2>3, <2>4, <2>5
<1>12. Reported(all, i)
  BY <1>10, <1>11 DEF Reported
<1> QED BY <1>3, <1>12 DEF all

-----------------------------------------------------------------------------
(* Every step keeps the invariant.                                         *)

LEMMA ReportedLater ==
  ASSUME NEW es \in Seq(ErrorKind \X Nat), NEW i \in Int, NEW j \in Int, i <= j, Reported(es, i)
  PROVE  Reported(es, j)
<1>1. ASSUME NEW n \in DOMAIN es PROVE es[n][2] <= j
  <2>1. es[n] \in ErrorKind \X Nat
    OBVIOUS
  <2>2. es[n][2] \in Nat /\ es[n][2] <= i
    BY <2>1 DEF Reported
  <2> QED BY <2>2
<1> QED BY <1>1 DEF Reported

LEMMA ComesFromLater ==
  ASSUME NEW c, NEW i \in Int, NEW j \in Int, i <= j, DOMAIN list \subseteq Nat, ComesFrom(c, i)
  PROVE  ComesFrom(c, j)
  BY DEF ComesFrom

LEMMA ComesFromNode ==
  ASSUME NEW i \in DOMAIN list, DOMAIN list \subseteq Nat, list[i].kind \in {"class", "pseudo"}
  PROVE  ComesFrom(Valid(list[i].name), i)
  BY DEF ComesFrom, Valid

LEMMA WalkStep ==
  ASSUME IInv, UNCHANGED <<list, parents>>,
         NEW i \in at .. Len(list) + 1, at' = i,
         mode' \in {"begin", "consume", "past", "end"},
         mode' \in {"begin", "consume", "past"} => i \in 1 .. Len(list),
         mode' = "begin" => i # at /\ errors' = errors,
         held' \in Name /\ (held' = held \/ ComesFrom(held', i)),
         classes' \in Seq(Name), \A c \in Range(classes') : c \in Range(classes) \/ ComesFrom(c, i),
         \/ errors' = errors
         \/ /\ i # at \/ mode = "begin"
            /\ \E new : AboutNode(new, i) /\ errors' = errors \o new
  PROVE  IInv'
<1>1. /\ at \in Nat /\ i \in Nat /\ Len(list) \in Nat /\ errors \in Seq(ErrorKind \X Nat)
      /\ DOMAIN list \subseteq Nat
  BY ListFacts DEF IInv, TypeOK
<1>2. /\ at \in Int /\ i \in Int /\ at - 1 \in Int /\ i - 1 \in Int
      /\ at <= i /\ at - 1 <= at /\ at - 1 <= i - 1
  BY <1>1
<1>3. Reported(errors, at)
  <2>1. CASE mode = "begin"
    <3>1. Reported(errors, at - 1)
      BY <2>1 DEF IInv
    <3> QED BY <1>1, <1>2, <3>1, ReportedLater
  <2>2. CASE mode # "begin"
    BY <2>2 DEF IInv
  <2> QED BY <2>1, <2>2
<1>4. ASSUME i # at \/ mode = "begin" PROVE Reported(errors, i - 1)
  <2>1. CASE i # at
    <3>1. at <= i - 1
      BY <1>1, <2>1
    <3> QED BY <1>1, <1>2, <1>3, <3>1, ReportedLater
  <2>2. CASE mode = "begin"
    <3>1. Reported(errors, at - 1)
      BY <2>2 DEF IInv
    <3> QED BY <1>1, <1>2, <3>1, ReportedLater
  <2> QED BY <1>4, <2>1, <2>2
<1>5. errors' \in Seq(ErrorKind \X Nat) /\ Reported(errors', IF mode' = "begin" THEN i - 1 ELSE i)
  <2>1. CASE errors' = errors /\ mode' = "begin"
    BY <1>1, <1>4, <2>1
  <2>2. CASE errors' = errors /\ mode' # "begin"
    <3>1. Reported(errors, i)
      BY <1>1, <1>2, <1>3, ReportedLater
    <3> QED BY <1>1, <2>2, <3>1
  <2>3. CASE errors' # errors
    <3>1. PICK new : AboutNode(new, i) /\ errors' = errors \o new
      BY <2>3
    <3>2. Reported(errors, i - 1)
      BY <1>4, <2>3
    <3> QED BY <1>1, <2>3, <3>1, <3>2, ReportedMore
  <2> QED BY <2>1, <2>2, <2>3
<1>6. TypeOK'
  BY <1>1, <1>5 DEF IInv, TypeOK
<1>7. FromWalk'
  <2>1. \A c \in Range(classes) \cup {held} : ComesFrom(c, i)
    <3> TAKE c \in Range(classes) \cup {held}
    <3>1. ComesFrom(c, at)
      BY DEF IInv, FromWalk
    <3> QED BY <1>1, <1>2, <3>1, ComesFromLater
  <2>2. \A c \in Range(classes') \cup {held'} : ComesFrom(c, i)
    BY <2>1
  <2> QED BY <2>2 DEF FromWalk, ComesFrom
<1> QED BY <1>5, <1>6, <1>7 DEF IInv

(* The steps that look at one node, and those that go on to another.       *)
LEMMA BeginFacts ==
  ASSUME IInv, mode = "begin"
  PROVE  /\ at \in 1 .. Len(list) /\ at \in DOMAIN list /\ at \in at .. Len(list) + 1 /\ at \in Nat
         /\ DOMAIN list \subseteq Nat /\ list[at].name \in Name /\ Valid(list[at].name) \in Name
         /\ classes \in Seq(Name) /\ parents \in Seq(Name) /\ held \in Name
  BY ListFacts, InstanceName DEF IInv, TypeOK

LEMMA ConsumeFacts ==
  ASSUME IInv, mode \in {"consume", "past"}
  PROVE  /\ Upcoming \in at .. Len(list) + 1 /\ Upcoming # at /\ at \in Nat /\ Upcoming \in Nat
         /\ DOMAIN list \subseteq Nat /\ classes \in Seq(Name) /\ held \in Name
         /\ \A c \in {held} : ComesFrom(c, Upcoming)
         /\ ~Exhausted(Upcoming) =>
              /\ Upcoming \in DOMAIN list /\ Upcoming \in 1 .. Len(list)
              /\ list[Upcoming].name \in Name /\ Valid(list[Upcoming].name) \in Name
              /\ Token(Upcoming + 1) \in at .. Len(list) + 1 /\ Token(Upcoming + 1) # at
<1>1. TypeOK /\ at \in 1 .. Len(list) /\ Len(list) \in Nat /\ DOMAIN list = 1 .. Len(list)
  BY ListFacts DEF IInv, TypeOK
<1>2. Upcoming \in at + 1 .. Len(list) + 1
  BY <1>1, UpcomingFacts
<1>3. ComesFrom(held, Upcoming)
  BY <1>1, <1>2, ComesFromLater DEF IInv, FromWalk
<1>4. ASSUME ~Exhausted(Upcoming)
      PROVE  /\ Upcoming \in 1 .. Len(list)
             /\ Token(Upcoming + 1) \in at .. Len(list) + 1 /\ Token(Upcoming + 1) # at
  BY <1>1, <1>2, <1>4, UpcomingFacts
<1> QED BY <1>1, <1>2, <1>3, <1>4, ListFacts, InstanceName DEF TypeOK

LEMMA StartStep ==
  ASSUME IInv, Start
  PROVE  IInv'
<1>1. TypeOK /\ at = 0 /\ Len(list) \in Nat /\ held \in Name /\ classes \in Seq(Name)
  BY ListFacts DEF IInv, TypeOK, Start
<1>2. Upcoming \in at .. Len(list) + 1 /\ Upcoming # at /\ (~Exhausted(Upcoming) => Upcoming \in 1 .. Len(list))
  BY <1>1, UpcomingFacts
<1>3. /\ UNCHANGED <<list, parents>> /\ at' = Upcoming
      /\ mode' = IF Exhausted(Upcoming) THEN "end" ELSE "begin"
      /\ held' = held /\ classes' = classes /\ errors' = errors
  BY DEF Start, BeginAt
<1> QED BY <1>1, <1>2, <1>3, WalkStep

LEMMA BeginNamedStep ==
  ASSUME IInv, BeginNamed
  PROVE  IInv'
<1>1. mode = "begin"
  BY DEF BeginNamed, Beginning
<1>2. classes' \in Seq(Name) /\ \A c \in Range(classes') : c \in Range(classes) \/ ComesFrom(c, at)
  BY <1>1, BeginFacts, InstanceName, InsertFacts DEF BeginNamed, ComesFrom
<1>3. /\ UNCHANGED <<list, parents>> /\ at' = at /\ mode' = "past"
      /\ held' = held /\ errors' = errors
  BY DEF BeginNamed
<1> QED BY <1>1, <1>2, <1>3, BeginFacts, WalkStep

LEMMA BeginPseudoStep ==
  ASSUME IInv, BeginPseudo
  PROVE  IInv'
<1>1. mode = "begin" /\ list[at].kind = "pseudo"
  BY DEF BeginPseudo, Beginning
<1>2. ComesFrom(Valid(list[at].name), at)
  BY <1>1, BeginFacts, ComesFromNode
<1>3. classes' \in Seq(Name) /\ \A c \in Range(classes') : c \in Range(classes) \/ ComesFrom(c, at)
  BY <1>1, <1>2, BeginFacts, InsertFacts DEF BeginPseudo
<1>4. AboutNode(PseudoErrors(at), at) /\ errors' = errors \o PseudoErrors(at)
  BY <1>1, BeginFacts, ErrorsAbout DEF BeginPseudo
<1>5. UNCHANGED <<list, parents>> /\ at' = at /\ mode' = "past" /\ held' = held
  BY DEF BeginPseudo
<1> QED BY <1>1, <1>3, <1>4, <1>5, BeginFacts, WalkStep

LEMMA BeginStateStep ==
  ASSUME IInv, BeginState
  PROVE  IInv'
<1>1. mode = "begin"
  BY DEF BeginState, Beginning
<1>2. classes' \in Seq(Name) /\ \A c \in Range(classes') : c \in Range(classes) \/ ComesFrom(c, at)
  <2>1. CASE AtTop
    BY <1>1, <2>1, BeginFacts, InstanceName, InsertFacts DEF BeginState, ComesFrom
  <2>2. CASE ~AtTop
    <3>1. classes' \in Seq(Name) /\ Range(classes') = Range(classes) \cup Range(parents)
      BY <1>1, <2>2, BeginFacts, ExtendFacts DEF BeginState
    <3> QED BY <3>1 DEF ComesFrom
  <2> QED BY <2>1, <2>2
<1>3. AboutNode(StateErrors(at), at) /\ errors' = errors \o StateErrors(at)
  BY <1>1, BeginFacts, ErrorsAbout DEF BeginState
<1>4. UNCHANGED <<list, parents>> /\ at' = at /\ mode' = "past" /\ held' = held
  BY DEF BeginState
<1> QED BY <1>1, <1>2, <1>3, <1>4, BeginFacts, WalkStep

LEMMA BeginClassStep ==
  ASSUME IInv, BeginClass
  PROVE  IInv'
<1>1. mode = "begin" /\ list[at].kind = "class"
  BY DEF BeginClass, Beginning
<1>2. held' \in Name /\ ComesFrom(held', at)
  BY <1>1, BeginFacts, ComesFromNode DEF BeginClass
<1>3. AboutNode(ClassErrors(at), at) /\ errors' = errors \o ClassErrors(at)
  BY <1>1, BeginFacts, ErrorsAbout DEF BeginClass
<1>4. UNCHANGED <<list, parents>> /\ at' = at /\ mode' = "consume" /\ classes' = classes
  BY DEF BeginClass
<1> QED BY <1>1, <1>2, <1>3, <1>4, BeginFacts, WalkStep

LEMMA BeginClassNestedStep ==
  ASSUME IInv, BeginClassNested
  PROVE  IInv'
<1>1. mode = "begin" /\ list[at].kind = "class"
  BY DEF BeginClassNested, Beginning
<1>2. ComesFrom(Valid(list[at].name), at)
  BY <1>1, BeginFacts, ComesFromNode
<1>3. classes' \in Seq(Name) /\ \A c \in Range(classes') : c \in Range(classes) \/ ComesFrom(c, at)
  BY <1>1, <1>2, BeginFacts, InsertFacts DEF BeginClassNested
<1>4. \E new : AboutNode(new, at) /\ errors' = errors \o new
  <2>1. CASE combined
    <3>1. <<>> \o ClassErrors(at) = ClassErrors(at)
      BY DEF ClassErrors
    <3>2. errors' = errors \o (<<>> \o ClassErrors(at)) \/ errors' = (errors \o <<>>) \o ClassErrors(at)
      BY <2>1 DEF BeginClassNested
    <3>3. errors \o <<>> = errors
      BY DEF IInv, TypeOK
    <3> QED BY <1>1, <3>1, <3>2, <3>3, BeginFacts, ErrorsAbout
  <2>2. CASE ~combined
    <3>1. errors' = errors \o (<<<<"NoCombinator", at>>>> \o ClassErrors(at))
      <4> DEFINE e == <<<<"NoCombinator", at>>>>
                 T == ErrorKind \X Nat
      <4>1. errors' = (errors \o e) \o ClassErrors(at)
        BY <2>2 DEF BeginClassNested
      <4>2. errors \in Seq(T) /\ e \in Seq(T) /\ ClassErrors(at) \in Seq(T)
        <5>1. at \in Nat /\ errors \in Seq(T)
          BY <1>1, BeginFacts DEF IInv, TypeOK
        <5> DEFINE noCombinator == <<"NoCombinator", at>>
                   noClass == <<"NoSuchClass", at>>
        <5>2. noCombinator \in T /\ noClass \in T
          BY <5>1 DEF ErrorKind
        <5>3. ClassErrors(at) = <<>> \/ ClassErrors(at) = <<noClass>>
          BY DEF ClassErrors
        <5>4. e = <<noCombinator>>
          OBVIOUS
        <5> HIDE DEF noCombinator, noClass, e, T
        <5>5. \A x \in T : <<x>> \in Seq(T)
          OBVIOUS
        <5>6. e \in Seq(T)
          BY <5>2, <5>4, <5>5, Zenon
        <5>7. <<>> \in Seq(T)
          OBVIOUS
        <5>8. ClassErrors(at) \in Seq(T)
          BY <5>2, <5>3, <5>5, <5>7, Zenon
        <5> QED BY <5>1, <5>6, <5>8
      <4> HIDE DEF e, T
      <4>3. (errors \o e) \o ClassErrors(at) = errors \o (e \o ClassErrors(at))
        BY <4>2, ConcatAssociative
      <4> QED BY <4>1, <4>3 DEF e
    <3> QED BY <1>1, <3>1, BeginFacts, ErrorsAbout
  <2> QED BY <2>1, <2>2
<1>5. UNCHANGED <<list, parents>> /\ at' = at /\ mode' = "consume" /\ held' = held
  BY DEF BeginClassNested
<1> QED BY <1>1, <1>3, <1>4, <1>5, BeginFacts, WalkStep

LEMMA BeginCombinatorStep ==
  ASSUME IInv, BeginCombinator
  PROVE  IInv'
<1>1. mode = "begin" /\ TypeOK /\ at <= Len(list) /\ at \in 1 .. Len(list) /\ Len(list) \in Nat
  BY ListFacts DEF BeginCombinator, Beginning, IInv, TypeOK
<1>2. Upcoming \in at .. Len(list) + 1 /\ Upcoming # at /\ (~Exhausted(Upcoming) => Upcoming \in 1 .. Len(list))
  BY <1>1, UpcomingFacts
<1>3. /\ UNCHANGED <<list, parents>> /\ at' = Upcoming
      /\ mode' = IF Exhausted(Upcoming) THEN "end" ELSE "begin"
      /\ held' = held /\ classes' = classes /\ errors' = errors
  BY DEF BeginCombinator, BeginAt
<1> QED BY <1>1, <1>2, <1>3, BeginFacts, WalkStep

LEMMA BeginOtherStep ==
  ASSUME IInv, BeginOther
  PROVE  IInv'
<1>1. mode = "begin"
  BY DEF BeginOther, Beginning
<1>2. /\ UNCHANGED <<list, parents>> /\ at' = at /\ mode' = "end"
      /\ held' = held /\ classes' = classes /\ errors' = errors
  BY DEF BeginOther
<1> QED BY <1>1, <1>2, BeginFacts, WalkStep

LEMMA ConsumePseudoStep ==
  ASSUME IInv, ConsumePseudo
  PROVE  IInv'
<1>1. mode = "consume" /\ ~Exhausted(Upcoming) /\ list[Upcoming].kind = "pseudo"
  BY DEF ConsumePseudo, Consuming
<1> DEFINE c == Valid(list[Upcoming].name)
           kept == IF AtTop THEN classes ELSE Front(classes)
<1>2. c \in Name /\ ComesFrom(c, Upcoming)
  BY <1>1, ConsumeFacts, ComesFromNode
<1>3. kept \in Seq(Name) /\ Range(kept) \subseteq Range(classes)
  BY <1>1, ConsumeFacts, FrontFacts
<1>4. classes' = Insert(kept, c)
  BY DEF ConsumePseudo
<1>5. AboutNode(PseudoErrors(Upcoming), Upcoming) /\ errors' = errors \o PseudoErrors(Upcoming)
  BY <1>1, ConsumeFacts, ErrorsAbout DEF ConsumePseudo
<1> HIDE DEF c, kept
<1>6. classes' \in Seq(Name) /\ \A d \in Range(classes') : d \in Range(classes) \/ ComesFrom(d, Upcoming)
  BY <1>2, <1>3, <1>4, InsertFacts
<1>7. UNCHANGED <<list, parents>> /\ at' = Upcoming /\ mode' = "past" /\ held' = held
  BY DEF ConsumePseudo
<1> QED BY <1>1, <1>5, <1>6, <1>7, ConsumeFacts, WalkStep

LEMMA ConsumeStateStep ==
  ASSUME IInv, ConsumeState
  PROVE  IInv'
<1>1. mode = "consume" /\ ~Exhausted(Upcoming)
  BY DEF ConsumeState, Consuming
<1>2. classes' \in Seq(Name) /\ \A c \in Range(classes') : c \in Range(classes) \/ ComesFrom(c, Upcoming)
  <2>1. classes \in Seq(Name) /\ held \in Name /\ ComesFrom(held, Upcoming)
    BY <1>1, ConsumeFacts
  <2>2. classes' = classes \/ classes' = Insert(classes, held)
    BY DEF ConsumeState
  <2>3. Insert(classes, held) \in Seq(Name) /\ Range(Insert(classes, held)) = Range(classes) \cup {held}
    BY <2>1, InsertFacts
  <2> QED BY <2>1, <2>2, <2>3
<1>3. AboutNode(StateErrors(Upcoming), Upcoming) /\ errors' = errors \o StateErrors(Upcoming)
  BY <1>1, ConsumeFacts, ErrorsAbout DEF ConsumeState
<1>4. UNCHANGED <<list, parents>> /\ at' = Upcoming /\ mode' = "past" /\ held' = held
  BY DEF ConsumeState
<1> QED BY <1>1, <1>2, <1>3, <1>4, ConsumeFacts, WalkStep

LEMMA ConsumeDelimiterStep ==
  ASSUME IInv, ConsumeDelimiter
  PROVE  IInv'
<1>1. mode = "consume" /\ ~Exhausted(Upcoming)
  BY DEF ConsumeDelimiter, Consuming
<1> DEFINE i == Token(Upcoming + 1)
<1>2. /\ UNCHANGED <<list, parents>> /\ at' = i /\ held' = held /\ errors' = errors
      /\ mode' = (IF Exhausted(i) THEN "end" ELSE "begin")
      /\ classes' = classes \/ classes' = Insert(classes, held)
  BY DEF ConsumeDelimiter, BeginAt
<1>3. i \in at .. Len(list) + 1 /\ i # at /\ at \in Nat /\ Len(list) \in Nat
  BY <1>1, ConsumeFacts, ListFacts DEF IInv
<1>4. i \in Int /\ at \in Int /\ at <= i /\ (~Exhausted(i) => i \in 1 .. Len(list))
  BY <1>3 DEF Exhausted
<1>5. ComesFrom(held, i)
  <2>1. ComesFrom(held, at)
    BY DEF IInv, FromWalk
  <2> HIDE DEF i
  <2> QED BY <1>1, <1>4, <2>1, ConsumeFacts, ComesFromLater
<1> HIDE DEF i
<1>6. classes' \in Seq(Name) /\ \A c \in Range(classes') : c \in Range(classes) \/ ComesFrom(c, i)
  <2>1. classes \in Seq(Name) /\ held \in Name
    BY <1>1, ConsumeFacts
  <2>2. Insert(classes, held) \in Seq(Name) /\ Range(Insert(classes, held)) = Range(classes) \cup {held}
    BY <2>1, InsertFacts
  <2> QED BY <1>2, <1>5, <2>1, <2>2
<1>7. held' \in Name
  BY <1>1, <1>2, ConsumeFacts
<1> QED BY <1>2, <1>3, <1>4, <1>6, <1>7, WalkStep

LEMMA ConsumeColonStep ==
  ASSUME IInv, ConsumeColon
  PROVE  IInv'
<1>1. mode = "consume"
  BY DEF ConsumeColon, Consuming
<1>2. /\ UNCHANGED <<list, parents>> /\ at' = Upcoming /\ mode' = "end"
      /\ held' = held /\ classes' = classes /\ errors' = errors
  BY DEF ConsumeColon
<1> QED BY <1>1, <1>2, ConsumeFacts, WalkStep

LEMMA ConsumeOtherStep ==
  ASSUME IInv, ConsumeOther
  PROVE  IInv'
<1>1. mode = "consume" /\ ~Exhausted(Upcoming)
  BY DEF ConsumeOther, Consuming
<1> DEFINE e == <<"Adjacent", Upcoming>>
<1>2. errors' = errors \/ (AboutNode(<<e>>, Upcoming) /\ errors' = errors \o <<e>>)
  <2>1. AboutNode(<<e>>, Upcoming) /\ e \in ErrorKind \X Nat /\ errors \in Seq(ErrorKind \X Nat)
    BY <1>1, ConsumeFacts, ErrorsAbout DEF ErrorKind, IInv, TypeOK
  <2>2. errors' = errors \/ errors' = Append(errors, e)
    BY DEF ConsumeOther
  <2> HIDE DEF e
  <2>3. Append(errors, e) = errors \o <<e>>
    BY <2>1, AppendIsConcat
  <2> QED BY <2>1, <2>2, <2>3
<1>3. /\ UNCHANGED <<list, parents>> /\ at' = Upcoming /\ mode' = "consume"
      /\ held' = held /\ classes' = classes
  BY <1>1 DEF ConsumeOther
<1> QED BY <1>1, <1>2, <1>3, ConsumeFacts, WalkStep

LEMMA ConsumeEndStep ==
  ASSUME IInv, ConsumeEnd
  PROVE  IInv'
<1>1. mode = "consume"
  BY DEF ConsumeEnd
<1>2. classes' \in Seq(Name) /\ \A c \in Range(classes') : c \in Range(classes) \/ ComesFrom(c, Upcoming)
  BY <1>1, ConsumeFacts, InsertFacts DEF ConsumeEnd
<1>3. UNCHANGED <<list, parents>> /\ at' = Upcoming /\ mode' = "end" /\ held' = held /\ errors' = errors
  BY DEF ConsumeEnd
<1> QED BY <1>1, <1>2, <1>3, ConsumeFacts, WalkStep

LEMMA PastCommaStep ==
  ASSUME IInv, PastComma
  PROVE  IInv'
<1>1. mode = "past"
  BY DEF PastComma
<1>2. /\ UNCHANGED <<list, parents>> /\ held' = held /\ classes' = classes /\ errors' = errors
  BY DEF PastComma
<1>3. CASE Exhausted(Upcoming) \/ list[Upcoming].kind # "comma"
  <2>1. at' = Upcoming /\ mode' = "end"
    BY <1>3 DEF PastComma
  <2> QED BY <1>1, <1>2, <2>1, ConsumeFacts, WalkStep
<1>4. CASE ~(Exhausted(Upcoming) \/ list[Upcoming].kind # "comma")
  <2> DEFINE i == Token(Upcoming + 1)
  <2>1. at' = i /\ mode' = IF Exhausted(i) THEN "end" ELSE "begin"
    BY <1>4 DEF PastComma, BeginAt
  <2>2. i \in at .. Len(list) + 1 /\ i # at /\ at \in Nat /\ Len(list) \in Nat
    BY <1>1, <1>4, ConsumeFacts, ListFacts DEF IInv
  <2>3. ~Exhausted(i) => i \in 1 .. Len(list)
    BY <2>2 DEF Exhausted
  <2> HIDE DEF i
  <2> QED BY <1>1, <1>2, <2>1, <2>2, <2>3, ConsumeFacts, WalkStep
<1> QED BY <1>3, <1>4

LEMMA InitIInv == Init => IInv
<1> SUFFICES ASSUME Init PROVE IInv
  OBVIOUS
<1>1. TypeOK
  BY InstanceName, NameAssumption DEF Init, TypeOK
<1>2. FromWalk
  BY DEF Init, FromWalk, ComesFrom, Range
<1>3. Reported(errors, IF mode = "begin" THEN at - 1 ELSE at)
  BY DEF Init, Reported
<1> QED BY <1>1, <1>2, <1>3 DEF IInv

LEMMA NextIInv == IInv /\ [Next]_vars => IInv'
<1> SUFFICES ASSUME IInv, [Next]_vars PROVE IInv'
  OBVIOUS
<1>1. CASE UNCHANGED vars
  BY <1>1 DEF vars, IInv, TypeOK, FromWalk, ComesFrom, Reported
<1>2. CASE Next
  BY <1>1, <1>2, StartStep, BeginNamedStep, BeginPseudoStep, BeginStateStep, BeginClassStep,
     BeginClassNestedStep, BeginCombinatorStep, BeginOtherStep, ConsumePseudoStep,
     ConsumeStateStep, ConsumeDelimiterStep, ConsumeColonStep, ConsumeOtherStep,
     ConsumeEndStep, PastCommaStep DEF Next, Terminated
<1> QED BY <1>1, <1>2

THEOREM Invariance == Spec => []IInv
<1> QED BY InitIInv, NextIInv, PTL DEF Spec

(* On every list: a class is an Instance, one of the rule around or named  *)
(* in what was walked, and no error is reported twice or ahead of the walk. *)
THEOREM ClassesKnown == Spec => []ClassesFromWalk
<1>1. IInv => ClassesFromWalk
  <2> SUFFICES ASSUME IInv PROVE ClassesFromWalk
    OBVIOUS
  <2>1. at \in Int /\ at - 1 \in Int /\ at - 1 <= at /\ errors \in Seq(ErrorKind \X Nat)
    BY ListFacts DEF IInv, TypeOK
  <2>2. Reported(errors, at)
    <3>1. CASE mode = "begin"
      <4>1. Reported(errors, at - 1)
        BY <3>1 DEF IInv
      <4> QED BY <2>1, <4>1, ReportedLater
    <3>2. CASE mode # "begin"
      BY <3>2 DEF IInv
    <3> QED BY <3>1, <3>2
  <2>3. \A c \in Range(classes) : ComesFrom(c, at)
    BY DEF IInv, FromWalk
  <2> QED BY <2>2, <2>3 DEF ClassesFromWalk, ComesFrom, Reported
<1> QED BY <1>1, Invariance, PTL

-----------------------------------------------------------------------------
(* On the lists the walk was written for it is always in one selector,     *)
(* that begins at a node s, and has found the classes of those before.     *)

Past(s) == {j \in DOMAIN list \ Commas : j < s}
All(S) == UNION {Subjects(j) : j \in S}

Current(s, i) ==
  /\ i \in 1 .. Len(list) /\ s \in 1 .. i
  /\ s = 1 \/ s - 1 \in Commas
  /\ \A k \in s .. i : k \notin Commas

(* A part begins at node i: in a nested rule a combinator stands before it *)
(* exactly when the walk remembers one.                                    *)
Begun(s, i, after, cs) ==
  /\ Current(s, i)
  /\ i = s \/ list[i - 1].kind = "combinator"
  /\ ~AtTop => (after <=> i # s)
  /\ Range(cs) = All(Past(s))

(* The part that node i is in begins with a class, and names followed it.  *)
Part(s, c, i) ==
  /\ Current(s, i) /\ c \in s .. i
  /\ list[c].kind = "class"
  /\ c = s \/ list[c - 1].kind = "combinator"
  /\ \A k \in c + 1 .. i : list[k].kind = "named"

(* At the top that class is held back, in a nested rule it has been added, *)
(* and is the last one unless it was there before.                         *)
Taken(s, c, h, cs) ==
  LET name == Valid(list[c].name)
  IN  /\ AtTop => h = name /\ Range(cs) = All(Past(s))
      /\ ~AtTop =>
           /\ Range(cs) = All(Past(s)) \cup {name}
           /\ name \notin All(Past(s)) => Range(Front(cs)) = All(Past(s))

NameErrors == {"NoSuchClass", "NotPseudo", "NoSuchState"}

OnTrack(m, i, after, h, cs, es) ==
  /\ es \in Seq(NameErrors \X Nat)
  /\ m = "start" => Range(cs) = {}
  /\ m = "begin" => \E s \in DOMAIN list : Begun(s, i, after, cs)
  /\ m = "consume" => \E s, c \in DOMAIN list : Part(s, c, i) /\ Taken(s, c, h, cs)
  /\ m = "past" => \E s \in DOMAIN list :
                     Current(s, i) /\ Closes(i) /\ Range(cs) = All(Past(s)) \cup Subjects(i)
  /\ m = "end" => Range(cs) = All(DOMAIN list \ Commas)

TrackInv == Simple => OnTrack(mode, at, combined, held, classes, errors)

LEMMA SimpleNode ==
  ASSUME Simple, NEW i \in DOMAIN list
  PROVE  /\ list[i].kind \notin {"call", "colon"}
         /\ i \in Commas => i > 1 /\ i < Len(list) /\ i - 1 \notin Commas
         /\ list[i].kind \in {"pseudo", "state"} => Closes(i)
         /\ list[i].kind \in {"named", "query"} /\ (Opens(i) \/ list[i - 1].kind = "combinator") => Closes(i)
         /\ list[i].kind \in {"class", "query"} => Opens(i) \/ list[i - 1].kind = "combinator"
         /\ list[i].kind = "class" /\ ~AtTop => ~Opens(i)
         /\ list[i].kind = "combinator" =>
              ~Closes(i) /\ list[i + 1].kind # "combinator" /\ (Opens(i) <=> ~AtTop)
         /\ list[i].kind = "pseudo" /\ ~Opens(i) /\ ~AtTop =>
              \A j \in Selector(i) : list[j].kind = "class" =>
                \A k \in 1 .. (j - 1) :
                  k \notin Commas \cup Selector(i) => Valid(list[j].name) \notin Subjects(k)
  BY DEF Simple

LEMMA SimpleToken ==
  ASSUME TypeOK, Simple, NEW i \in 1 .. Len(list) + 1
  PROVE  Token(i) = i
<1>1. Len(list) \in Nat /\ DOMAIN list = 1 .. Len(list)
  BY ListFacts
<1>2. \A j \in 1 .. Len(list) : list[j].kind # "call"
  BY <1>1, SimpleNode
<1>3. i \in Nat \ {0}
  BY <1>1
<1>4. CASE Token(i) = Len(list) + 1 /\ \A j \in i .. Len(list) : list[j].kind = "call"
  <2>1. i \notin i .. Len(list)
    BY <1>1, <1>2, <1>3, <1>4
  <2> QED BY <1>1, <1>3, <1>4, <2>1
<1>5. CASE Token(i) \in i .. Len(list) /\ \A j \in i .. Token(i) - 1 : list[j].kind = "call"
  <2>1. i \in 1 .. Len(list)
    BY <1>1, <1>3, <1>5
  <2>2. i \notin i .. Token(i) - 1
    BY <1>2, <1>5, <2>1
  <2> QED BY <1>1, <1>3, <1>5, <2>2
<1> QED BY <1>3, <1>4, <1>5, TokenFacts

LEMMA SelectorFacts ==
  ASSUME TypeOK, NEW s, NEW i, Current(s, i)
  PROVE  /\ \A j \in s .. i : j \in Selector(i) /\ Selector(j) = Selector(i)
         /\ \A j \in Selector(i) : j \in DOMAIN list \ Commas /\ s <= j
         /\ Opens(i) <=> i = s
         /\ i + 1 \in DOMAIN list \ Commas => i + 1 \in Selector(i) /\ Current(s, i + 1)
<1>1. Len(list) \in Nat /\ DOMAIN list = 1 .. Len(list) /\ Commas \subseteq 1 .. Len(list)
  BY ListFacts DEF Commas
<1>2. /\ i \in 1 .. Len(list) /\ s \in 1 .. i /\ (s = 1 \/ s - 1 \in Commas)
      /\ \A k \in s .. i : k \notin Commas
  BY DEF Current
<1>3. \A j \in s .. i, k \in Commas : k < j <=> k < i
  BY <1>1, <1>2
<1>4. ASSUME NEW j \in s .. i PROVE j \in Selector(i) /\ Selector(j) = Selector(i)
  <2>1. j \in DOMAIN list \ Commas
    BY <1>1, <1>2
  <2> QED BY <1>3, <2>1 DEF Selector
<1>5. ASSUME NEW j \in Selector(i) PROVE j \in DOMAIN list \ Commas /\ s <= j
  <2>1. j \in DOMAIN list \ Commas /\ \A k \in Commas : (k < i <=> k < j)
    BY DEF Selector
  <2>2. CASE s = 1
    BY <1>1, <2>1, <2>2
  <2>3. CASE s - 1 \in Commas
    <3>1. s - 1 < i
      BY <1>1, <1>2
    <3>2. s - 1 < j
      BY <2>1, <2>3, <3>1
    <3> QED BY <1>1, <1>2, <2>1, <3>2
  <2> QED BY <1>2, <2>1, <2>2, <2>3
<1>6. Opens(i) <=> i = s
  <2>1. s \in Selector(i)
    BY <1>1, <1>2, <1>4
  <2> QED BY <1>1, <1>2, <1>5, <2>1 DEF Opens
<1>7. ASSUME i + 1 \in DOMAIN list \ Commas PROVE i + 1 \in Selector(i) /\ Current(s, i + 1)
  <2>1. \A k \in Commas : (k < i <=> k < i + 1)
    BY <1>1, <1>2
  <2>2. \A k \in s .. i + 1 : k \notin Commas
    BY <1>1, <1>2, <1>7
  <2> QED BY <1>1, <1>2, <1>7, <2>1, <2>2 DEF Selector, Current
<1> QED BY <1>4, <1>5, <1>6, <1>7

(* The last node of a selector has a comma behind it or nothing.           *)
LEMMA ClosingFacts ==
  ASSUME TypeOK, NEW s, NEW i, Current(s, i), Closes(i)
  PROVE  /\ Selector(i) = s .. i
         /\ i = Len(list) \/ i + 1 \in Commas
         /\ Past(i + 1) = Past(s) \cup (s .. i)
         /\ All(Past(i + 1)) = All(Past(s)) \cup Subjects(i)
<1>1. Len(list) \in Nat /\ DOMAIN list = 1 .. Len(list) /\ Commas \subseteq 1 .. Len(list)
  BY ListFacts DEF Commas
<1>2. /\ i \in 1 .. Len(list) /\ s \in 1 .. i /\ \A k \in s .. i : k \notin Commas
  BY DEF Current
<1>3. Selector(i) = s .. i
  <2>1. \A j \in Selector(i) : j \in DOMAIN list /\ s <= j /\ j <= i
    BY SelectorFacts DEF Closes
  <2>2. \A j \in Selector(i) : j \in s .. i
    BY <1>1, <1>2, <2>1
  <2>3. \A j \in s .. i : j \in Selector(i)
    BY SelectorFacts
  <2> QED BY <2>2, <2>3
<1>4. i = Len(list) \/ i + 1 \in Commas
  <2>1. i + 1 \notin Selector(i)
    BY <1>2 DEF Closes
  <2>2. i + 1 \notin DOMAIN list \ Commas
    BY <2>1, SelectorFacts
  <2>3. i # Len(list) => i + 1 \in 1 .. Len(list)
    <3>1. Len(list) \in Nat /\ i \in 1 .. Len(list)
      BY <1>1, <1>2
    <3> QED BY <3>1
  <2>4. i # Len(list) => i + 1 \in DOMAIN list
    BY <1>1, <2>3
  <2> QED BY <2>2, <2>4
<1>5. Past(i + 1) = Past(s) \cup (s .. i)
  BY <1>1, <1>2 DEF Past
<1>6. \A j \in s .. i : Subjects(j) = Subjects(i)
  <2> TAKE j \in s .. i
  <2>1. Selector(j) = Selector(i)
    BY SelectorFacts
  <2>2. LastPart(j) = LastPart(i)
    BY <2>1, Zenon DEF LastPart
  <2> QED BY <2>2, Zenon DEF Subjects
<1>7. All(Past(i + 1)) = All(Past(s)) \cup Subjects(i)
  <2>1. i \in s .. i
    BY <1>2
  <2>2. \A x : x \in All(Past(i + 1)) <=> x \in All(Past(s)) \cup Subjects(i)
    <3>1. \A x : x \in All(Past(i + 1)) <=> \E j \in Past(s) \cup (s .. i) : x \in Subjects(j)
      BY <1>5 DEF All
    <3>2. \A x : x \in All(Past(s)) <=> \E j \in Past(s) : x \in Subjects(j)
      BY DEF All
    <3> QED BY <1>6, <2>1, <3>1, <3>2
  <2> QED BY <2>2
<1> QED BY <1>3, <1>4, <1>5, <1>7

(* A selector that ends leaves the walk at the next one or at the end.     *)
LEMMA EndingFacts ==
  ASSUME TypeOK, Simple, NEW s, NEW i, Current(s, i), Closes(i),
         NEW cs, Range(cs) = All(Past(s)) \cup Subjects(i)
  PROVE  /\ i = Len(list) => Range(cs) = All(DOMAIN list \ Commas)
         /\ i # Len(list) =>
              /\ i + 1 \in Commas /\ i + 2 \in 1 .. Len(list)
              /\ Begun(i + 2, i + 2, FALSE, cs)
<1>1. Len(list) \in Nat /\ DOMAIN list = 1 .. Len(list) /\ i \in 1 .. Len(list)
  BY ListFacts DEF Current
<1>2. Range(cs) = All(Past(i + 1))
  BY ClosingFacts
<1>3. ASSUME i = Len(list) PROVE Range(cs) = All(DOMAIN list \ Commas)
  <2>1. Past(i + 1) = DOMAIN list \ Commas
    BY <1>1, <1>3 DEF Past
  <2> QED BY <1>2, <2>1
<1>4. ASSUME i # Len(list)
      PROVE  /\ i + 1 \in Commas /\ i + 2 \in 1 .. Len(list)
             /\ Begun(i + 2, i + 2, FALSE, cs)
  <2>1. i + 1 \in Commas /\ i + 1 \in DOMAIN list
    BY <1>4, ClosingFacts DEF Commas
  <2>2. i + 1 < Len(list)
    BY <2>1, SimpleNode
  <2>3. i + 2 \in 1 .. Len(list) /\ i + 2 \in DOMAIN list /\ (i + 2) - 1 = i + 1
    BY <1>1, <2>2
  <2>4. i + 2 \notin Commas
    BY <2>1, <2>3, SimpleNode
  <2>5. Current(i + 2, i + 2)
    BY <1>1, <2>1, <2>3, <2>4 DEF Current
  <2>6. Past(i + 2) = Past(i + 1)
    BY <1>1, <2>1 DEF Past
  <2> QED BY <1>2, <2>1, <2>3, <2>5, <2>6 DEF Begun
<1> QED BY <1>3, <1>4

(* A node that is not its selector's last is followed by another of it.    *)
LEMMA GoesOn ==
  ASSUME TypeOK, NEW s, NEW i, Current(s, i)
  PROVE  /\ ~Closes(i) => i + 1 \in DOMAIN list \ Commas /\ Current(s, i + 1)
         /\ i = Len(list) \/ i + 1 \in Commas => Closes(i)
<1>1. Len(list) \in Nat /\ DOMAIN list = 1 .. Len(list) /\ i \in 1 .. Len(list)
  BY ListFacts DEF Current
<1>2. ASSUME ~Closes(i) PROVE i + 1 \in DOMAIN list \ Commas
  <2>1. PICK j \in Selector(i) : ~(j <= i)
    BY <1>2 DEF Closes
  <2>2. j \in DOMAIN list \ Commas /\ \A k \in Commas : (k < i <=> k < j)
    BY <2>1 DEF Selector
  <2>3. i + 1 \in 1 .. Len(list) /\ i + 1 <= j /\ i < j
    BY <1>1, <2>1, <2>2
  <2>4. i + 1 \notin Commas
    <3>1. SUFFICES ASSUME i + 1 \in Commas PROVE FALSE
      OBVIOUS
    <3>2. (i + 1 < i) <=> (i + 1 < j)
      BY <2>2, <3>1
    <3>3. j = i + 1
      BY <1>1, <2>2, <2>3, <3>2
    <3> QED BY <2>2, <3>1, <3>3
  <2> QED BY <1>1, <2>3, <2>4
<1>3. ~Closes(i) => Current(s, i + 1)
  BY <1>2, SelectorFacts
<1>4. ASSUME ~Closes(i) PROVE i # Len(list) /\ i + 1 \notin Commas
  <2>1. i + 1 \in 1 .. Len(list) /\ i + 1 \notin Commas
    BY <1>1, <1>2, <1>4
  <2>2. Len(list) \in Nat
    BY <1>1
  <2> QED BY <2>1, <2>2
<1> QED BY <1>2, <1>3, <1>4

(* What the last part of a selector is, and the classes it stands for.     *)
LEMMA LastPartFacts ==
  ASSUME TypeOK, Simple, NEW s, NEW i, Current(s, i), Closes(i),
         NEW c \in s .. i, c = s \/ list[c - 1].kind = "combinator",
         \A k \in c .. i : list[k].kind # "combinator"
  PROVE  LastPart(i) = c .. i
<1>1. /\ Len(list) \in Nat /\ DOMAIN list = 1 .. Len(list) /\ i \in 1 .. Len(list) /\ s \in 1 .. i
      /\ Selector(i) = s .. i
  BY ListFacts, ClosingFacts DEF Current
<1>2. \A k \in s .. i : list[k].kind # "call"
  <2> TAKE k \in s .. i
  <2>1. k \in DOMAIN list
    BY <1>1
  <2> QED BY <2>1, SimpleNode
<1>3. \A k \in s .. i : list[k].kind = "combinator" => k < c
  <2> TAKE k \in s .. i
  <2>1. k \notin c .. i => k < c
    BY <1>1
  <2> QED BY <2>1
<1>4. ASSUME NEW j \in s .. i, j < c PROVE ~ \A k \in s .. i : list[k].kind = "combinator" => k < j
  <2>1. c # s /\ c - 1 \in s .. i /\ ~(c - 1 < j)
    BY <1>1, <1>4
  <2> QED BY <2>1
<1>5. ASSUME NEW j \in c .. i
      PROVE  j \in s .. i /\ list[j].kind \notin {"combinator", "call"} /\ \A k \in s .. i : list[k].kind = "combinator" => k < j
  <2>1. j \in s .. i
    BY <1>1
  <2>2. \A k \in s .. i : k < c => k < j
    BY <1>1
  <2> QED BY <1>2, <1>3, <2>1, <2>2
<1>6. \A j \in s .. i : j < c \/ j \in c .. i
  BY <1>1
<1>7. LastPart(i) = {j \in s .. i : list[j].kind \notin {"combinator", "call"}
                                    /\ \A k \in s .. i : list[k].kind = "combinator" => k < j}
  BY <1>1, Zenon DEF LastPart
<1> QED BY <1>4, <1>5, <1>6, <1>7

LEMMA PseudoSubject ==
  ASSUME NEW i, NEW P, LastPart(i) = P, i \in P, list[i].kind = "pseudo",
         \A k \in P \ {i} : list[k].kind # "pseudo"
  PROVE  Subjects(i) = {Valid(list[i].name)}
<1>1. {k \in P : list[k].kind = "pseudo"} = {i}
  OBVIOUS
<1>2. {Valid(list[j].name) : j \in {k \in P : list[k].kind = "pseudo"}} = {Valid(list[i].name)}
  BY <1>1
<1> QED BY <1>2 DEF Subjects

LEMMA ClassSubject ==
  ASSUME NEW i, NEW P, LastPart(i) = P, NEW c \in P, list[c].kind = "class",
         \A k \in P \ {c} : list[k].kind \notin {"class", "pseudo"}
  PROVE  Subjects(i) = {Valid(list[c].name)}
<1>1. {k \in P : list[k].kind = "class"} = {c} /\ {k \in P : list[k].kind = "pseudo"} = {}
  OBVIOUS
<1>2. {Valid(list[j].name) : j \in {k \in P : list[k].kind = "class"}} = {Valid(list[c].name)}
  BY <1>1
<1>3. {Valid(list[j].name) : j \in {k \in P : list[k].kind = "pseudo"}} = {}
  BY <1>1
<1> QED BY <1>2, <1>3 DEF Subjects

LEMMA OtherSubject ==
  ASSUME NEW i, LastPart(i) = {i}, list[i].kind \notin {"class", "pseudo"}
  PROVE  Subjects(i) = IF list[i].kind = "state" /\ ~AtTop THEN Range(parents) ELSE {Instance}
<1>1. /\ {k \in LastPart(i) : list[k].kind = "class"} = {}
      /\ {k \in LastPart(i) : list[k].kind = "pseudo"} = {}
  OBVIOUS
<1>2. /\ {Valid(list[j].name) : j \in {k \in LastPart(i) : list[k].kind = "class"}} = {}
      /\ {Valid(list[j].name) : j \in {k \in LastPart(i) : list[k].kind = "pseudo"}} = {}
  BY <1>1
<1>3. (LastPart(i) # {} /\ \A k \in LastPart(i) : list[k].kind = "state") <=> list[i].kind = "state"
  OBVIOUS
<1> QED BY <1>2, <1>3 DEF Subjects

(* Each step stays on track.                                               *)
LEMMA NameReports ==
  ASSUME NEW i \in Nat, NEW es \in Seq(NameErrors \X Nat)
  PROVE  /\ es \o ClassErrors(i) \in Seq(NameErrors \X Nat)
         /\ es \o PseudoErrors(i) \in Seq(NameErrors \X Nat)
         /\ es \o StateErrors(i) \in Seq(NameErrors \X Nat)
<1> DEFINE T == NameErrors \X Nat
           noClass == <<"NoSuchClass", i>>
           notPseudo == <<"NotPseudo", i>>
           noState == <<"NoSuchState", i>>
<1>1. noClass \in T /\ notPseudo \in T /\ noState \in T
  BY DEF NameErrors
<1>2. /\ ClassErrors(i) = <<>> \/ ClassErrors(i) = <<noClass>>
      /\ StateErrors(i) = <<>> \/ StateErrors(i) = <<noState>>
      /\ \E last \in {<<>>, <<notPseudo>>} : PseudoErrors(i) = ClassErrors(i) \o last
  BY DEF ClassErrors, StateErrors, PseudoErrors
<1>3. es \in Seq(T)
  OBVIOUS
<1> HIDE DEF T, noClass, notPseudo, noState
<1>4. \A x \in T : <<x>> \in Seq(T)
  OBVIOUS
<1>5. <<>> \in Seq(T) /\ \A q, r \in Seq(T) : q \o r \in Seq(T)
  OBVIOUS
<1>6. ClassErrors(i) \in Seq(T) /\ StateErrors(i) \in Seq(T)
  BY <1>1, <1>2, <1>4, <1>5, Zenon
<1>7. PseudoErrors(i) \in Seq(T)
  <2>1. PICK last \in {<<>>, <<notPseudo>>} : PseudoErrors(i) = ClassErrors(i) \o last
    BY <1>2
  <2>2. last \in Seq(T)
    BY <1>1, <1>4, <1>5, <2>1, Zenon
  <2> QED BY <1>5, <1>6, <2>1, <2>2
<1>8. es \o ClassErrors(i) \in Seq(T) /\ es \o PseudoErrors(i) \in Seq(T) /\ es \o StateErrors(i) \in Seq(T)
  BY <1>3, <1>5, <1>6, <1>7
<1> QED BY <1>8 DEF T

LEMMA UpcomingNext ==
  ASSUME TypeOK, Simple, at \in 0 .. Len(list)
  PROVE  /\ Upcoming = at + 1
         /\ Exhausted(Upcoming) <=> at = Len(list)
         /\ at + 1 \in 1 .. Len(list) => Token(Upcoming + 1) = at + 2
<1>1. Len(list) \in Nat
  BY ListFacts
<1>2. at + 1 \in 1 .. Len(list) + 1
  BY <1>1
<1>3. Upcoming = at + 1
  BY <1>2, SimpleToken DEF Upcoming
<1>4. ASSUME at + 1 \in 1 .. Len(list) PROVE Token(Upcoming + 1) = at + 2
  <2>1. (at + 1) + 1 \in 1 .. Len(list) + 1 /\ (at + 1) + 1 = at + 2
    BY <1>1, <1>4
  <2> QED BY <1>3, <2>1, SimpleToken
<1> QED BY <1>1, <1>3, <1>4 DEF Exhausted

LEMMA StartTrack ==
  ASSUME IInv, Simple, OnTrack(mode, at, combined, held, classes, errors), Start
  PROVE  OnTrack(mode', at', combined', held', classes', errors')
<1>1. TypeOK /\ at = 0 /\ Len(list) \in Nat /\ DOMAIN list = 1 .. Len(list) /\ Range(classes) = {}
      /\ errors \in Seq(NameErrors \X Nat)
  BY ListFacts DEF IInv, TypeOK, Start, OnTrack
<1>2. Upcoming = 1 /\ (Exhausted(Upcoming) <=> Len(list) = 0)
  BY <1>1, UpcomingNext
<1>3. /\ at' = 1 /\ mode' = (IF Len(list) = 0 THEN "end" ELSE "begin")
      /\ combined' = FALSE /\ classes' = classes /\ errors' = errors
  BY <1>2 DEF Start, BeginAt
<1>4. CASE Len(list) = 0
  <2>1. DOMAIN list \ Commas = {}
    BY <1>1, <1>4
  <2>2. All(DOMAIN list \ Commas) = {}
    BY <2>1 DEF All
  <2> QED BY <1>1, <1>3, <1>4, <2>2 DEF OnTrack
<1>5. CASE Len(list) # 0
  <2>1. 1 \in DOMAIN list /\ 1 \in 1 .. Len(list)
    BY <1>1, <1>5
  <2>2. 1 \notin Commas
    <3> DEFINE i == 1
    <3>1. i \in DOMAIN list /\ ~(i > 1)
      BY <2>1
    <3> HIDE DEF i
    <3>2. i \notin Commas
      BY <3>1, SimpleNode
    <3> QED BY <3>2 DEF i
  <2>3. Current(1, 1)
    BY <2>1, <2>2 DEF Current
  <2>4. All(Past(1)) = {}
    BY <1>1 DEF All, Past
  <2>5. Begun(1, 1, FALSE, classes)
    BY <1>1, <2>3, <2>4 DEF Begun
  <2> QED BY <1>1, <1>3, <1>5, <2>1, <2>5 DEF OnTrack
<1> QED BY <1>4, <1>5

(* A node that is a selector's last part by itself.                        *)
LEMMA AloneFacts ==
  ASSUME TypeOK, Simple, NEW s, NEW i, NEW after, NEW cs, Begun(s, i, after, cs),
         list[i].kind \in {"pseudo", "state", "named", "query"}
  PROVE  /\ i \in DOMAIN list /\ s \in DOMAIN list /\ Current(s, i) /\ Closes(i)
         /\ LastPart(i) = {i}
<1>1. /\ Current(s, i) /\ i \in DOMAIN list /\ s \in DOMAIN list /\ i \in 1 .. Len(list) /\ s \in 1 .. i
      /\ (i = s \/ list[i - 1].kind = "combinator")
  BY ListFacts DEF Begun, Current
<1>2. Opens(i) <=> i = s
  BY <1>1, SelectorFacts
<1>3. Closes(i)
  BY <1>1, <1>2, SimpleNode
<1>4. i \in s .. i /\ i .. i = {i}
  BY <1>1
<1>5. LastPart(i) = i .. i
  <2>1. \A k \in i .. i : list[k].kind # "combinator"
    BY <1>4
  <2> QED BY <1>1, <1>3, <1>4, <2>1, LastPartFacts
<1> QED BY <1>1, <1>3, <1>4, <1>5

LEMMA BeginNamedTrack ==
  ASSUME IInv, Simple, OnTrack(mode, at, combined, held, classes, errors), BeginNamed
  PROVE  OnTrack(mode', at', combined', held', classes', errors')
<1>1. mode = "begin" /\ list[at].kind \in {"named", "query"} /\ TypeOK
  BY DEF BeginNamed, Beginning, IInv
<1>2. PICK s \in DOMAIN list : Begun(s, at, combined, classes)
  BY <1>1 DEF OnTrack
<1>3. Current(s, at) /\ Closes(at) /\ LastPart(at) = {at}
  BY <1>1, <1>2, AloneFacts
<1>4. Subjects(at) = {Instance}
  BY <1>1, <1>3, OtherSubject
<1>5. Range(classes') = Range(classes) \cup {Instance}
  BY <1>1, BeginFacts, InstanceName, InsertFacts DEF BeginNamed
<1>6. Range(classes') = All(Past(s)) \cup Subjects(at)
  BY <1>2, <1>4, <1>5 DEF Begun
<1>7. mode' = "past" /\ at' = at /\ errors' = errors
  BY DEF BeginNamed
<1> QED BY <1>2, <1>3, <1>6, <1>7 DEF OnTrack

LEMMA BeginPseudoTrack ==
  ASSUME IInv, Simple, OnTrack(mode, at, combined, held, classes, errors), BeginPseudo
  PROVE  OnTrack(mode', at', combined', held', classes', errors')
<1>1. mode = "begin" /\ list[at].kind = "pseudo" /\ TypeOK
  BY DEF BeginPseudo, Beginning, IInv
<1>2. PICK s \in DOMAIN list : Begun(s, at, combined, classes)
  BY <1>1 DEF OnTrack
<1>3. Current(s, at) /\ Closes(at) /\ LastPart(at) = {at}
  BY <1>1, <1>2, AloneFacts
<1>4. Subjects(at) = {Valid(list[at].name)}
  <2>1. at \in {at} /\ \A k \in {at} \ {at} : list[k].kind # "pseudo"
    OBVIOUS
  <2> QED BY <1>1, <1>3, <2>1, PseudoSubject
<1>5. Range(classes') = Range(classes) \cup {Valid(list[at].name)}
  BY <1>1, BeginFacts, InsertFacts DEF BeginPseudo
<1>6. Range(classes') = All(Past(s)) \cup Subjects(at)
  BY <1>2, <1>4, <1>5 DEF Begun
<1>7. errors' \in Seq(NameErrors \X Nat)
  BY <1>1, BeginFacts, NameReports DEF OnTrack, BeginPseudo
<1>8. mode' = "past" /\ at' = at
  BY DEF BeginPseudo
<1> QED BY <1>2, <1>3, <1>6, <1>7, <1>8 DEF OnTrack

LEMMA BeginStateTrack ==
  ASSUME IInv, Simple, OnTrack(mode, at, combined, held, classes, errors), BeginState
  PROVE  OnTrack(mode', at', combined', held', classes', errors')
<1>1. mode = "begin" /\ list[at].kind = "state" /\ TypeOK
  BY DEF BeginState, Beginning, IInv
<1>2. PICK s \in DOMAIN list : Begun(s, at, combined, classes)
  BY <1>1 DEF OnTrack
<1>3. Current(s, at) /\ Closes(at) /\ LastPart(at) = {at}
  BY <1>1, <1>2, AloneFacts
<1>4. Subjects(at) = IF ~AtTop THEN Range(parents) ELSE {Instance}
  BY <1>1, <1>3, OtherSubject
<1>5. Range(classes') = Range(classes) \cup Subjects(at)
  <2>1. CASE AtTop
    <3>1. Range(Insert(classes, Instance)) = Range(classes) \cup {Instance}
      BY <1>1, BeginFacts, InstanceName, InsertFacts
    <3> QED BY <1>4, <2>1, <3>1 DEF BeginState
  <2>2. CASE ~AtTop
    <3>1. Range(Extend(classes, parents)) = Range(classes) \cup Range(parents)
      BY <1>1, BeginFacts, ExtendFacts
    <3> QED BY <1>4, <2>2, <3>1 DEF BeginState
  <2> QED BY <2>1, <2>2
<1>6. Range(classes') = All(Past(s)) \cup Subjects(at)
  BY <1>2, <1>5 DEF Begun
<1>7. errors' \in Seq(NameErrors \X Nat)
  BY <1>1, BeginFacts, NameReports DEF OnTrack, BeginState
<1>8. mode' = "past" /\ at' = at
  BY DEF BeginState
<1> QED BY <1>2, <1>3, <1>6, <1>7, <1>8 DEF OnTrack

LEMMA BeginClassTrack ==
  ASSUME IInv, Simple, OnTrack(mode, at, combined, held, classes, errors), BeginClass
  PROVE  OnTrack(mode', at', combined', held', classes', errors')
<1>1. mode = "begin" /\ list[at].kind = "class" /\ AtTop
  BY DEF BeginClass, Beginning
<1>2. PICK s \in DOMAIN list : Begun(s, at, combined, classes)
  BY <1>1 DEF OnTrack
<1>3. at \in DOMAIN list /\ Part(s, at, at)
  BY <1>1, <1>2, BeginFacts DEF Begun, Part, Current
<1>4. Taken(s, at, held', classes')
  BY <1>1, <1>2 DEF BeginClass, Taken, Begun
<1>5. errors' \in Seq(NameErrors \X Nat)
  BY <1>1, BeginFacts, NameReports DEF OnTrack, BeginClass
<1>6. mode' = "consume" /\ at' = at
  BY DEF BeginClass
<1> QED BY <1>2, <1>3, <1>4, <1>5, <1>6 DEF OnTrack

LEMMA BeginClassNestedTrack ==
  ASSUME IInv, Simple, OnTrack(mode, at, combined, held, classes, errors), BeginClassNested
  PROVE  OnTrack(mode', at', combined', held', classes', errors')
<1>1. mode = "begin" /\ list[at].kind = "class" /\ ~AtTop /\ TypeOK
  BY DEF BeginClassNested, Beginning, IInv
<1>2. PICK s \in DOMAIN list : Begun(s, at, combined, classes)
  BY <1>1 DEF OnTrack
<1>3. at \in DOMAIN list /\ Part(s, at, at)
  BY <1>1, <1>2, BeginFacts DEF Begun, Part, Current
<1>4. combined
  <2>1. ~Opens(at)
    BY <1>1, <1>3, SimpleNode
  <2>2. at # s
    BY <1>1, <1>2, <2>1, SelectorFacts DEF Begun
  <2> QED BY <1>1, <1>2, <2>2 DEF Begun
<1> DEFINE name == Valid(list[at].name)
<1>5. name \in Name /\ classes \in Seq(Name) /\ Range(classes) = All(Past(s))
  BY <1>1, <1>2, BeginFacts DEF Begun
<1>6. classes' = Insert(classes, name)
  BY DEF BeginClassNested
<1>7. Taken(s, at, held', classes')
  <2> HIDE DEF name
  <2>1. Range(classes') = All(Past(s)) \cup {name}
    BY <1>5, <1>6, InsertFacts
  <2>2. name \notin All(Past(s)) => Range(Front(classes')) = All(Past(s))
    BY <1>5, <1>6, InsertFacts
  <2> QED BY <1>1, <2>1, <2>2 DEF Taken, name
<1>8. errors' \in Seq(NameErrors \X Nat)
  <2>1. errors' = (errors \o <<>>) \o ClassErrors(at) \/ errors' = errors \o (<<>> \o ClassErrors(at))
    BY <1>4 DEF BeginClassNested
  <2>2. errors \o <<>> = errors /\ <<>> \o ClassErrors(at) = ClassErrors(at)
    BY DEF ClassErrors, OnTrack
  <2>3. errors \o ClassErrors(at) \in Seq(NameErrors \X Nat)
    BY <1>1, BeginFacts, NameReports DEF OnTrack
  <2> QED BY <2>1, <2>2, <2>3
<1>9. mode' = "consume" /\ at' = at
  BY DEF BeginClassNested
<1> QED BY <1>2, <1>3, <1>7, <1>8, <1>9 DEF OnTrack

LEMMA BeginCombinatorTrack ==
  ASSUME IInv, Simple, OnTrack(mode, at, combined, held, classes, errors), BeginCombinator
  PROVE  OnTrack(mode', at', combined', held', classes', errors')
<1>1. mode = "begin" /\ list[at].kind = "combinator" /\ ~AtTop /\ TypeOK
  BY DEF BeginCombinator, Beginning, IInv
<1>2. /\ at \in 1 .. Len(list) /\ at \in DOMAIN list /\ Len(list) \in Nat /\ DOMAIN list = 1 .. Len(list)
      /\ at \in 0 .. Len(list)
  BY <1>1, BeginFacts, ListFacts
<1>3. PICK s \in DOMAIN list : Begun(s, at, combined, classes)
  BY <1>1 DEF OnTrack
<1>4. Current(s, at) /\ at = s
  BY <1>1, <1>2, <1>3, SimpleNode, SelectorFacts DEF Begun
<1>5. ~Closes(at)
  BY <1>1, <1>2, SimpleNode
<1>6. at + 1 \in DOMAIN list \ Commas /\ Current(s, at + 1)
  BY <1>1, <1>4, <1>5, GoesOn
<1>7. Upcoming = at + 1 /\ ~Exhausted(at + 1)
  <2>1. at # Len(list)
    BY <1>2, <1>6
  <2> QED BY <1>1, <1>2, <2>1, UpcomingNext
<1>8. at' = at + 1 /\ mode' = "begin" /\ combined' = TRUE /\ classes' = classes /\ errors' = errors
  BY <1>7 DEF BeginCombinator, BeginAt
<1>9. Begun(s, at + 1, TRUE, classes)
  <2>1. (at + 1) - 1 = at /\ at + 1 # s
    BY <1>2, <1>4
  <2> QED BY <1>1, <1>3, <1>6, <2>1 DEF Begun
<1> QED BY <1>3, <1>8, <1>9 DEF OnTrack

LEMMA BeginOtherTrack ==
  ASSUME IInv, Simple, OnTrack(mode, at, combined, held, classes, errors), BeginOther
  PROVE  FALSE
<1>1. mode = "begin" /\ TypeOK
  BY DEF BeginOther, Beginning, IInv
<1>2. at \in 1 .. Len(list) /\ at \in DOMAIN list /\ Len(list) \in Nat /\ DOMAIN list = 1 .. Len(list)
  BY <1>1, BeginFacts, ListFacts
<1>3. PICK s \in DOMAIN list : Begun(s, at, combined, classes)
  BY <1>1 DEF OnTrack
<1>4. Current(s, at) /\ at \in Selector(at)
  <2>1. Current(s, at) /\ at \in s .. at
    BY <1>3 DEF Begun, Current
  <2> QED BY <1>1, <2>1, SelectorFacts
<1>5. list[at].kind # "comma"
  BY <1>2, <1>4 DEF Selector, Commas
<1>6. list[at].kind # "colon"
  BY <1>2, SimpleNode
<1>7. AtTop /\ list[at].kind = "combinator"
  BY <1>5, <1>6 DEF BeginOther, Beginning
<1>8. ~Opens(at)
  BY <1>2, <1>7, SimpleNode
<1>9. at # s /\ at \in Int /\ s \in 1 .. at
  BY <1>1, <1>4, <1>8, SelectorFacts DEF Current
<1>10. list[at - 1].kind = "combinator" /\ at - 1 \in DOMAIN list /\ (at - 1) + 1 = at
  BY <1>2, <1>3, <1>9 DEF Begun
<1>11. list[(at - 1) + 1].kind # "combinator"
  BY <1>10, SimpleNode
<1> QED BY <1>7, <1>10, <1>11

(* A part that begins with a class, and what may stand in it.              *)
LEMMA PartFacts ==
  ASSUME TypeOK, NEW s, NEW c, NEW i, Part(s, c, i)
  PROVE  /\ Current(s, i) /\ c \in s .. i /\ c \in DOMAIN list /\ s \in DOMAIN list /\ i \in DOMAIN list
         /\ c \in 1 .. i /\ i \in 1 .. Len(list) /\ s \in 1 .. i
         /\ \A k \in c .. i : list[k].kind \in {"class", "named"} /\ (k # c => list[k].kind = "named")
         /\ c = s \/ list[c - 1].kind = "combinator"
<1>1. /\ Current(s, i) /\ c \in s .. i /\ list[c].kind = "class"
      /\ i \in 1 .. Len(list) /\ s \in 1 .. i /\ (c = s \/ list[c - 1].kind = "combinator")
  BY DEF Part, Current
<1>2. Len(list) \in Nat /\ DOMAIN list = 1 .. Len(list)
  BY ListFacts
<1>3. \A k \in c .. i : k = c \/ k \in c + 1 .. i
  BY <1>1, <1>2
<1>4. \A k \in c + 1 .. i : list[k].kind = "named"
  BY DEF Part
<1>5. c \in 1 .. i /\ c \in 1 .. Len(list) /\ s \in 1 .. Len(list)
  BY <1>1, <1>2
<1> QED BY <1>1, <1>2, <1>3, <1>4, <1>5

LEMMA PartEnds ==
  ASSUME TypeOK, Simple, NEW s, NEW c, NEW i, Part(s, c, i), Closes(i)
  PROVE  Subjects(i) = {Valid(list[c].name)}
<1>1. \A k \in c .. i : list[k].kind # "combinator"
  BY PartFacts
<1>2. LastPart(i) = c .. i
  BY <1>1, PartFacts, LastPartFacts
<1>3. c \in c .. i
  BY PartFacts
<1>4. list[c].kind = "class" /\ \A k \in (c .. i) \ {c} : list[k].kind \notin {"class", "pseudo"}
  BY PartFacts DEF Part
<1> QED BY <1>2, <1>3, <1>4, ClassSubject

LEMMA PartClosed ==
  ASSUME TypeOK, Simple, NEW s, NEW c, NEW i, Part(s, c, i), i + 1 \in DOMAIN list,
         list[i + 1].kind \in {"pseudo", "state"}
  PROVE  /\ Current(s, i + 1) /\ Closes(i + 1)
         /\ Subjects(i + 1) = IF list[i + 1].kind = "pseudo" THEN {Valid(list[i + 1].name)}
                              ELSE {Valid(list[c].name)}
<1> DEFINE u == i + 1
           P == c .. u
<1>1. /\ Len(list) \in Nat /\ i \in Nat /\ c \in 1 .. i /\ s \in 1 .. i /\ Current(s, i)
      /\ c \in s .. i
  BY ListFacts, PartFacts
<1>2. u \in DOMAIN list \ Commas
  BY DEF Commas
<1>3. Current(s, u)
  BY <1>1, <1>2, SelectorFacts
<1>4. Closes(u)
  BY <1>2, SimpleNode
<1>5. \A k \in P : k = u \/ k \in c .. i
  BY <1>1
<1>6. c \in P /\ u \in P /\ c # u /\ c \in s .. u
  BY <1>1
<1>7. \A k \in P \ {u} : list[k].kind \in {"class", "named"} /\ (k # c => list[k].kind = "named")
  BY <1>5, PartFacts
<1>8. list[c].kind = "class" /\ (c = s \/ list[c - 1].kind = "combinator")
  BY DEF Part
<1>9. \A k \in P : list[k].kind # "combinator"
  BY <1>7
<1>10. LastPart(u) = P
  <2> HIDE DEF u
  <2> QED BY <1>3, <1>4, <1>6, <1>8, <1>9, LastPartFacts
<1> HIDE DEF u, P
<1>11. CASE list[u].kind = "pseudo"
  <2>1. \A k \in P \ {u} : list[k].kind # "pseudo"
    BY <1>7
  <2>2. Subjects(u) = {Valid(list[u].name)}
    BY <1>6, <1>10, <1>11, <2>1, PseudoSubject
  <2> QED BY <1>3, <1>4, <1>11, <2>2 DEF u
<1>12. CASE list[u].kind = "state"
  <2>1. \A k \in P \ {c} : list[k].kind \notin {"class", "pseudo"}
    BY <1>7, <1>12
  <2>2. Subjects(u) = {Valid(list[c].name)}
    BY <1>6, <1>8, <1>10, <2>1, ClassSubject
  <2> QED BY <1>3, <1>4, <1>12, <2>2 DEF u
<1> QED BY <1>11, <1>12 DEF u

(* The class held back at the top is added when its part is the last.      *)
LEMMA ClassCounts ==
  ASSUME IInv, mode = "consume", NEW s, NEW c, Taken(s, c, held, classes)
  PROVE  Range(IF AtTop THEN Insert(classes, held) ELSE classes) = All(Past(s)) \cup {Valid(list[c].name)}
<1>1. Range(Insert(classes, held)) = Range(classes) \cup {held}
  BY ConsumeFacts, InsertFacts
<1> QED BY <1>1 DEF Taken

LEMMA ConsumeTrackFacts ==
  ASSUME IInv, Simple, OnTrack(mode, at, combined, held, classes, errors), mode \in {"consume", "past"}
  PROVE  /\ TypeOK /\ Len(list) \in Nat /\ DOMAIN list = 1 .. Len(list)
         /\ at \in Nat /\ at \in 1 .. Len(list) /\ at \in 0 .. Len(list)
         /\ Upcoming = at + 1
         /\ Exhausted(at + 1) <=> at = Len(list)
         /\ ~Exhausted(at + 1) => at + 1 \in DOMAIN list /\ Token(Upcoming + 1) = at + 2
         /\ mode = "consume" => \E s, c \in DOMAIN list : Part(s, c, at) /\ Taken(s, c, held, classes)
<1>1. TypeOK /\ Len(list) \in Nat /\ DOMAIN list = 1 .. Len(list)
  BY ListFacts DEF IInv
<1>2. at \in Nat /\ at \in 1 .. Len(list) /\ at \in 0 .. Len(list)
  BY <1>1 DEF TypeOK
<1>3. Upcoming = at + 1 /\ (Exhausted(at + 1) <=> at = Len(list))
      /\ (at + 1 \in 1 .. Len(list) => Token(Upcoming + 1) = at + 2)
  BY <1>1, <1>2, UpcomingNext
<1>4. at # Len(list) => at + 1 \in 1 .. Len(list)
  <2>1. Len(list) \in Nat /\ at \in 1 .. Len(list)
    BY <1>1, <1>2
  <2> QED BY <2>1
<1> QED BY <1>1, <1>2, <1>3, <1>4 DEF OnTrack

LEMMA ConsumePseudoTrack ==
  ASSUME IInv, Simple, OnTrack(mode, at, combined, held, classes, errors), ConsumePseudo
  PROVE  OnTrack(mode', at', combined', held', classes', errors')
<1> DEFINE u == at + 1
           name == Valid(list[u].name)
           kept == IF AtTop THEN classes ELSE Front(classes)
<1>1. mode = "consume" /\ ~Exhausted(Upcoming) /\ list[Upcoming].kind = "pseudo"
  BY DEF ConsumePseudo, Consuming
<1>2. Upcoming = u /\ TypeOK /\ u \in DOMAIN list /\ at \in Nat /\ list[u].kind = "pseudo"
  BY <1>1, ConsumeTrackFacts
<1>3. PICK s, c \in DOMAIN list : Part(s, c, at) /\ Taken(s, c, held, classes)
  BY <1>1, ConsumeTrackFacts
<1>4. Current(s, u) /\ Closes(u) /\ Subjects(u) = {name}
  BY <1>2, <1>3, PartClosed
<1>5. Range(kept) = All(Past(s))
  <2>1. CASE AtTop
    BY <1>3, <2>1 DEF Taken
  <2>2. CASE ~AtTop
    <3>1. c \in s .. at /\ s \in 1 .. at /\ list[c].kind = "class"
      BY <1>2, <1>3, PartFacts DEF Part
    <3>2. c \in Selector(u) /\ ~Opens(u)
      <4>1. c \in s .. u /\ u # s
        BY <1>2, <3>1
      <4> QED BY <1>2, <1>4, <4>1, SelectorFacts
    <3>3. \A k \in 1 .. (c - 1) : k \notin Commas \cup Selector(u) => Valid(list[c].name) \notin Subjects(k)
      BY <1>2, <2>2, <3>1, <3>2, SimpleNode
    <3>4. \A k \in Past(s) : k \in 1 .. (c - 1) /\ k \notin Commas \cup Selector(u)
      <4> TAKE k \in Past(s)
      <4>1. k \in 1 .. Len(list) /\ k \notin Commas /\ k < s /\ Len(list) \in Nat
        BY <1>2, ListFacts DEF Past
      <4>2. k \notin Selector(u)
        <5>1. \A j \in Selector(u) : s <= j
          BY <1>2, <1>4, SelectorFacts
        <5>2. ~(s <= k)
          BY <1>2, <3>1, <4>1
        <5> QED BY <5>1, <5>2
      <4> QED BY <3>1, <4>1, <4>2
    <3>5. Valid(list[c].name) \notin All(Past(s))
      BY <3>3, <3>4 DEF All
    <3> QED BY <1>3, <2>2, <3>5 DEF Taken
  <2> QED BY <2>1, <2>2
<1>6. kept \in Seq(Name) /\ name \in Name
  BY <1>1, <1>2, ConsumeFacts, FrontFacts
<1>7. classes' = Insert(kept, name) /\ at' = u /\ mode' = "past"
  BY <1>2 DEF ConsumePseudo
<1>8. errors' \in Seq(NameErrors \X Nat)
  BY <1>1, ConsumeFacts, NameReports DEF OnTrack, ConsumePseudo
<1> HIDE DEF kept, name, u
<1>9. Range(classes') = All(Past(s)) \cup Subjects(u)
  BY <1>4, <1>5, <1>6, <1>7, InsertFacts
<1> QED BY <1>3, <1>4, <1>7, <1>8, <1>9 DEF OnTrack

LEMMA ConsumeStateTrack ==
  ASSUME IInv, Simple, OnTrack(mode, at, combined, held, classes, errors), ConsumeState
  PROVE  OnTrack(mode', at', combined', held', classes', errors')
<1> DEFINE u == at + 1
<1>1. mode = "consume" /\ ~Exhausted(Upcoming) /\ list[Upcoming].kind = "state"
  BY DEF ConsumeState, Consuming
<1>2. Upcoming = u /\ TypeOK /\ u \in DOMAIN list /\ list[u].kind = "state"
  BY <1>1, ConsumeTrackFacts
<1>3. PICK s, c \in DOMAIN list : Part(s, c, at) /\ Taken(s, c, held, classes)
  BY <1>1, ConsumeTrackFacts
<1>4. Current(s, u) /\ Closes(u) /\ Subjects(u) = {Valid(list[c].name)}
  BY <1>2, <1>3, PartClosed
<1>5. classes' = (IF AtTop THEN Insert(classes, held) ELSE classes) /\ at' = u /\ mode' = "past"
  BY <1>2 DEF ConsumeState
<1>6. errors' \in Seq(NameErrors \X Nat)
  BY <1>1, ConsumeFacts, NameReports DEF OnTrack, ConsumeState
<1> HIDE DEF u
<1>7. Range(classes') = All(Past(s)) \cup Subjects(u)
  BY <1>1, <1>3, <1>4, <1>5, ClassCounts
<1> QED BY <1>3, <1>4, <1>5, <1>6, <1>7 DEF OnTrack

LEMMA ConsumeDelimiterTrack ==
  ASSUME IInv, Simple, OnTrack(mode, at, combined, held, classes, errors), ConsumeDelimiter
  PROVE  OnTrack(mode', at', combined', held', classes', errors')
<1>1. mode = "consume" /\ ~Exhausted(Upcoming) /\ list[Upcoming].kind \in {"comma", "combinator"}
  BY DEF ConsumeDelimiter, Consuming
<1>2. /\ Upcoming = at + 1 /\ TypeOK /\ at + 1 \in DOMAIN list /\ Token(Upcoming + 1) = at + 2
      /\ at \in Nat /\ Len(list) \in Nat /\ DOMAIN list = 1 .. Len(list)
  BY <1>1, ConsumeTrackFacts
<1>3. PICK s, c \in DOMAIN list : Part(s, c, at) /\ Taken(s, c, held, classes)
  BY <1>1, ConsumeTrackFacts
<1>4. Current(s, at) /\ s \in 1 .. at
  BY <1>2, <1>3, PartFacts
<1>5. /\ at' = at + 2 /\ mode' = (IF Exhausted(at + 2) THEN "end" ELSE "begin")
      /\ combined' = FALSE /\ errors' = errors
  BY <1>2 DEF ConsumeDelimiter, BeginAt
<1>6. CASE list[at + 1].kind = "comma"
  <2>1. Closes(at)
    BY <1>2, <1>4, <1>6, GoesOn DEF Commas
  <2>2. Subjects(at) = {Valid(list[c].name)}
    BY <1>2, <1>3, <2>1, PartEnds
  <2>3. classes' = IF AtTop THEN Insert(classes, held) ELSE classes
    BY <1>1, <1>2, <1>6 DEF ConsumeDelimiter, Consuming
  <2>4. Range(classes') = All(Past(s)) \cup Subjects(at)
    BY <1>1, <1>3, <2>2, <2>3, ClassCounts
  <2>5. at # Len(list)
    <3>1. at + 1 \in 1 .. Len(list) /\ Len(list) \in Nat
      BY <1>2
    <3> QED BY <3>1
  <2>6. at + 2 \in 1 .. Len(list) /\ Begun(at + 2, at + 2, FALSE, classes')
    BY <1>2, <1>4, <2>1, <2>4, <2>5, EndingFacts
  <2>7. at + 2 \in DOMAIN list /\ ~Exhausted(at + 2)
    BY <1>2, <2>6 DEF Exhausted
  <2> QED BY <1>5, <2>6, <2>7 DEF OnTrack
<1>7. CASE list[at + 1].kind = "combinator"
  <2>1. Current(s, at + 1)
    BY <1>2, <1>4, <1>7, SelectorFacts DEF Commas
  <2>2. at + 1 # s
    BY <1>2, <1>4
  <2>3. AtTop
    BY <1>2, <1>7, <2>1, <2>2, SimpleNode, SelectorFacts
  <2>4. ~Closes(at + 1)
    BY <1>2, <1>7, SimpleNode
  <2>5. (at + 1) + 1 \in DOMAIN list /\ Current(s, (at + 1) + 1)
    BY <1>2, <2>1, <2>4, GoesOn
  <2>6. (at + 1) + 1 = at + 2 /\ (at + 2) - 1 = at + 1
    BY <1>2
  <2>7. Current(s, at + 2) /\ ~Exhausted(at + 2)
    BY <1>2, <2>5, <2>6 DEF Exhausted
  <2>8. classes' = classes
    BY <1>2, <1>7 DEF ConsumeDelimiter, Consuming
  <2>9. Begun(s, at + 2, FALSE, classes)
    BY <1>3, <1>7, <2>3, <2>6, <2>7 DEF Begun, Taken
  <2> QED BY <1>3, <1>5, <2>7, <2>8, <2>9 DEF OnTrack
<1> QED BY <1>1, <1>2, <1>6, <1>7

LEMMA ConsumeColonTrack ==
  ASSUME IInv, Simple, OnTrack(mode, at, combined, held, classes, errors), ConsumeColon
  PROVE  FALSE
<1>1. mode = "consume" /\ ~Exhausted(Upcoming) /\ list[Upcoming].kind = "colon"
  BY DEF ConsumeColon, Consuming
<1>2. Upcoming \in DOMAIN list
  BY <1>1, ConsumeFacts
<1> QED BY <1>1, <1>2, SimpleNode

(* Only a name can follow: before a class or a query stands a combinator.  *)
LEMMA ConsumeOtherTrack ==
  ASSUME IInv, Simple, OnTrack(mode, at, combined, held, classes, errors), ConsumeOther
  PROVE  OnTrack(mode', at', combined', held', classes', errors')
<1>1. mode = "consume" /\ ~Exhausted(Upcoming) /\ list[Upcoming].kind \in {"class", "named", "query"}
  BY DEF ConsumeOther, Consuming
<1>2. Upcoming = at + 1 /\ TypeOK /\ at + 1 \in DOMAIN list /\ at \in Nat
  BY <1>1, ConsumeTrackFacts
<1>3. PICK s, c \in DOMAIN list : Part(s, c, at) /\ Taken(s, c, held, classes)
  BY <1>1, ConsumeTrackFacts
<1>4. /\ Current(s, at) /\ s \in 1 .. at /\ c \in s .. at /\ c \in 1 .. at
      /\ \A k \in c .. at : list[k].kind \in {"class", "named"}
  BY <1>2, <1>3, PartFacts
<1>5. Current(s, at + 1)
  <2>1. at + 1 \in DOMAIN list \ Commas
    BY <1>1, <1>2 DEF Commas
  <2> QED BY <1>2, <1>4, <2>1, SelectorFacts
<1>6. list[at + 1].kind = "named"
  <2>1. SUFFICES ASSUME list[at + 1].kind \in {"class", "query"} PROVE FALSE
    BY <1>1, <1>2
  <2>2. ~Opens(at + 1)
    <3>1. at + 1 # s
      BY <1>2, <1>4
    <3> QED BY <1>2, <1>5, <3>1, SelectorFacts
  <2>3. (at + 1) - 1 = at /\ at \in c .. at
    BY <1>2, <1>4
  <2>4. list[at].kind = "combinator"
    BY <1>2, <2>1, <2>2, <2>3, SimpleNode
  <2> QED BY <1>4, <2>3, <2>4
<1>7. Part(s, c, at + 1)
  <2>1. c \in s .. at + 1 /\ \A k \in c + 1 .. at + 1 : k = at + 1 \/ k \in c + 1 .. at
    BY <1>2, <1>4
  <2> QED BY <1>3, <1>5, <1>6, <2>1 DEF Part
<1>8. errors' = errors /\ at' = at + 1 /\ mode' = "consume" /\ held' = held /\ classes' = classes
  BY <1>1, <1>2, <1>6 DEF ConsumeOther, Consuming
<1> QED BY <1>3, <1>7, <1>8 DEF OnTrack

LEMMA ConsumeEndTrack ==
  ASSUME IInv, Simple, OnTrack(mode, at, combined, held, classes, errors), ConsumeEnd
  PROVE  OnTrack(mode', at', combined', held', classes', errors')
<1>1. mode = "consume" /\ Exhausted(Upcoming)
  BY DEF ConsumeEnd
<1>2. at = Len(list) /\ TypeOK
  BY <1>1, ConsumeTrackFacts
<1>3. PICK s, c \in DOMAIN list : Part(s, c, at) /\ Taken(s, c, held, classes)
  BY <1>1, ConsumeTrackFacts
<1>4. Current(s, at) /\ Closes(at)
  BY <1>2, <1>3, PartFacts, GoesOn
<1>5. Subjects(at) = {Valid(list[c].name)}
  BY <1>2, <1>3, <1>4, PartEnds
<1>6. classes' = (IF AtTop THEN Insert(classes, held) ELSE classes) /\ mode' = "end" /\ errors' = errors
  BY DEF ConsumeEnd
<1>7. Range(classes') = All(Past(s)) \cup Subjects(at)
  BY <1>1, <1>3, <1>5, <1>6, ClassCounts
<1>8. Range(classes') = All(DOMAIN list \ Commas)
  BY <1>2, <1>4, <1>7, EndingFacts
<1> QED BY <1>6, <1>8 DEF OnTrack

LEMMA PastCommaTrack ==
  ASSUME IInv, Simple, OnTrack(mode, at, combined, held, classes, errors), PastComma
  PROVE  OnTrack(mode', at', combined', held', classes', errors')
<1>1. mode = "past" /\ classes' = classes /\ errors' = errors
  BY DEF PastComma
<1>2. PICK s \in DOMAIN list :
        Current(s, at) /\ Closes(at) /\ Range(classes) = All(Past(s)) \cup Subjects(at)
  BY <1>1 DEF OnTrack
<1>3. Upcoming = at + 1 /\ TypeOK /\ (Exhausted(at + 1) <=> at = Len(list)) /\ Len(list) \in Nat
      /\ DOMAIN list = 1 .. Len(list)
  BY <1>1, ConsumeTrackFacts
<1>4. CASE at = Len(list)
  <2>1. Range(classes) = All(DOMAIN list \ Commas)
    BY <1>2, <1>3, <1>4, EndingFacts
  <2>2. mode' = "end"
    BY <1>3, <1>4 DEF PastComma
  <2> QED BY <1>1, <2>1, <2>2 DEF OnTrack
<1>5. CASE at # Len(list)
  <2>1. at + 1 \in Commas /\ at + 2 \in 1 .. Len(list) /\ Begun(at + 2, at + 2, FALSE, classes)
    BY <1>2, <1>3, <1>5, EndingFacts
  <2>2. at' = at + 2 /\ combined' = FALSE /\ mode' = IF Exhausted(at + 2) THEN "end" ELSE "begin"
    <3>1. Token(Upcoming + 1) = at + 2 /\ ~Exhausted(Upcoming) /\ list[Upcoming].kind = "comma"
      BY <1>1, <1>3, <1>5, <2>1, ConsumeTrackFacts DEF Commas
    <3> QED BY <3>1 DEF PastComma, BeginAt
  <2>3. at + 2 \in DOMAIN list /\ ~Exhausted(at + 2)
    BY <1>3, <2>1 DEF Exhausted
  <2> QED BY <1>1, <2>1, <2>2, <2>3 DEF OnTrack
<1> QED BY <1>4, <1>5

(* What the invariant says of the list a step leaves as it is.             *)
LEMMA ListStays ==
  ASSUME UNCHANGED <<list, parents>>
  PROVE  /\ Simple' <=> Simple
         /\ OnTrack(mode', at', combined', held', classes', errors')
              => OnTrack(mode, at, combined, held, classes, errors)'
<1>1. list' = list /\ parents' = parents
  OBVIOUS
<1>2. Commas' = Commas /\ (AtTop' <=> AtTop)
  BY <1>1 DEF Commas, AtTop
<1>3. \A j : Selector(j)' = Selector(j)
  BY <1>1, <1>2 DEF Selector
<1>4. \A j : LastPart(j)' = LastPart(j)
  BY <1>1, <1>3 DEF LastPart
<1>5. ASSUME NEW j PROVE Subjects(j)' = Subjects(j)
  <2> DEFINE named(kind) == {Valid(list[n].name) : n \in {k \in LastPart(j) : list[k].kind = kind}}
             only(kind) == LastPart(j) # {} /\ \A k \in LastPart(j) : list[k].kind = kind
             those == IF named("pseudo") # {} THEN named("pseudo")
                      ELSE IF named("class") # {} THEN named("class")
                      ELSE IF only("state") /\ ~AtTop THEN Range(parents)
                      ELSE IF LastPart(j) # {} THEN {Instance}
                      ELSE {}
  <2>1. named("pseudo")' = named("pseudo") /\ named("class")' = named("class")
    BY <1>1, <1>4
  <2>2. only("state")' <=> only("state")
    BY <1>1, <1>4
  <2>3. LastPart(j)' = LastPart(j) /\ Range(parents)' = Range(parents)
    BY <1>1, <1>4 DEF Range
  <2>4. those' = those
    <3> HIDE DEF named, only
    <3> QED BY <1>2, <2>1, <2>2, <2>3
  <2>5. Subjects(j) = those
    BY Zenon DEF Subjects
  <2>6. Subjects(j)' = those'
    BY Zenon DEF Subjects
  <2> QED BY <2>4, <2>5, <2>6
<1>6. \A j : (Opens(j)' <=> Opens(j)) /\ (Closes(j)' <=> Closes(j))
  BY <1>3 DEF Opens, Closes
<1>7. Simple' <=> Simple
  BY <1>1, <1>2, <1>3, <1>5, <1>6 DEF Simple
<1>8. (\A s : Past(s)' = Past(s)) /\ (\A S : All(S)' = All(S))
  BY <1>1, <1>2, <1>5 DEF Past, All
<1>9. \A s, i : Current(s, i)' <=> Current(s, i)
  BY <1>1, <1>2 DEF Current
<1> QED BY <1>1, <1>2, <1>5, <1>6, <1>7, <1>8, <1>9 DEF OnTrack, Begun, Part, Taken

LEMMA NextTrackInv ==
  ASSUME IInv, TrackInv, [Next]_vars
  PROVE  TrackInv'
<1>1. UNCHANGED <<list, parents>>
  BY DEF Next, vars, Start, BeginNamed, BeginPseudo, BeginState, BeginClass, BeginClassNested,
     BeginCombinator, BeginOther, ConsumePseudo, ConsumeState, ConsumeDelimiter, ConsumeColon,
     ConsumeOther, ConsumeEnd, PastComma, Terminated
<1>2. SUFFICES ASSUME Simple PROVE OnTrack(mode', at', combined', held', classes', errors')
  BY <1>1, ListStays DEF TrackInv
<1>3. OnTrack(mode, at, combined, held, classes, errors)
  BY <1>2 DEF TrackInv
<1>4. CASE UNCHANGED vars
  <2>1. /\ mode' = mode /\ at' = at /\ combined' = combined /\ held' = held
        /\ classes' = classes /\ errors' = errors
    BY <1>4 DEF vars
  <2> QED BY <1>3, <2>1
<1>5. CASE Next
  BY <1>2, <1>3, <1>4, <1>5, StartTrack, BeginNamedTrack, BeginPseudoTrack, BeginStateTrack,
     BeginClassTrack, BeginClassNestedTrack, BeginCombinatorTrack, BeginOtherTrack,
     ConsumePseudoTrack, ConsumeStateTrack, ConsumeDelimiterTrack, ConsumeColonTrack,
     ConsumeOtherTrack, ConsumeEndTrack, PastCommaTrack DEF Next, Terminated
<1> QED BY <1>4, <1>5

LEMMA InitTrackInv == Init => TrackInv
<1> SUFFICES ASSUME Init PROVE OnTrack(mode, at, combined, held, classes, errors)
  BY DEF TrackInv
<1>1. mode = "start" /\ classes = <<>> /\ errors = <<>>
  BY DEF Init
<1>2. Range(classes) = {}
  BY <1>1 DEF Range
<1> QED BY <1>1, <1>2 DEF OnTrack

(* On every list written as Simple says, of any length: the walk ends with *)
(* exactly the classes its selectors apply to, and complains about names   *)
(* only.                                                                   *)
THEOREM SimpleListsFound == Spec => []SimpleListsResolve
<1>1. TrackInv => SimpleListsResolve
  <2> SUFFICES ASSUME TrackInv, Done, Simple
               PROVE  /\ Range(classes) = UNION {Subjects(i) : i \in DOMAIN list \ Commas}
                      /\ \A n \in DOMAIN errors : errors[n][1] \in NameErrors
    BY DEF SimpleListsResolve, NameErrors
  <2>1. errors \in Seq(NameErrors \X Nat) /\ Range(classes) = All(DOMAIN list \ Commas)
    BY DEF TrackInv, OnTrack, Done
  <2>2. \A n \in DOMAIN errors : errors[n] \in NameErrors \X Nat
    BY <2>1
  <2> QED BY <2>1, <2>2 DEF All
<1>2. Spec => []TrackInv
  BY Invariance, InitTrackInv, NextTrackInv, PTL DEF Spec
<1> QED BY <1>1, <1>2, PTL
=============================================================================

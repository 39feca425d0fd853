-------------------------- MODULE ClientSetupProofs --------------------------
(***************************************************************************)
(* Theorems about ClientSetup.  The first part is about IniFile: what Set  *)
(* and EnableWebUI do to the lines they are given.  Found is not reasoned  *)
(* about with its minima but by what a line stands under (Under, Says).    *)
(* The second part is about the commands: their types, and the invariants  *)
(* SettingsInv and FilesInv with what follows from them.                   *)
(***************************************************************************)
EXTENDS ClientSetup, SequenceTheorems, WellFoundedInduction, TLAPS

(* A set of numbers has a least one.                                       *)
LEMMA MinOfNat ==
  ASSUME NEW S \in SUBSET Nat, S # {}
  PROVE  Min(S) \in S /\ \A y \in S : Min(S) <= y
<1> DEFINE less == OpToRel(<, Nat)
<1>1. \E x \in S : \A y \in S : ~ (<<y, x>> \in less)
  <2>1. IsWellFoundedOn(less, Nat)  BY NatLessThanWellFounded
  <2> HIDE DEF less
  <2> QED  BY <2>1, WFMin
<1>2. less = {ss \in Nat \X Nat : ss[1] < ss[2]}
  BY DEF OpToRel
<1>3. \E x \in S : \A y \in S : x <= y
  <2>1. PICK x \in S : \A y \in S : ~ (<<y, x>> \in less)  BY <1>1
  <2>2. \A y \in S : x <= y
    <3> TAKE y \in S
    <3>1. x \in Nat /\ y \in Nat  OBVIOUS
    <3>2. ~ (y < x)
      <4> SUFFICES ASSUME y < x PROVE FALSE  OBVIOUS
      <4>1. <<y, x>> \in Nat \X Nat  BY <3>1
      <4>2. <<y, x>> \in less  BY <4>1, <1>2
      <4> QED  BY <4>2, <2>1
    <3> QED  BY <3>1, <3>2
  <2> QED  BY <2>2
<1> QED  BY <1>3 DEF Min

-----------------------------------------------------------------------------
(* Lines.                                                                  *)

(* A header, an entry and a blank line are told apart by their kind.       *)
LEMMA Kinds ==
  /\ \A s : Header(s).kind = "section" /\ Header(s).name = s
  /\ \A k, v : Entry(k, v).kind = "entry" /\ Entry(k, v).key = k /\ Entry(k, v).value = v
  /\ Blank.kind = "blank"
<1>1. \A s : Header(s).kind = "section" /\ Header(s).name = s
  BY DEF Header
<1>2. \A k, v : Entry(k, v).kind = "entry" /\ Entry(k, v).key = k /\ Entry(k, v).value = v
  BY DEF Entry
<1>3. Blank.kind = "blank"
  BY DEF Blank
<1> QED  BY <1>1, <1>2, <1>3

(* Line i stands under the first header of section s.                      *)
Under(lines, s, i) ==
  \E h \in 1 .. i - 1 :
    /\ lines[h] = Header(s)
    /\ \A j \in 1 .. h - 1 : lines[j] # Header(s)
    /\ \A j \in h + 1 .. i - 1 : lines[j].kind # "section"

(* An entry for key k stands there, and the first one of them.             *)
Stands(lines, s, k, i) == Under(lines, s, i) /\ IsEntry(lines[i], k)
SaysAt(lines, s, k, i) ==
  /\ i \in DOMAIN lines /\ Stands(lines, s, k, i)
  /\ \A j \in 1 .. i - 1 : ~ Stands(lines, s, k, j)
Says(lines, s, k, line) == \E i \in DOMAIN lines : SaysAt(lines, s, k, i) /\ lines[i] = line

(* SectionStart is the first header of this name.                          *)
LEMMA FirstHeader ==
  ASSUME NEW L, NEW lines \in Seq(L), NEW s, HasSection(lines, s)
  PROVE  /\ SectionStart(lines, s) \in 1 .. Len(lines)
         /\ lines[SectionStart(lines, s)] = Header(s)
         /\ \A j \in 1 .. SectionStart(lines, s) - 1 : lines[j] # Header(s)
<1> DEFINE S == {i \in DOMAIN lines : lines[i] = Header(s)}
<1>1. DOMAIN lines = 1 .. Len(lines) /\ Len(lines) \in Nat  BY LenProperties
<1>2. S \in SUBSET Nat /\ S # {}  BY <1>1 DEF HasSection, Contains
<1>3. Min(S) \in S /\ \A y \in S : Min(S) <= y  BY <1>2, MinOfNat
<1>4. SectionStart(lines, s) = Min(S)  BY DEF SectionStart
<1> HIDE DEF S
<1>5. Min(S) \in 1 .. Len(lines) /\ lines[Min(S)] = Header(s)  BY <1>3, <1>1 DEF S
<1>6. \A j \in 1 .. Min(S) - 1 : lines[j] # Header(s)
  <2> SUFFICES ASSUME NEW j \in 1 .. Min(S) - 1, lines[j] = Header(s) PROVE FALSE  OBVIOUS
  <2>1. j \in S  BY <1>5, <1>1 DEF S
  <2> QED  BY <2>1, <1>3, <1>5
<1> QED  BY <1>4, <1>5, <1>6

(* SectionEnd is the next header, or behind the last line.                 *)
LEMMA EndOfSection ==
  ASSUME NEW L, NEW lines \in Seq(L), NEW s, HasSection(lines, s)
  PROVE  /\ SectionEnd(lines, s) \in SectionStart(lines, s) + 1 .. Len(lines) + 1
         /\ \A j \in SectionStart(lines, s) + 1 .. SectionEnd(lines, s) - 1 :
              lines[j].kind # "section"
         /\ SectionEnd(lines, s) \in DOMAIN lines => lines[SectionEnd(lines, s)].kind = "section"
<1> DEFINE h == SectionStart(lines, s)
           S == {Len(lines) + 1} \cup {i \in DOMAIN lines : i > h /\ lines[i].kind = "section"}
<1>1. DOMAIN lines = 1 .. Len(lines) /\ Len(lines) \in Nat  BY LenProperties
<1>2. S \in SUBSET Nat /\ S # {}  BY <1>1
<1>3. Min(S) \in S /\ \A y \in S : Min(S) <= y  BY <1>2, MinOfNat
<1>4. SectionEnd(lines, s) = Min(S)  BY DEF SectionEnd
<1>5. h \in 1 .. Len(lines)  BY FirstHeader
<1> HIDE DEF S, h
<1>6. Min(S) \in h + 1 .. Len(lines) + 1  BY <1>3, <1>1, <1>5 DEF S
<1>7. \A j \in h + 1 .. Min(S) - 1 : lines[j].kind # "section"
  <2> SUFFICES ASSUME NEW j \in h + 1 .. Min(S) - 1, lines[j].kind = "section" PROVE FALSE
    OBVIOUS
  <2>1. j \in S  BY <1>6, <1>5, <1>1 DEF S
  <2> QED  BY <2>1, <1>3, <1>6, <1>5
<1>8. Min(S) \in DOMAIN lines => lines[Min(S)].kind = "section"  BY <1>3, <1>1 DEF S
<1> QED  BY <1>4, <1>6, <1>7, <1>8 DEF h

(* Found are the entries for the key that stand under the first header.    *)
LEMMA FoundIsUnder ==
  ASSUME NEW L, NEW lines \in Seq(L), NEW s, NEW k
  PROVE  /\ Found(lines, s, k) \in SUBSET (1 .. Len(lines))
         /\ \A i \in 1 .. Len(lines) :
              i \in Found(lines, s, k) <=> Stands(lines, s, k, i)
<1>1. DOMAIN lines = 1 .. Len(lines) /\ Len(lines) \in Nat  BY LenProperties
<1>2. CASE ~ HasSection(lines, s)
  <2>1. \A h \in 1 .. Len(lines) : lines[h] # Header(s)  BY <1>1, <1>2 DEF HasSection, Contains
  <2>2. \A i \in 1 .. Len(lines) : ~ Under(lines, s, i)  BY <2>1, <1>1 DEF Under
  <2> QED  BY <2>2, <1>2 DEF Found, Stands
<1>3. CASE HasSection(lines, s)
  <2> DEFINE b == SectionStart(lines, s)
             e == SectionEnd(lines, s)
  <2>1. b \in 1 .. Len(lines) /\ lines[b] = Header(s) /\ \A j \in 1 .. b - 1 : lines[j] # Header(s)
    BY <1>3, FirstHeader
  <2>2. /\ e \in b + 1 .. Len(lines) + 1
        /\ \A j \in b + 1 .. e - 1 : lines[j].kind # "section"
        /\ e \in DOMAIN lines => lines[e].kind = "section"
    BY <1>3, EndOfSection
  <2>3. Found(lines, s, k) = {i \in b .. e - 1 : IsEntry(lines[i], k)}
    BY <1>3 DEF Found
  <2> HIDE DEF b, e
  <2>4. ASSUME NEW i \in 1 .. Len(lines), i \in Found(lines, s, k)
        PROVE  Stands(lines, s, k, i)
    <3>1. i \in b .. e - 1 /\ IsEntry(lines[i], k)  BY <2>3, <2>4
    <3>2. i # b  BY <3>1, <2>1, Kinds DEF IsEntry
    <3>3. b \in 1 .. i - 1  BY <3>1, <3>2, <2>1, <2>2, <1>1
    <3>4. \A j \in b + 1 .. i - 1 : lines[j].kind # "section"
      BY <3>1, <2>1, <2>2, <1>1
    <3> QED  BY <3>1, <3>3, <3>4, <2>1 DEF Under, Stands
  <2>5. ASSUME NEW i \in 1 .. Len(lines), Stands(lines, s, k, i)
        PROVE  i \in Found(lines, s, k)
    <3>1. PICK h \in 1 .. i - 1 :
            /\ lines[h] = Header(s)
            /\ \A j \in 1 .. h - 1 : lines[j] # Header(s)
            /\ \A j \in h + 1 .. i - 1 : lines[j].kind # "section"
      BY <2>5 DEF Stands, Under
    <3>2. h = b
      <4>1. ~ (h < b)  BY <3>1, <2>1, <1>1
      <4>2. ~ (b < h)  BY <3>1, <2>1, <1>1
      <4> QED  BY <4>1, <4>2, <2>1, <1>1
    <3>3. ~ (e < i)
      <4> SUFFICES ASSUME e < i PROVE FALSE  OBVIOUS
      <4>1. e \in h + 1 .. i - 1 /\ e \in DOMAIN lines  BY <3>2, <2>1, <2>2, <1>1
      <4> QED  BY <4>1, <3>1, <2>2
    <3>4. e # i
      <4> SUFFICES ASSUME e = i PROVE FALSE  OBVIOUS
      <4>1. lines[i].kind = "section"  BY <2>2, <1>1
      <4> QED  BY <4>1, <2>5 DEF Stands, IsEntry
    <3>5. i \in b .. e - 1  BY <3>1, <3>2, <3>3, <3>4, <2>1, <2>2, <1>1
    <3> QED  BY <3>5, <2>5, <2>3 DEF Stands
  <2>6. Found(lines, s, k) \in SUBSET (1 .. Len(lines))  BY <2>1, <2>2, <2>3, <1>1
  <2> QED  BY <2>4, <2>5, <2>6
<1> QED  BY <1>2, <1>3

(* A line stands under one header only.                                    *)
LEMMA UnderOne ==
  ASSUME NEW lines, NEW i \in Nat, NEW s, NEW t, Under(lines, s, i), Under(lines, t, i)
  PROVE  s = t
<1>1. PICK h \in 1 .. i - 1 :
        lines[h] = Header(s) /\ \A j \in h + 1 .. i - 1 : lines[j].kind # "section"
  BY DEF Under
<1>2. PICK g \in 1 .. i - 1 :
        lines[g] = Header(t) /\ \A j \in g + 1 .. i - 1 : lines[j].kind # "section"
  BY DEF Under
<1>3. lines[h].kind = "section" /\ lines[g].kind = "section"  BY <1>1, <1>2, Kinds
<1>4. ~ (h < g)  BY <1>1, <1>2, <1>3
<1>5. ~ (g < h)  BY <1>1, <1>2, <1>3
<1>6. h = g  BY <1>4, <1>5, <1>1, <1>2
<1>7. Header(s) = Header(t)  BY <1>6, <1>1, <1>2
<1>8. Header(s).name = Header(t).name  BY <1>7
<1> QED  BY <1>8, Kinds

(* Has and Get in terms of Says.                                           *)
LEMMA HasIsSays ==
  ASSUME NEW L, NEW lines \in Seq(L), NEW s, NEW k
  PROVE  /\ Has(lines, s, k) => SaysAt(lines, s, k, Min(Found(lines, s, k)))
         /\ Has(lines, s, k) <=> \E line : Says(lines, s, k, line)
         /\ \A line : Says(lines, s, k, line) =>
                Get(lines, s, k) = line.value /\ lines[Min(Found(lines, s, k))] = line
<1>1. DOMAIN lines = 1 .. Len(lines) /\ Len(lines) \in Nat  BY LenProperties
<1> DEFINE F == Found(lines, s, k)
<1>2. F \in SUBSET (1 .. Len(lines)) /\ \A i \in 1 .. Len(lines) : i \in F <=> Stands(lines, s, k, i)
  BY FoundIsUnder
<1>3. Has(lines, s, k) <=> F # {}  BY DEF Has
<1>4. ASSUME F # {} PROVE Min(F) \in F /\ \A y \in F : Min(F) <= y
  <2>1. F \in SUBSET Nat  BY <1>2, <1>1
  <2> QED  BY <2>1, <1>4, MinOfNat
<1> HIDE DEF F
<1>5. ASSUME F # {} PROVE SaysAt(lines, s, k, Min(F))
  <2>1. Min(F) \in 1 .. Len(lines) /\ Stands(lines, s, k, Min(F))  BY <1>2, <1>4, <1>5
  <2>2. \A j \in 1 .. Min(F) - 1 : ~ Stands(lines, s, k, j)
    <3> SUFFICES ASSUME NEW j \in 1 .. Min(F) - 1, Stands(lines, s, k, j) PROVE FALSE  OBVIOUS
    <3>1. j \in F  BY <1>2, <1>1, <2>1
    <3> QED  BY <3>1, <1>4, <1>5, <2>1, <1>1
  <2> QED  BY <2>1, <2>2, <1>1 DEF SaysAt
<1>6. ASSUME F # {} PROVE \E line : Says(lines, s, k, line)
  <2>1. Says(lines, s, k, lines[Min(F)])  BY <1>5, <1>6 DEF Says, SaysAt
  <2> QED  BY <2>1
<1>7. ASSUME NEW line, Says(lines, s, k, line) PROVE F # {} /\ lines[Min(F)] = line
  <2>1. PICK i \in DOMAIN lines : SaysAt(lines, s, k, i) /\ lines[i] = line  BY <1>7 DEF Says
  <2>2. i \in F  BY <2>1, <1>1, <1>2 DEF SaysAt
  <2>3. Min(F) \in 1 .. Len(lines) /\ Stands(lines, s, k, Min(F)) /\ Min(F) <= i
    BY <2>2, <1>2, <1>4
  <2>4. ~ (Min(F) < i)  BY <2>1, <2>3, <1>1 DEF SaysAt
  <2>5. Min(F) = i  BY <2>3, <2>4, <1>1
  <2> QED  BY <2>1, <2>2, <2>5
<1>8. Get(lines, s, k) = lines[Min(F)].value  BY DEF Get, F
<1> QED  BY <1>3, <1>5, <1>6, <1>7, <1>8 DEF F

(* It is the first line for the key that counts.                           *)
LEMMA SaysOnly ==
  ASSUME NEW L, NEW lines \in Seq(L), NEW s, NEW k, NEW i, SaysAt(lines, s, k, i)
  PROVE  \A line : Says(lines, s, k, line) <=> line = lines[i]
<1>1. Says(lines, s, k, lines[i])  BY DEF Says, SaysAt
<1>2. \A line : Says(lines, s, k, line) => lines[Min(Found(lines, s, k))] = line
  BY HasIsSays
<1> QED  BY <1>1, <1>2

(* What a section says of a key does not change when its lines move and    *)
(* keep their order.                                                       *)
LEMMA SaysMoved ==
  ASSUME NEW L, NEW lines \in Seq(L), NEW new \in Seq(L), NEW s, NEW k,
         NEW at \in [1 .. Len(lines) -> 1 .. Len(new)],
         \A i, j \in 1 .. Len(lines) : i < j => at[i] < at[j],
         \A i \in 1 .. Len(lines) :
           /\ Stands(new, s, k, at[i]) <=> Stands(lines, s, k, i)
           /\ Stands(lines, s, k, i) => new[at[i]] = lines[i],
         \A n \in 1 .. Len(new) : Stands(new, s, k, n) => \E i \in 1 .. Len(lines) : n = at[i]
  PROVE  \A line : Says(new, s, k, line) <=> Says(lines, s, k, line)
<1>1. /\ DOMAIN lines = 1 .. Len(lines) /\ Len(lines) \in Nat
      /\ DOMAIN new = 1 .. Len(new) /\ Len(new) \in Nat
  BY LenProperties
<1>2. ASSUME NEW line, Says(lines, s, k, line) PROVE Says(new, s, k, line)
  <2>1. PICK i \in DOMAIN lines : SaysAt(lines, s, k, i) /\ lines[i] = line  BY <1>2 DEF Says
  <2>2. Stands(new, s, k, at[i]) /\ new[at[i]] = line /\ at[i] \in DOMAIN new
    BY <2>1, <1>1 DEF SaysAt
  <2>3. \A n \in 1 .. at[i] - 1 : ~ Stands(new, s, k, n)
    <3> SUFFICES ASSUME NEW n \in 1 .. at[i] - 1, Stands(new, s, k, n) PROVE FALSE  OBVIOUS
    <3>1. PICK j \in 1 .. Len(lines) : n = at[j]  BY <2>2, <1>1
    <3>2. at[j] < at[i]  BY <3>1, <2>2, <1>1
    <3>3. at[i] \in Int /\ at[j] \in Int  BY <2>2, <3>1, <1>1
    <3>4. i # j  BY <3>2, <3>3
    <3>5. ~ (i < j)
      <4> SUFFICES ASSUME i < j PROVE FALSE  OBVIOUS
      <4>1. i \in 1 .. Len(lines)  BY <1>1
      <4>2. at[i] < at[j]  BY <4>1
      <4> QED  BY <4>2, <3>2, <3>3
    <3>6. j \in 1 .. i - 1  BY <3>4, <3>5, <1>1
    <3> QED  BY <3>1, <3>6, <2>1 DEF SaysAt
  <2> QED  BY <2>2, <2>3 DEF Says, SaysAt
<1>3. ASSUME NEW line, Says(new, s, k, line) PROVE Says(lines, s, k, line)
  <2>1. PICK n \in DOMAIN new : SaysAt(new, s, k, n) /\ new[n] = line  BY <1>3 DEF Says
  <2>2. PICK i \in 1 .. Len(lines) : n = at[i]  BY <2>1, <1>1 DEF SaysAt
  <2>3. Stands(lines, s, k, i) /\ lines[i] = line  BY <2>1, <2>2 DEF SaysAt
  <2>4. \A j \in 1 .. i - 1 : ~ Stands(lines, s, k, j)
    <3> SUFFICES ASSUME NEW j \in 1 .. i - 1, Stands(lines, s, k, j) PROVE FALSE  OBVIOUS
    <3>1. j \in 1 .. Len(lines) /\ at[j] < at[i]  BY <1>1
    <3>2. at[j] \in 1 .. n - 1  BY <3>1, <2>2, <1>1
    <3> QED  BY <3>1, <3>2, <2>1 DEF SaysAt
  <2> QED  BY <2>3, <2>4, <1>1 DEF Says, SaysAt
<1> QED  BY <1>2, <1>3

-----------------------------------------------------------------------------
(* Set.                                                                    *)

(* new says line of s and k, and what lines says of everything else.       *)
SaysToo(new, lines, s, k, line) ==
  /\ \A other : Says(new, s, k, other) <=> other = line
  /\ \A t, m : t # s \/ m # k => \A other : Says(new, t, m, other) <=> Says(lines, t, m, other)

(* Where a line stands depends on the lines before it only.                *)
LEMMA UnderPrefix ==
  ASSUME NEW lines, NEW new, NEW i \in Nat, NEW s, \A j \in 1 .. i - 1 : new[j] = lines[j]
  PROVE  Under(new, s, i) <=> Under(lines, s, i)
BY DEF Under

(* An entry is written over the first one for its key.                     *)
LEMMA SetReplaces ==
  ASSUME NEW L, NEW lines \in Seq(L), NEW s, NEW k, NEW v, Entry(k, v) \in L,
         HasSection(lines, s), Has(lines, s, k)
  PROVE  /\ Set(lines, s, k, v) \in Seq(L)
         /\ SaysToo(Set(lines, s, k, v), lines, s, k, Entry(k, v))
         /\ k \in Settings => LinesKept(lines, Set(lines, s, k, v))
<1> DEFINE p == Min(Found(lines, s, k))
           new == [lines EXCEPT ![p] = Entry(k, v)]
<1>1. Set(lines, s, k, v) = new  BY DEF Set
<1>2. SaysAt(lines, s, k, p)  BY HasIsSays
<1> HIDE DEF p
<1>3. DOMAIN lines = 1 .. Len(lines) /\ Len(lines) \in Nat  BY LenProperties
<1>4. /\ p \in 1 .. Len(lines) /\ Under(lines, s, p) /\ IsEntry(lines[p], k)
      /\ \A j \in 1 .. p - 1 : ~ Stands(lines, s, k, j)
  BY <1>2, <1>3 DEF SaysAt, Stands
<1>5. new \in Seq(L) /\ Len(new) = Len(lines)  BY <1>4, ExceptSeq
<1>6. new[p] = Entry(k, v) /\ \A i \in 1 .. Len(lines) : i # p => new[i] = lines[i]
  BY <1>3, <1>4
<1>7. IsEntry(new[p], k) /\ \A m : m # k => ~ IsEntry(new[p], m) /\ ~ IsEntry(lines[p], m)
  BY <1>4, <1>6, Kinds DEF IsEntry
<1>8. \A i \in 1 .. Len(lines) :
        /\ new[i].kind = "section" <=> lines[i].kind = "section"
        /\ \A t : new[i] = Header(t) <=> lines[i] = Header(t)
  BY <1>4, <1>6, <1>7, Kinds DEF IsEntry
<1> HIDE DEF new
<1>9. \A t : \A i \in 1 .. Len(lines) : Under(new, t, i) <=> Under(lines, t, i)
  <2> TAKE t
  <2> TAKE i \in 1 .. Len(lines)
  <2> DEFINE H(a, h) ==
        /\ a[h] = Header(t)
        /\ \A j \in 1 .. h - 1 : a[j] # Header(t)
        /\ \A j \in h + 1 .. i - 1 : a[j].kind # "section"
  <2>1. \A h \in 1 .. i - 1 : H(new, h) <=> H(lines, h)
    <3> TAKE h \in 1 .. i - 1
    <3>1. h \in 1 .. Len(lines)  BY <1>3
    <3>2. \A j \in 1 .. h - 1 : j \in 1 .. Len(lines)  BY <1>3
    <3>3. \A j \in h + 1 .. i - 1 : j \in 1 .. Len(lines)  BY <1>3
    <3> QED  BY <3>1, <3>2, <3>3, <1>8
  <2> QED  BY <2>1 DEF Under
<1>10. SaysAt(new, s, k, p)
  <2>1. Stands(new, s, k, p)  BY <1>4, <1>7, <1>9 DEF Stands
  <2>2. \A j \in 1 .. p - 1 : ~ Stands(new, s, k, j)
    <3> TAKE j \in 1 .. p - 1
    <3>1. j \in 1 .. Len(lines) /\ j # p  BY <1>3, <1>4
    <3> QED  BY <3>1, <1>4, <1>6, <1>9 DEF Stands
  <2>3. p \in DOMAIN new  BY <1>4, <1>5, LenProperties
  <2> QED  BY <2>1, <2>2, <2>3 DEF SaysAt
<1>11. \A other : Says(new, s, k, other) <=> other = Entry(k, v)
  BY <1>5, <1>6, <1>10, SaysOnly
<1>12. ASSUME NEW t, NEW m, t # s \/ m # k
       PROVE  \A other : Says(new, t, m, other) <=> Says(lines, t, m, other)
  <2> DEFINE at == [i \in 1 .. Len(lines) |-> i]
  <2>1. at \in [1 .. Len(lines) -> 1 .. Len(new)] /\ \A i \in 1 .. Len(lines) : at[i] = i
    BY <1>5
  <2>2. ~ Stands(lines, t, m, p) /\ ~ Stands(new, t, m, p)
    <3>1. CASE m # k  BY <3>1, <1>7 DEF Stands
    <3>2. CASE t # s
      <4>1. ~ Under(lines, t, p)  BY <3>2, <1>4, <1>3, UnderOne
      <4> QED  BY <4>1, <1>9, <1>4 DEF Stands
    <3> QED  BY <3>1, <3>2, <1>12
  <2>3. \A i \in 1 .. Len(lines) :
          /\ Stands(new, t, m, i) <=> Stands(lines, t, m, i)
          /\ Stands(lines, t, m, i) => new[i] = lines[i]
    <3> TAKE i \in 1 .. Len(lines)
    <3>1. CASE i = p  BY <3>1, <2>2
    <3>2. CASE i # p  BY <3>2, <1>6, <1>9 DEF Stands
    <3> QED  BY <3>1, <3>2
  <2> HIDE DEF at
  <2>4. \A i, j \in 1 .. Len(lines) : i < j => at[i] < at[j]  BY <2>1
  <2>5. \A i \in 1 .. Len(lines) :
          /\ Stands(new, t, m, at[i]) <=> Stands(lines, t, m, i)
          /\ Stands(lines, t, m, i) => new[at[i]] = lines[i]
    BY <2>1, <2>3
  <2>6. \A n \in 1 .. Len(new) : Stands(new, t, m, n) => \E i \in 1 .. Len(lines) : n = at[i]
    BY <2>1, <1>5
  <2> QED  BY <2>1, <2>4, <2>5, <2>6, <1>5, SaysMoved
<1>13. ASSUME k \in Settings PROVE LinesKept(lines, new)
  <2> DEFINE down == [i \in DOMAIN lines |-> 0]
  <2>1. down \in [DOMAIN lines -> 0 .. Len(new) - Len(lines)]
        /\ \A i \in DOMAIN lines : down[i] = 0
    BY <1>5, <1>3
  <2>2. \A i, j \in DOMAIN lines : i < j => down[i] <= down[j]  BY <2>1
  <2> HIDE DEF down
  <2>3. \A i \in DOMAIN lines :
          \/ new[i + down[i]] = lines[i]
          \/ IsSetting(lines[i]) /\ IsEntry(new[i + down[i]], lines[i].key)
    <3> TAKE i \in DOMAIN lines
    <3>1. i + down[i] = i  BY <2>1, <1>3
    <3>2. CASE i = p
      <4>1. IsSetting(lines[i]) /\ lines[i].key = k  BY <3>2, <1>4, <1>13 DEF IsEntry, IsSetting
      <4> QED  BY <4>1, <3>1, <3>2, <1>7
    <3>3. CASE i # p  BY <3>1, <3>3, <1>6, <1>3
    <3> QED  BY <3>2, <3>3
  <2>4. DOMAIN new \ {i + down[i] : i \in DOMAIN lines} = {}
    <3>1. DOMAIN new = DOMAIN lines  BY <1>5, <1>3, LenProperties
    <3>2. \A i \in DOMAIN lines : i = i + down[i]  BY <2>1, <1>3
    <3> QED  BY <3>1, <3>2
  <2> QED  BY <2>1, <2>2, <2>3, <2>4 DEF LinesKept
<1> QED  BY <1>1, <1>5, <1>11, <1>12, <1>13 DEF SaysToo

(* The lines after one has been put in at e.                               *)
LEMMA InsertedAt ==
  ASSUME NEW L, NEW lines \in Seq(L), NEW x \in L, NEW e \in 1 .. Len(lines) + 1
  PROVE  LET new == InsertAt(lines, e, x) IN
         /\ new \in Seq(L) /\ Len(new) = Len(lines) + 1 /\ new[e] = x
         /\ \A i \in 1 .. e - 1 : new[i] = lines[i]
         /\ \A i \in e .. Len(lines) : new[i + 1] = lines[i]
<1> DEFINE front == SubSeq(lines, 1, e - 1)
           back == SubSeq(lines, e, Len(lines))
           most == front \o <<x>>
<1>1. Len(lines) \in Nat  BY LenProperties
<1>2. /\ front \in Seq(L) /\ Len(front) = e - 1
      /\ \A i \in 1 .. e - 1 : front[i] = lines[i]
  <2>1. \A i \in 1 .. e - 1 : lines[i] \in L  BY <1>1, ElementOfSeq
  <2> QED  BY <2>1, <1>1, SubSeqProperties
<1>3. /\ back \in Seq(L) /\ Len(back) = Len(lines) + 1 - e
      /\ \A i \in 1 .. Len(lines) + 1 - e : back[i] = lines[e + i - 1]
  <2>1. \A i \in e .. Len(lines) : lines[i] \in L  BY <1>1, ElementOfSeq
  <2> QED  BY <2>1, <1>1, SubSeqProperties
<1>4. <<x>> \in Seq(L) /\ Len(<<x>>) = 1 /\ <<x>>[1] = x  OBVIOUS
<1> HIDE DEF front, back
<1>5. /\ most \in Seq(L) /\ Len(most) = e /\ most[e] = x
      /\ \A i \in 1 .. e - 1 : most[i] = lines[i]
  <2>1. /\ most \in Seq(L) /\ Len(most) = Len(front) + Len(<<x>>)
        /\ \A i \in 1 .. Len(front) + Len(<<x>>) :
             most[i] = IF i <= Len(front) THEN front[i] ELSE <<x>>[i - Len(front)]
    BY <1>2, <1>4, ConcatProperties
  <2>2. Len(most) = e /\ \A i \in 1 .. e : most[i] = IF i <= e - 1 THEN front[i] ELSE <<x>>[i - (e - 1)]
    BY <2>1, <1>2, <1>4
  <2> QED  BY <2>1, <2>2, <1>2, <1>4
<1> HIDE DEF most
<1>6. InsertAt(lines, e, x) = most \o back  BY DEF InsertAt, most, front, back
<1>7. /\ most \o back \in Seq(L) /\ Len(most \o back) = Len(lines) + 1
      /\ \A i \in 1 .. Len(lines) + 1 : (most \o back)[i] = IF i <= e THEN most[i] ELSE back[i - e]
  <2>1. /\ most \o back \in Seq(L) /\ Len(most \o back) = Len(most) + Len(back)
        /\ \A i \in 1 .. Len(most) + Len(back) :
             (most \o back)[i] = IF i <= Len(most) THEN most[i] ELSE back[i - Len(most)]
    BY <1>3, <1>5, ConcatProperties
  <2> QED  BY <2>1, <1>1, <1>3, <1>5
<1>8. (most \o back)[e] = x /\ \A i \in 1 .. e - 1 : (most \o back)[i] = lines[i]
  BY <1>5, <1>7, <1>1
<1>9. \A i \in e .. Len(lines) : (most \o back)[i + 1] = lines[i]
  <2> TAKE i \in e .. Len(lines)
  <2>1. (most \o back)[i + 1] = back[i + 1 - e]  BY <1>7, <1>1
  <2>2. i + 1 - e \in 1 .. Len(lines) + 1 - e /\ e + (i + 1 - e) - 1 = i  BY <1>1
  <2> QED  BY <2>1, <2>2, <1>3
<1> QED  BY <1>6, <1>7, <1>8, <1>9

(* An entry whose key is not in the section goes to the section's end.     *)
LEMMA SetInserts ==
  ASSUME NEW L, NEW lines \in Seq(L), NEW s, NEW k, NEW v, Entry(k, v) \in L,
         HasSection(lines, s), ~ Has(lines, s, k)
  PROVE  /\ Set(lines, s, k, v) \in Seq(L)
         /\ SaysToo(Set(lines, s, k, v), lines, s, k, Entry(k, v))
         /\ k \in Settings => LinesKept(lines, Set(lines, s, k, v))
<1> DEFINE b == SectionStart(lines, s)
           e == SectionEnd(lines, s)
           new == InsertAt(lines, e, Entry(k, v))
           at == [i \in 1 .. Len(lines) |-> IF i < e THEN i ELSE i + 1]
<1>1. Set(lines, s, k, v) = new  BY DEF Set
<1>2. DOMAIN lines = 1 .. Len(lines) /\ Len(lines) \in Nat  BY LenProperties
<1>3. b \in 1 .. Len(lines) /\ lines[b] = Header(s) /\ \A j \in 1 .. b - 1 : lines[j] # Header(s)
  BY FirstHeader
<1>4. e \in b + 1 .. Len(lines) + 1 /\ \A j \in b + 1 .. e - 1 : lines[j].kind # "section"
  BY EndOfSection
<1> HIDE DEF b, e
<1>5. e \in 1 .. Len(lines) + 1  BY <1>2, <1>3, <1>4
<1>6. /\ new \in Seq(L) /\ Len(new) = Len(lines) + 1 /\ new[e] = Entry(k, v)
      /\ \A i \in 1 .. e - 1 : new[i] = lines[i]
      /\ \A i \in e .. Len(lines) : new[i + 1] = lines[i]
  BY <1>5, InsertedAt
<1> HIDE DEF new
<1>7. at \in [1 .. Len(lines) -> 1 .. Len(new)]
  BY <1>2, <1>5, <1>6
<1>8. /\ \A i \in 1 .. e - 1 : at[i] = i
      /\ \A i \in e .. Len(lines) : at[i] = i + 1
  BY <1>2, <1>5
<1>9. \A i \in 1 .. Len(lines) : i \in 1 .. e - 1 \/ i \in e .. Len(lines)
  BY <1>2, <1>5
<1> HIDE DEF at
<1>10. \A i \in 1 .. Len(lines) : new[at[i]] = lines[i]
  BY <1>6, <1>8, <1>9
<1>11. new[e].kind # "section" /\ \A t : new[e] # Header(t)
  BY <1>6, Kinds
<1>12. \A t : \A i \in 1 .. e : Under(new, t, i) <=> Under(lines, t, i)
  <2> TAKE t
  <2> TAKE i \in 1 .. e
  <2>1. \A j \in 1 .. i - 1 : new[j] = lines[j]  BY <1>5, <1>6
  <2> QED  BY <2>1, <1>5, UnderPrefix
<1>13. \A t : \A i \in e .. Len(lines) : Under(new, t, i + 1) <=> Under(lines, t, i)
  <2> TAKE t
  <2> TAKE i \in e .. Len(lines)
  <2>1. ASSUME Under(lines, t, i) PROVE Under(new, t, i + 1)
    <3>1. PICK h \in 1 .. i - 1 :
            /\ lines[h] = Header(t)
            /\ \A j \in 1 .. h - 1 : lines[j] # Header(t)
            /\ \A j \in h + 1 .. i - 1 : lines[j].kind # "section"
      BY <2>1 DEF Under
    <3>2. CASE h < e
      <4>1. new[h] = Header(t) /\ \A j \in 1 .. h - 1 : new[j] # Header(t)
        BY <3>1, <3>2, <1>2, <1>5, <1>6
      <4>2. \A j \in h + 1 .. i : new[j].kind # "section"
        <5> TAKE j \in h + 1 .. i
        <5>1. CASE j < e  BY <5>1, <3>1, <3>2, <1>2, <1>5, <1>6
        <5>2. CASE j = e  BY <5>2, <1>11
        <5>3. CASE j > e
          <6>1. j - 1 \in e .. Len(lines) /\ j - 1 \in h + 1 .. i - 1 /\ (j - 1) + 1 = j
            BY <5>3, <3>2, <1>5, <1>2
          <6> QED  BY <6>1, <1>6, <3>1
        <5> QED  BY <5>1, <5>2, <5>3, <1>5
      <4>3. h \in 1 .. (i + 1) - 1 /\ (i + 1) - 1 = i  BY <1>5
      <4> QED  BY <4>1, <4>2, <4>3 DEF Under
    <3>3. CASE h >= e
      <4>1. new[h + 1] = Header(t) /\ h + 1 \in 1 .. (i + 1) - 1
        BY <3>1, <3>3, <1>2, <1>5, <1>6
      <4>2. \A j \in 1 .. (h + 1) - 1 : new[j] # Header(t)
        <5> TAKE j \in 1 .. (h + 1) - 1
        <5>1. CASE j < e  BY <5>1, <3>1, <3>3, <1>5, <1>6
        <5>2. CASE j = e  BY <5>2, <1>11
        <5>3. CASE j > e
          <6>1. j - 1 \in e .. Len(lines) /\ j - 1 \in 1 .. h - 1 /\ (j - 1) + 1 = j
            BY <5>3, <1>5, <1>2
          <6> QED  BY <6>1, <1>6, <3>1
        <5> QED  BY <5>1, <5>2, <5>3, <1>5
      <4>3. \A j \in (h + 1) + 1 .. (i + 1) - 1 : new[j].kind # "section"
        <5> TAKE j \in (h + 1) + 1 .. (i + 1) - 1
        <5>1. j - 1 \in e .. Len(lines) /\ j - 1 \in h + 1 .. i - 1 /\ (j - 1) + 1 = j
          BY <3>3, <1>5, <1>2
        <5> QED  BY <5>1, <1>6, <3>1
      <4> QED  BY <4>1, <4>2, <4>3 DEF Under
    <3> QED  BY <3>2, <3>3, <1>5
  <2>2. ASSUME Under(new, t, i + 1) PROVE Under(lines, t, i)
    <3>1. PICK h \in 1 .. (i + 1) - 1 :
            /\ new[h] = Header(t)
            /\ \A j \in 1 .. h - 1 : new[j] # Header(t)
            /\ \A j \in h + 1 .. (i + 1) - 1 : new[j].kind # "section"
      BY <2>2 DEF Under
    <3>2. CASE h < e
      <4>1. lines[h] = Header(t) /\ \A j \in 1 .. h - 1 : lines[j] # Header(t)
        BY <3>1, <3>2, <1>5, <1>6
      <4>2. \A j \in h + 1 .. i - 1 : lines[j].kind # "section"
        <5> TAKE j \in h + 1 .. i - 1
        <5>1. CASE j < e
          <6>1. j \in 1 .. e - 1 /\ j \in h + 1 .. (i + 1) - 1  BY <5>1, <1>5
          <6> QED  BY <6>1, <3>1, <1>6
        <5>2. CASE j >= e
          <6>1. j \in e .. Len(lines) /\ j + 1 \in h + 1 .. (i + 1) - 1  BY <5>2, <1>5, <1>2
          <6> QED  BY <6>1, <3>1, <1>6
        <5> QED  BY <5>1, <5>2, <1>5
      <4>3. h \in 1 .. i - 1  BY <3>2, <1>5
      <4> QED  BY <4>1, <4>2, <4>3 DEF Under
    <3>3. CASE h = e  BY <3>1, <3>3, <1>11
    <3>4. CASE h > e
      <4>1. h - 1 \in e .. Len(lines) /\ (h - 1) + 1 = h /\ h - 1 \in 1 .. i - 1
        BY <3>4, <1>2, <1>5
      <4>2. lines[h - 1] = Header(t)  BY <4>1, <3>1, <1>6
      <4>3. \A j \in 1 .. (h - 1) - 1 : lines[j] # Header(t)
        <5> TAKE j \in 1 .. (h - 1) - 1
        <5>1. CASE j < e
          <6>1. j \in 1 .. e - 1 /\ j \in 1 .. h - 1  BY <5>1, <1>5
          <6> QED  BY <6>1, <3>1, <1>6
        <5>2. CASE j >= e
          <6>1. j \in e .. Len(lines) /\ j + 1 \in 1 .. h - 1  BY <5>2, <1>5, <1>2
          <6> QED  BY <6>1, <3>1, <1>6
        <5> QED  BY <5>1, <5>2, <1>5
      <4>4. \A j \in (h - 1) + 1 .. i - 1 : lines[j].kind # "section"
        <5> TAKE j \in (h - 1) + 1 .. i - 1
        <5>1. j \in e .. Len(lines) /\ j + 1 \in h + 1 .. (i + 1) - 1
          BY <3>4, <1>5, <1>2
        <5> QED  BY <5>1, <1>6, <3>1
      <4> QED  BY <4>1, <4>2, <4>3, <4>4 DEF Under
    <3> QED  BY <3>2, <3>3, <3>4, <1>5
  <2> QED  BY <2>1, <2>2
<1>14. Under(new, s, e)
  <2>1. Under(lines, s, e)
    <3>1. b \in 1 .. e - 1  BY <1>2, <1>3, <1>4
    <3> QED  BY <3>1, <1>3, <1>4 DEF Under
  <2> QED  BY <2>1, <1>5, <1>12
<1>15. SaysAt(new, s, k, e)
  <2>1. Stands(new, s, k, e)  BY <1>6, <1>14, Kinds DEF Stands, IsEntry
  <2>2. \A j \in 1 .. Len(lines) : ~ Stands(lines, s, k, j)
    BY FoundIsUnder DEF Has
  <2>3. \A j \in 1 .. e - 1 : ~ Stands(new, s, k, j)
    <3> TAKE j \in 1 .. e - 1
    <3>1. j \in 1 .. Len(lines) /\ j \in 1 .. e  BY <1>2, <1>5
    <3> QED  BY <3>1, <2>2, <1>6, <1>12 DEF Stands
  <2>4. e \in DOMAIN new
    <3>1. DOMAIN new = 1 .. Len(new)  BY <1>6, LenProperties
    <3> QED  BY <3>1, <1>6, <1>5
  <2> QED  BY <2>1, <2>3, <2>4 DEF SaysAt
<1>16. \A other : Says(new, s, k, other) <=> other = Entry(k, v)
  BY <1>6, <1>15, SaysOnly
<1>17. ASSUME NEW t, NEW m, t # s \/ m # k
       PROVE  \A other : Says(new, t, m, other) <=> Says(lines, t, m, other)
  <2>1. ~ Stands(new, t, m, e)
    <3>1. CASE m # k  BY <3>1, <1>6, Kinds DEF Stands, IsEntry
    <3>2. CASE t # s
      <4>1. ~ Under(new, t, e)  BY <3>2, <1>14, <1>5, UnderOne
      <4> QED  BY <4>1 DEF Stands
    <3> QED  BY <3>1, <3>2, <1>17
  <2>2. \A i, j \in 1 .. Len(lines) : i < j => at[i] < at[j]
    <3> TAKE i, j \in 1 .. Len(lines)
    <3>1. CASE i \in 1 .. e - 1 /\ j \in 1 .. e - 1  BY <3>1, <1>8
    <3>2. CASE i \in 1 .. e - 1 /\ j \in e .. Len(lines)  BY <3>2, <1>8, <1>5
    <3>3. CASE i \in e .. Len(lines) /\ j \in e .. Len(lines)  BY <3>3, <1>8, <1>5
    <3>4. CASE i \in e .. Len(lines) /\ j \in 1 .. e - 1  BY <3>4, <1>5
    <3> QED  BY <3>1, <3>2, <3>3, <3>4, <1>9
  <2>3. \A i \in 1 .. Len(lines) :
          /\ Stands(new, t, m, at[i]) <=> Stands(lines, t, m, i)
          /\ Stands(lines, t, m, i) => new[at[i]] = lines[i]
    <3> TAKE i \in 1 .. Len(lines)
    <3>1. CASE i \in 1 .. e - 1
      <4>1. at[i] = i /\ i \in 1 .. e  BY <3>1, <1>8, <1>5
      <4> QED  BY <4>1, <1>10, <1>12 DEF Stands
    <3>2. CASE i \in e .. Len(lines)
      <4>1. at[i] = i + 1  BY <3>2, <1>8
      <4> QED  BY <3>2, <4>1, <1>10, <1>13 DEF Stands
    <3> QED  BY <3>1, <3>2, <1>9
  <2>4. \A n \in 1 .. Len(new) : Stands(new, t, m, n) => \E i \in 1 .. Len(lines) : n = at[i]
    <3> TAKE n \in 1 .. Len(new)
    <3>1. CASE n < e
      <4>1. n \in 1 .. Len(lines) /\ n = at[n]  BY <3>1, <1>2, <1>5, <1>8
      <4> QED  BY <4>1
    <3>2. CASE n = e  BY <3>2, <2>1
    <3>3. CASE n > e
      <4>1. n - 1 \in e .. Len(lines) /\ (n - 1) + 1 = n  BY <3>3, <1>2, <1>5, <1>6
      <4>2. n - 1 \in 1 .. Len(lines) /\ n = at[n - 1]  BY <4>1, <1>5, <1>8
      <4> QED  BY <4>2
    <3> QED  BY <3>1, <3>2, <3>3, <1>5, <1>6
  <2> QED  BY <2>2, <2>3, <2>4, <1>6, <1>7, SaysMoved
<1>18. ASSUME k \in Settings PROVE LinesKept(lines, new)
  <2> DEFINE down == [i \in DOMAIN lines |-> IF i < e THEN 0 ELSE 1]
  <2>1. down \in [DOMAIN lines -> 0 .. Len(new) - Len(lines)]  BY <1>2, <1>6
  <2>2. \A i, j \in DOMAIN lines : i < j => down[i] <= down[j]  BY <1>2, <1>5
  <2>3. \A i \in DOMAIN lines : i + down[i] = at[i]  BY <1>2, <1>5, <1>8
  <2> HIDE DEF down
  <2>4. \A i \in DOMAIN lines : new[i + down[i]] = lines[i]  BY <2>3, <1>2, <1>10
  <2>5. \A n \in DOMAIN new \ {i + down[i] : i \in DOMAIN lines} : IsSetting(new[n])
    <3> SUFFICES ASSUME NEW n \in DOMAIN new, \A i \in DOMAIN lines : n # i + down[i]
                 PROVE  IsSetting(new[n])
      OBVIOUS
    <3>1. n \in 1 .. Len(lines) + 1
      <4>1. DOMAIN new = 1 .. Len(new)  BY <1>6, LenProperties
      <4> QED  BY <4>1, <1>6
    <3>2. ~ (n < e)
      <4> SUFFICES ASSUME n < e PROVE FALSE  OBVIOUS
      <4>1. n \in DOMAIN lines /\ n = at[n]  BY <3>1, <1>2, <1>5, <1>8
      <4> QED  BY <4>1, <2>3
    <3>3. ~ (n > e)
      <4> SUFFICES ASSUME n > e PROVE FALSE  OBVIOUS
      <4>1. n - 1 \in e .. Len(lines) /\ (n - 1) + 1 = n  BY <3>1, <1>2, <1>5
      <4>2. n - 1 \in DOMAIN lines /\ n = at[n - 1]  BY <4>1, <1>2, <1>5, <1>8
      <4> QED  BY <4>2, <2>3
    <3>4. n = e  BY <3>1, <3>2, <3>3, <1>5
    <3> QED  BY <3>4, <1>6, <1>18, Kinds DEF IsSetting
  <2> QED  BY <2>1, <2>2, <2>4, <2>5 DEF LinesKept
<1> QED  BY <1>1, <1>6, <1>16, <1>17, <1>18 DEF SaysToo

(* The lines with the section added behind them.                           *)
LEMMA NewSectionAt ==
  ASSUME NEW L, NEW lines \in Seq(L), NEW s, NEW x \in L, Header(s) \in L, Blank \in L
  PROVE  LET new == NewSection(lines, s, x) IN
         \E h \in Len(lines) + 1 .. Len(lines) + 2 :
           /\ new \in Seq(L) /\ Len(new) = h + 1
           /\ new[h] = Header(s) /\ new[h + 1] = x
           /\ \A i \in 1 .. Len(lines) : new[i] = lines[i]
           /\ \A i \in Len(lines) + 1 .. h - 1 : new[i] = Blank
<1> DEFINE front == IF lines # <<>> /\ Last(lines).kind # "blank" THEN Append(lines, Blank) ELSE lines
           tail == <<Header(s), x>>
<1>1. Len(lines) \in Nat  BY LenProperties
<1>2. /\ front \in Seq(L) /\ Len(front) \in Len(lines) .. Len(lines) + 1
      /\ \A i \in 1 .. Len(lines) : front[i] = lines[i]
      /\ \A i \in Len(lines) + 1 .. Len(front) : front[i] = Blank
  <2>1. CASE front = lines  BY <2>1, <1>1
  <2>2. CASE front = Append(lines, Blank)
    <3> HIDE DEF front
    <3>1. /\ Append(lines, Blank) \in Seq(L) /\ Len(Append(lines, Blank)) = Len(lines) + 1
          /\ \A i \in 1 .. Len(lines) : Append(lines, Blank)[i] = lines[i]
          /\ Append(lines, Blank)[Len(lines) + 1] = Blank
      BY AppendProperties
    <3> QED  BY <3>1, <2>2, <1>1
  <2> QED  BY <2>1, <2>2
<1> HIDE DEF front
<1>3. tail \in Seq(L) /\ Len(tail) = 2 /\ tail[1] = Header(s) /\ tail[2] = x
  OBVIOUS
<1> HIDE DEF tail
<1>4. /\ front \o tail \in Seq(L) /\ Len(front \o tail) = Len(front) + Len(tail)
      /\ \A i \in 1 .. Len(front) + Len(tail) :
           (front \o tail)[i] = IF i <= Len(front) THEN front[i] ELSE tail[i - Len(front)]
  BY <1>2, <1>3, ConcatProperties
<1>5. NewSection(lines, s, x) = front \o tail  BY DEF NewSection, front, tail
<1> DEFINE new == front \o tail
           h == Len(front) + 1
<1> HIDE DEF new
<1>6. Len(new) = h + 1 /\ h \in Len(lines) + 1 .. Len(lines) + 2
  BY <1>1, <1>2, <1>3, <1>4 DEF new
<1>7. new[h] = Header(s)
  <2>1. new[h] = tail[h - Len(front)]  BY <1>1, <1>2, <1>3, <1>4, <1>6 DEF new
  <2>2. h - Len(front) = 1  BY <1>1, <1>2, <1>6
  <2> QED  BY <2>1, <2>2, <1>3
<1>8. new[h + 1] = x
  <2>1. new[h + 1] = tail[h + 1 - Len(front)]  BY <1>1, <1>2, <1>3, <1>4, <1>6 DEF new
  <2>2. h + 1 - Len(front) = 2  BY <1>1, <1>2, <1>6
  <2> QED  BY <2>1, <2>2, <1>3
<1>9. \A i \in 1 .. Len(lines) : new[i] = lines[i]
  BY <1>1, <1>2, <1>3, <1>4 DEF new
<1>10. \A i \in Len(lines) + 1 .. h - 1 : new[i] = Blank
  BY <1>1, <1>2, <1>3, <1>4, <1>6 DEF new
<1>11. new \in Seq(L)  BY <1>4 DEF new
<1>12. NewSection(lines, s, x) = new  BY <1>5 DEF new
<1> QED  BY <1>6, <1>7, <1>8, <1>9, <1>10, <1>11, <1>12

(* A section that is not there goes behind all lines.                      *)
LEMMA SetAppends ==
  ASSUME NEW L, NEW lines \in Seq(L), NEW s, NEW k, NEW v,
         Entry(k, v) \in L, Header(s) \in L, Blank \in L, ~ HasSection(lines, s)
  PROVE  /\ Set(lines, s, k, v) \in Seq(L)
         /\ SaysToo(Set(lines, s, k, v), lines, s, k, Entry(k, v))
         /\ s = "Preferences" /\ k \in Settings => LinesKept(lines, Set(lines, s, k, v))
<1> DEFINE new == NewSection(lines, s, Entry(k, v))
           h == Len(new) - 1
<1>1. Set(lines, s, k, v) = new  BY DEF Set
<1>2. DOMAIN lines = 1 .. Len(lines) /\ Len(lines) \in Nat  BY LenProperties
<1>3. /\ new \in Seq(L) /\ h \in Len(lines) + 1 .. Len(lines) + 2
      /\ new[h] = Header(s) /\ new[h + 1] = Entry(k, v)
      /\ \A i \in 1 .. Len(lines) : new[i] = lines[i]
      /\ \A i \in Len(lines) + 1 .. h - 1 : new[i] = Blank
  <2>1. \E g \in Len(lines) + 1 .. Len(lines) + 2 :
          /\ new \in Seq(L) /\ Len(new) = g + 1
          /\ new[g] = Header(s) /\ new[g + 1] = Entry(k, v)
          /\ \A i \in 1 .. Len(lines) : new[i] = lines[i]
          /\ \A i \in Len(lines) + 1 .. g - 1 : new[i] = Blank
    BY NewSectionAt
  <2> HIDE DEF new
  <2> QED  BY <2>1, <1>2
<1> HIDE DEF new
<1>4. DOMAIN new = 1 .. h + 1 /\ Len(new) = h + 1
  <2>1. DOMAIN new = 1 .. Len(new) /\ Len(new) \in Nat  BY <1>3, LenProperties
  <2> QED  BY <2>1
<1> HIDE DEF h
<1>5. \A j \in 1 .. Len(lines) : lines[j] # Header(s)
  BY <1>2 DEF HasSection, Contains
<1>6. \A t : \A i \in 1 .. Len(lines) : Under(new, t, i) <=> Under(lines, t, i)
  <2> TAKE t
  <2> TAKE i \in 1 .. Len(lines)
  <2>1. \A j \in 1 .. i - 1 : new[j] = lines[j]  BY <1>2, <1>3
  <2> QED  BY <2>1, <1>2, UnderPrefix
<1>7. \A i \in 1 .. Len(lines) : ~ Under(new, s, i)
  <2>1. \A i \in 1 .. Len(lines) : ~ Under(lines, s, i)  BY <1>5, <1>2 DEF Under
  <2> QED  BY <2>1, <1>6
<1>8. \A n \in Len(lines) + 1 .. h : \A m : ~ IsEntry(new[n], m)
  <2> TAKE n \in Len(lines) + 1 .. h
  <2>1. CASE n = h  BY <2>1, <1>3, Kinds DEF IsEntry
  <2>2. CASE n \in Len(lines) + 1 .. h - 1  BY <2>2, <1>3, Kinds DEF IsEntry
  <2> QED  BY <2>1, <2>2, <1>2, <1>3
<1>9. Under(new, s, h + 1)
  <2>1. h \in 1 .. (h + 1) - 1 /\ \A j \in h + 1 .. (h + 1) - 1 : FALSE  BY <1>2, <1>3
  <2>2. \A j \in 1 .. h - 1 : new[j] # Header(s)
    <3> TAKE j \in 1 .. h - 1
    <3>1. CASE j \in 1 .. Len(lines)  BY <3>1, <1>3, <1>5
    <3>2. CASE j \in Len(lines) + 1 .. h - 1
      <4>1. new[j].kind = "blank"  BY <3>2, <1>3, Kinds
      <4> QED  BY <4>1, Kinds
    <3> QED  BY <3>1, <3>2, <1>2, <1>3
  <2> QED  BY <2>1, <2>2, <1>3 DEF Under
<1>10. \A n \in 1 .. h + 1 : n \in 1 .. Len(lines) \/ n \in Len(lines) + 1 .. h \/ n = h + 1
  BY <1>2, <1>3
<1>11. SaysAt(new, s, k, h + 1)
  <2>1. Stands(new, s, k, h + 1)  BY <1>3, <1>9, Kinds DEF Stands, IsEntry
  <2>2. \A j \in 1 .. (h + 1) - 1 : ~ Stands(new, s, k, j)
    <3> TAKE j \in 1 .. (h + 1) - 1
    <3>1. j \in 1 .. h + 1 /\ j # h + 1  BY <1>2, <1>3
    <3>2. CASE j \in 1 .. Len(lines)  BY <3>2, <1>7 DEF Stands
    <3>3. CASE j \in Len(lines) + 1 .. h  BY <3>3, <1>8 DEF Stands
    <3> QED  BY <3>1, <3>2, <3>3, <1>10
  <2>3. h + 1 \in DOMAIN new  BY <1>2, <1>3, <1>4
  <2> QED  BY <2>1, <2>2, <2>3 DEF SaysAt
<1>12. \A other : Says(new, s, k, other) <=> other = Entry(k, v)
  BY <1>3, <1>11, SaysOnly
<1>13. ASSUME NEW t, NEW m, t # s \/ m # k
       PROVE  \A other : Says(new, t, m, other) <=> Says(lines, t, m, other)
  <2> DEFINE at == [i \in 1 .. Len(lines) |-> i]
  <2>1. at \in [1 .. Len(lines) -> 1 .. Len(new)] /\ \A i \in 1 .. Len(lines) : at[i] = i
    BY <1>2, <1>3, <1>4
  <2> HIDE DEF at
  <2>2. \A i, j \in 1 .. Len(lines) : i < j => at[i] < at[j]  BY <2>1
  <2>3. \A i \in 1 .. Len(lines) :
          /\ Stands(new, t, m, at[i]) <=> Stands(lines, t, m, i)
          /\ Stands(lines, t, m, i) => new[at[i]] = lines[i]
    BY <2>1, <1>3, <1>6 DEF Stands
  <2>4. ~ Stands(new, t, m, h + 1)
    <3>1. CASE m # k  BY <3>1, <1>3, Kinds DEF Stands, IsEntry
    <3>2. CASE t # s
      <4>1. h + 1 \in Nat  BY <1>2, <1>3
      <4>2. ~ Under(new, t, h + 1)  BY <3>2, <4>1, <1>9, UnderOne
      <4> QED  BY <4>2 DEF Stands
    <3> QED  BY <3>1, <3>2, <1>13
  <2>5. \A n \in 1 .. Len(new) : Stands(new, t, m, n) => \E i \in 1 .. Len(lines) : n = at[i]
    <3> SUFFICES ASSUME NEW n \in 1 .. h + 1, Stands(new, t, m, n)
                 PROVE  \E i \in 1 .. Len(lines) : n = at[i]
      BY <1>4
    <3>1. n \notin Len(lines) + 1 .. h  BY <1>8 DEF Stands
    <3>2. n \in 1 .. Len(lines)  BY <3>1, <2>4, <1>10
    <3> QED  BY <3>2, <2>1
  <2> QED  BY <2>1, <2>2, <2>3, <2>5, <1>3, SaysMoved
<1>14. ASSUME s = "Preferences", k \in Settings PROVE LinesKept(lines, new)
  <2> DEFINE down == [i \in DOMAIN lines |-> 0]
  <2>1. down \in [DOMAIN lines -> 0 .. Len(new) - Len(lines)]
        /\ \A i \in DOMAIN lines : down[i] = 0
    BY <1>2, <1>3, <1>4
  <2> HIDE DEF down
  <2>2. \A i, j \in DOMAIN lines : i < j => down[i] <= down[j]  BY <2>1
  <2>3. \A i \in DOMAIN lines : i + down[i] = i  BY <2>1, <1>2
  <2>4. \A i \in DOMAIN lines : new[i + down[i]] = lines[i]  BY <2>3, <1>2, <1>3
  <2>5. \A n \in DOMAIN new \ {i + down[i] : i \in DOMAIN lines} :
          \/ IsSetting(new[n])
          \/ /\ new[n] \in {Blank, Header("Preferences")}
             /\ \A i \in DOMAIN lines : i + down[i] < n
    <3> SUFFICES ASSUME NEW n \in 1 .. h + 1, \A i \in DOMAIN lines : n # i + down[i]
                 PROVE  \/ IsSetting(new[n])
                        \/ /\ new[n] \in {Blank, Header("Preferences")}
                           /\ \A i \in DOMAIN lines : i + down[i] < n
      BY <1>4
    <3>1. n \notin 1 .. Len(lines)  BY <2>3, <1>2
    <3>2. \A i \in DOMAIN lines : i + down[i] < n  BY <3>1, <2>3, <1>2, <1>3
    <3>3. CASE n = h + 1  BY <3>3, <1>3, <1>14, Kinds DEF IsSetting
    <3>4. CASE n = h  BY <3>4, <3>2, <1>3, <1>14
    <3>5. CASE n \in Len(lines) + 1 .. h - 1  BY <3>5, <3>2, <1>3
    <3> QED  BY <3>1, <3>3, <3>4, <3>5, <1>2, <1>3
  <2> QED  BY <2>1, <2>2, <2>4, <2>5 DEF LinesKept
<1> QED  BY <1>1, <1>3, <1>12, <1>13, <1>14 DEF SaysToo

(* Set in a sentence: the lines say what it is told and otherwise what     *)
(* they said.                                                              *)
LEMMA SetSays ==
  ASSUME NEW L, NEW lines \in Seq(L), NEW s, NEW k, NEW v,
         Entry(k, v) \in L, Header(s) \in L, Blank \in L
  PROVE  /\ Set(lines, s, k, v) \in Seq(L)
         /\ SaysToo(Set(lines, s, k, v), lines, s, k, Entry(k, v))
         /\ s = "Preferences" /\ k \in Settings => LinesKept(lines, Set(lines, s, k, v))
BY SetReplaces, SetInserts, SetAppends

(* Set returns false when the lines say so already, and leaves them alone. *)
LEMMA SetNoChange ==
  ASSUME NEW L, NEW lines \in Seq(L), NEW s, NEW k, NEW v
  PROVE  /\ SetChanges(lines, s, k, v) \in BOOLEAN
         /\ ~ SetChanges(lines, s, k, v) <=> Says(lines, s, k, Entry(k, v))
         /\ ~ SetChanges(lines, s, k, v) => Set(lines, s, k, v) = lines
<1> DEFINE p == Min(Found(lines, s, k))
<1>1. DOMAIN lines = 1 .. Len(lines) /\ Len(lines) \in Nat  BY LenProperties
<1>2. SetChanges(lines, s, k, v) \in BOOLEAN  BY DEF SetChanges
<1>3. ~ SetChanges(lines, s, k, v) <=> Has(lines, s, k) /\ lines[p] = Entry(k, v)
  BY DEF SetChanges
<1>4. Has(lines, s, k) => SaysAt(lines, s, k, p)  BY HasIsSays
<1>5. Says(lines, s, k, Entry(k, v)) => Has(lines, s, k) /\ lines[p] = Entry(k, v)
  BY HasIsSays
<1>6. Has(lines, s, k) /\ lines[p] = Entry(k, v) => Says(lines, s, k, Entry(k, v))
  BY <1>4 DEF Says, SaysAt
<1>7. ASSUME Has(lines, s, k), lines[p] = Entry(k, v) PROVE Set(lines, s, k, v) = lines
  <2>1. HasSection(lines, s)  BY <1>7 DEF Has, Found
  <2>2. Set(lines, s, k, v) = [lines EXCEPT ![p] = Entry(k, v)]  BY <1>7, <2>1 DEF Set
  <2> HIDE DEF p
  <2>3. lines = [i \in DOMAIN lines |-> lines[i]]
    <3>1. lines \in [1 .. Len(lines) -> L]  BY LenProperties
    <3> QED  BY <3>1
  <2>4. [lines EXCEPT ![p] = lines[p]] = lines  BY <2>3
  <2> QED  BY <2>2, <2>4, <1>7
<1> QED  BY <1>2, <1>3, <1>5, <1>6, <1>7

-----------------------------------------------------------------------------
(* EnableWebUI.                                                            *)

(* The lines have the four settings for this port, each as Set writes it.  *)
Settled(lines, p) ==
  \A key \in Settings : Says(lines, "Preferences", key, Entry(key, Wanted(p)[key]))

(* Edits that keep the lines can follow one another.                       *)
LEMMA LinesKeptTwice ==
  ASSUME NEW L, NEW a \in Seq(L), NEW b \in Seq(L), NEW c \in Seq(L),
         LinesKept(a, b), LinesKept(b, c)
  PROVE  LinesKept(a, c)
<1>1. /\ DOMAIN a = 1 .. Len(a) /\ Len(a) \in Nat
      /\ DOMAIN b = 1 .. Len(b) /\ Len(b) \in Nat
      /\ DOMAIN c = 1 .. Len(c) /\ Len(c) \in Nat
  BY LenProperties
<1>2. PICK d \in [DOMAIN a -> 0 .. Len(b) - Len(a)] :
        /\ \A i, j \in DOMAIN a : i < j => d[i] <= d[j]
        /\ \A i \in DOMAIN a :
             \/ b[i + d[i]] = a[i]
             \/ IsSetting(a[i]) /\ IsEntry(b[i + d[i]], a[i].key)
        /\ \A n \in DOMAIN b \ {i + d[i] : i \in DOMAIN a} :
             \/ IsSetting(b[n])
             \/ /\ b[n] \in {Blank, Header("Preferences")}
                /\ \A i \in DOMAIN a : i + d[i] < n
  BY DEF LinesKept
<1>3. PICK e \in [DOMAIN b -> 0 .. Len(c) - Len(b)] :
        /\ \A i, j \in DOMAIN b : i < j => e[i] <= e[j]
        /\ \A i \in DOMAIN b :
             \/ c[i + e[i]] = b[i]
             \/ IsSetting(b[i]) /\ IsEntry(c[i + e[i]], b[i].key)
        /\ \A n \in DOMAIN c \ {i + e[i] : i \in DOMAIN b} :
             \/ IsSetting(c[n])
             \/ /\ c[n] \in {Blank, Header("Preferences")}
                /\ \A i \in DOMAIN b : i + e[i] < n
  BY DEF LinesKept
<1> DEFINE down == [i \in DOMAIN a |-> d[i] + e[i + d[i]]]
<1>4. \A i \in DOMAIN a : /\ d[i] \in 0 .. Len(b) - Len(a) /\ i + d[i] \in DOMAIN b
                          /\ e[i + d[i]] \in 0 .. Len(c) - Len(b)
  <2> TAKE i \in DOMAIN a
  <2>1. d[i] \in 0 .. Len(b) - Len(a)  BY <1>2
  <2>2. i + d[i] \in DOMAIN b  BY <2>1, <1>1
  <2> QED  BY <2>1, <2>2, <1>3
<1>5. down \in [DOMAIN a -> 0 .. Len(c) - Len(a)]
  <2>1. \A i \in DOMAIN a : d[i] + e[i + d[i]] \in 0 .. Len(c) - Len(a)  BY <1>4, <1>1
  <2> QED  BY <2>1
<1>6. \A i \in DOMAIN a : down[i] = d[i] + e[i + d[i]] /\ i + down[i] = (i + d[i]) + e[i + d[i]]
  BY <1>4, <1>1
<1> HIDE DEF down
<1>7. \A i, j \in DOMAIN a : i < j => down[i] <= down[j]
  <2> SUFFICES ASSUME NEW i \in DOMAIN a, NEW j \in DOMAIN a, i < j PROVE down[i] <= down[j]
    OBVIOUS
  <2>1. d[i] <= d[j]  BY <1>2
  <2>2. d[i] \in Int /\ e[i + d[i]] \in Int /\ d[j] \in Int /\ e[j + d[j]] \in Int
    BY <1>4
  <2>3. i \in Int /\ j \in Int  BY <1>1
  <2>4. i + d[i] < j + d[j]  BY <2>1, <2>2, <2>3
  <2>5. e[i + d[i]] <= e[j + d[j]]  BY <2>4, <1>3, <1>4
  <2>6. \A p, q, r, s \in Int : p <= q /\ r <= s => p + r <= q + s  OBVIOUS
  <2>7. d[i] + e[i + d[i]] <= d[j] + e[j + d[j]]  BY ONLY <2>1, <2>2, <2>5, <2>6
  <2> QED  BY <2>7, <1>6
<1>8. ASSUME NEW i \in DOMAIN a
      PROVE  \/ c[i + down[i]] = a[i]
             \/ IsSetting(a[i]) /\ IsEntry(c[i + down[i]], a[i].key)
  <2> DEFINE m == i + d[i]
  <2>1. m \in DOMAIN b /\ i + down[i] = m + e[m]  BY <1>4, <1>6
  <2>2. b[m] = a[i] \/ (IsSetting(a[i]) /\ IsEntry(b[m], a[i].key))  BY <1>2
  <2> HIDE DEF m
  <2>3. c[m + e[m]] = b[m] \/ (IsSetting(b[m]) /\ IsEntry(c[m + e[m]], b[m].key))
    BY <1>3, <2>1
  <2>4. CASE b[m] = a[i]  BY <2>1, <2>3, <2>4
  <2>5. CASE IsSetting(a[i]) /\ IsEntry(b[m], a[i].key)
    BY <2>1, <2>3, <2>5 DEF IsEntry
  <2> QED  BY <2>2, <2>4, <2>5
<1>9. ASSUME NEW n \in DOMAIN c \ {i + down[i] : i \in DOMAIN a}
      PROVE  \/ IsSetting(c[n])
             \/ /\ c[n] \in {Blank, Header("Preferences")}
                /\ \A i \in DOMAIN a : i + down[i] < n
  <2>1. \A i \in DOMAIN a : i + d[i] \in DOMAIN b /\ i + down[i] = (i + d[i]) + e[i + d[i]]
    BY <1>4, <1>6
  <2>2. CASE \E m \in DOMAIN b : n = m + e[m]
    <3>1. PICK m \in DOMAIN b : n = m + e[m]  BY <2>2
    <3>2. m \notin {i + d[i] : i \in DOMAIN a}  BY <2>1, <3>1
    <3>3. \/ IsSetting(b[m])
          \/ /\ b[m] \in {Blank, Header("Preferences")}
             /\ \A i \in DOMAIN a : i + d[i] < m
      BY <3>2, <1>2
    <3>4. c[n] = b[m] \/ (IsSetting(b[m]) /\ IsEntry(c[n], b[m].key))  BY <3>1, <1>3
    <3>5. CASE IsSetting(b[m])  BY <3>4, <3>5 DEF IsSetting, IsEntry
    <3>6. CASE b[m] \in {Blank, Header("Preferences")} /\ \A i \in DOMAIN a : i + d[i] < m
      <4>1. ~ IsSetting(b[m])  BY <3>6, Kinds DEF IsSetting
      <4>2. c[n] = b[m]  BY <4>1, <3>4
      <4>3. \A i \in DOMAIN a : i + down[i] < n
        <5> TAKE i \in DOMAIN a
        <5>1. i + d[i] < m /\ i + d[i] \in DOMAIN b  BY <3>6, <2>1
        <5>2. e[i + d[i]] <= e[m]  BY <5>1, <1>3
        <5>3. e[m] \in Nat /\ e[i + d[i]] \in Nat  BY <5>1, <1>3, <1>1
        <5> QED  BY <5>1, <5>2, <5>3, <2>1, <3>1, <1>1
      <4> QED  BY <3>6, <4>2, <4>3
    <3> QED  BY <3>3, <3>5, <3>6
  <2>3. CASE ~ \E m \in DOMAIN b : n = m + e[m]
    <3>1. \/ IsSetting(c[n])
          \/ /\ c[n] \in {Blank, Header("Preferences")}
             /\ \A i \in DOMAIN b : i + e[i] < n
      BY <2>3, <1>3
    <3> QED  BY <3>1, <2>1
  <2> QED  BY <2>2, <2>3
<1> QED  BY <1>5, <1>7, <1>8, <1>9 DEF LinesKept

(* One setting of the four.                                                *)
LEMMA SetNextSays ==
  ASSUME NEW L, NEW edit, edit.lines \in Seq(L), edit.changed \in BOOLEAN, NEW p,
         NEW key \in Settings, Entry(key, Wanted(p)[key]) \in L,
         Header("Preferences") \in L, Blank \in L
  PROVE  LET next == SetNext(edit, key, p)
             line == Entry(key, Wanted(p)[key]) IN
         /\ next.lines \in Seq(L) /\ next.changed \in BOOLEAN
         /\ SaysToo(next.lines, edit.lines, "Preferences", key, line)
         /\ LinesKept(edit.lines, next.lines)
         /\ next.changed <=> (edit.changed \/ ~ Says(edit.lines, "Preferences", key, line))
         /\ Says(edit.lines, "Preferences", key, line) => next.lines = edit.lines
<1> DEFINE v == Wanted(p)[key]
           next == SetNext(edit, key, p)
<1> HIDE DEF v
<1>1. /\ next.lines = Set(edit.lines, "Preferences", key, v)
      /\ next.changed = (edit.changed \/ SetChanges(edit.lines, "Preferences", key, v))
  BY DEF SetNext, v
<1> HIDE DEF next
<1>2. Entry(key, v) \in L  BY DEF v
<1>3. /\ Set(edit.lines, "Preferences", key, v) \in Seq(L)
      /\ SaysToo(Set(edit.lines, "Preferences", key, v), edit.lines, "Preferences", key, Entry(key, v))
      /\ LinesKept(edit.lines, Set(edit.lines, "Preferences", key, v))
  BY <1>2, SetSays
<1>4. /\ SetChanges(edit.lines, "Preferences", key, v) \in BOOLEAN
      /\ ~ SetChanges(edit.lines, "Preferences", key, v)
           <=> Says(edit.lines, "Preferences", key, Entry(key, v))
      /\ ~ SetChanges(edit.lines, "Preferences", key, v)
           => Set(edit.lines, "Preferences", key, v) = edit.lines
  BY SetNoChange
<1> QED  BY <1>1, <1>3, <1>4 DEF next, v

(* All four.                                                               *)
LEMMA EnableWebUISays ==
  ASSUME NEW L, NEW lines \in Seq(L), NEW p,
         \A key \in Settings : Entry(key, Wanted(p)[key]) \in L,
         Header("Preferences") \in L, Blank \in L
  PROVE  LET edit == EnableWebUI(lines, p) IN
         /\ edit.lines \in Seq(L) /\ edit.changed \in BOOLEAN
         /\ Settled(edit.lines, p)
         /\ \A t, m : t # "Preferences" \/ m \notin Settings =>
              \A line : Says(edit.lines, t, m, line) <=> Says(lines, t, m, line)
         /\ LinesKept(lines, edit.lines)
         /\ ~ edit.changed <=> Settled(lines, p)
         /\ Settled(lines, p) => edit.lines = lines
<1> DEFINE line(key) == Entry(key, Wanted(p)[key])
           e0 == [lines |-> lines, changed |-> FALSE]
           e1 == SetNext(e0, "Enabled", p)
           e2 == SetNext(e1, "Address", p)
           e3 == SetNext(e2, "Port", p)
           e4 == SetNext(e3, "LocalHostAuth", p)
           old(key, said) == Says(said, "Preferences", key, line(key))
<1>1. EnableWebUI(lines, p) = e4  BY DEF EnableWebUI
<1>2. /\ "Enabled" \in Settings /\ "Address" \in Settings
      /\ "Port" \in Settings /\ "LocalHostAuth" \in Settings
      /\ \A key \in Settings : key \in {"Enabled", "Address", "Port", "LocalHostAuth"}
  BY DEF Settings
<1>3. \A key \in Settings : line(key) \in L  OBVIOUS
<1> HIDE DEF line
<1>4. e0.lines \in Seq(L) /\ e0.changed \in BOOLEAN /\ e0.lines = lines /\ ~ e0.changed  OBVIOUS
<1> HIDE DEF e0
<1>5. ASSUME NEW edit, edit.lines \in Seq(L), edit.changed \in BOOLEAN, NEW key \in Settings
      PROVE  LET next == SetNext(edit, key, p) IN
             /\ next.lines \in Seq(L) /\ next.changed \in BOOLEAN
             /\ SaysToo(next.lines, edit.lines, "Preferences", key, line(key))
             /\ LinesKept(edit.lines, next.lines)
             /\ next.changed <=> (edit.changed \/ ~ old(key, edit.lines))
             /\ old(key, edit.lines) => next.lines = edit.lines
  BY <1>3, <1>5, SetNextSays DEF line
<1>6. /\ e1.lines \in Seq(L) /\ e1.changed \in BOOLEAN
      /\ SaysToo(e1.lines, lines, "Preferences", "Enabled", line("Enabled"))
      /\ LinesKept(lines, e1.lines)
      /\ e1.changed <=> ~ old("Enabled", lines)
      /\ old("Enabled", lines) => e1.lines = lines
  BY <1>2, <1>4, <1>5
<1> HIDE DEF e1
<1>7. /\ e2.lines \in Seq(L) /\ e2.changed \in BOOLEAN
      /\ SaysToo(e2.lines, e1.lines, "Preferences", "Address", line("Address"))
      /\ LinesKept(e1.lines, e2.lines)
      /\ e2.changed <=> (e1.changed \/ ~ old("Address", e1.lines))
      /\ old("Address", e1.lines) => e2.lines = e1.lines
  BY <1>2, <1>5, <1>6
<1> HIDE DEF e2
<1>8. /\ e3.lines \in Seq(L) /\ e3.changed \in BOOLEAN
      /\ SaysToo(e3.lines, e2.lines, "Preferences", "Port", line("Port"))
      /\ LinesKept(e2.lines, e3.lines)
      /\ e3.changed <=> (e2.changed \/ ~ old("Port", e2.lines))
      /\ old("Port", e2.lines) => e3.lines = e2.lines
  BY <1>2, <1>5, <1>7
<1> HIDE DEF e3
<1>9. /\ e4.lines \in Seq(L) /\ e4.changed \in BOOLEAN
      /\ SaysToo(e4.lines, e3.lines, "Preferences", "LocalHostAuth", line("LocalHostAuth"))
      /\ LinesKept(e3.lines, e4.lines)
      /\ e4.changed <=> (e3.changed \/ ~ old("LocalHostAuth", e3.lines))
      /\ old("LocalHostAuth", e3.lines) => e4.lines = e3.lines
  BY <1>2, <1>5, <1>8
<1> HIDE DEF e4
<1>10. \A key \in Settings : old(key, e4.lines)
  <2>1. old("Enabled", e1.lines)  BY <1>6 DEF SaysToo
  <2>2. old("Enabled", e2.lines) /\ old("Address", e2.lines)  BY <2>1, <1>7 DEF SaysToo
  <2>3. old("Enabled", e3.lines) /\ old("Address", e3.lines) /\ old("Port", e3.lines)
    BY <2>2, <1>8 DEF SaysToo
  <2>4. /\ old("Enabled", e4.lines) /\ old("Address", e4.lines)
        /\ old("Port", e4.lines) /\ old("LocalHostAuth", e4.lines)
    BY <2>3, <1>9 DEF SaysToo
  <2> QED  BY <2>4, <1>2
<1>11. ASSUME NEW t, NEW m, t # "Preferences" \/ m \notin Settings
       PROVE  \A other : Says(e4.lines, t, m, other) <=> Says(lines, t, m, other)
  <2>1. \A key \in Settings : t # "Preferences" \/ m # key  BY <1>11
  <2>2. \A other : Says(e1.lines, t, m, other) <=> Says(lines, t, m, other)
    BY <2>1, <1>2, <1>6 DEF SaysToo
  <2>3. \A other : Says(e2.lines, t, m, other) <=> Says(e1.lines, t, m, other)
    BY <2>1, <1>2, <1>7 DEF SaysToo
  <2>4. \A other : Says(e3.lines, t, m, other) <=> Says(e2.lines, t, m, other)
    BY <2>1, <1>2, <1>8 DEF SaysToo
  <2>5. \A other : Says(e4.lines, t, m, other) <=> Says(e3.lines, t, m, other)
    BY <2>1, <1>2, <1>9 DEF SaysToo
  <2> QED  BY <2>2, <2>3, <2>4, <2>5
<1>12. LinesKept(lines, e4.lines)
  <2>1. LinesKept(lines, e2.lines)  BY <1>6, <1>7, LinesKeptTwice
  <2>2. LinesKept(lines, e3.lines)  BY <2>1, <1>7, <1>8, LinesKeptTwice
  <2> QED  BY <2>2, <1>8, <1>9, LinesKeptTwice
<1>13. ASSUME \A key \in Settings : old(key, lines)
       PROVE  ~ e4.changed /\ e4.lines = lines
  <2>1. ~ e1.changed /\ e1.lines = lines  BY <1>2, <1>6, <1>13
  <2>2. ~ e2.changed /\ e2.lines = lines  BY <2>1, <1>2, <1>7, <1>13
  <2>3. ~ e3.changed /\ e3.lines = lines  BY <2>2, <1>2, <1>8, <1>13
  <2> QED  BY <2>3, <1>2, <1>9, <1>13
<1>14. ASSUME ~ e4.changed PROVE \A key \in Settings : old(key, lines)
  <2>1. ~ e3.changed /\ e4.lines = e3.lines  BY <1>9, <1>14
  <2>2. ~ e2.changed /\ e3.lines = e2.lines  BY <2>1, <1>8
  <2>3. ~ e1.changed /\ e2.lines = e1.lines  BY <2>2, <1>7
  <2>4. e1.lines = lines  BY <2>3, <1>6
  <2> QED  BY <2>1, <2>2, <2>3, <2>4, <1>10
<1>15. \A said : Settled(said, p) <=> \A key \in Settings : old(key, said)
  BY DEF Settled, line
<1> HIDE DEF old
<1> QED  BY <1>1, <1>9, <1>10, <1>11, <1>12, <1>13, <1>14, <1>15

-----------------------------------------------------------------------------
(* The lines as a map (ValuesOf).                                          *)

(* ValuesOf has the names that are there, with what Get returns for them.  *)
LEMMA ValuesOfIs ==
  ASSUME NEW L, NEW lines \in Seq(L)
  PROVE  /\ ValuesOf(lines) = [n \in DOMAIN ValuesOf(lines) |-> Get(lines, n[1], n[2])]
         /\ \A n \in DOMAIN ValuesOf(lines) : n = <<n[1], n[2]>> /\ Has(lines, n[1], n[2])
         /\ \A t, m : Has(lines, t, m) => <<t, m>> \in DOMAIN ValuesOf(lines)
<1> DEFINE T == {line.name : line \in {l \in Range(lines) : l.kind = "section"}}
           M == {line.key : line \in {l \in Range(lines) : l.kind = "entry"}}
           D == {n \in T \X M : Has(lines, n[1], n[2])}
<1>1. DOMAIN lines = 1 .. Len(lines) /\ Len(lines) \in Nat  BY LenProperties
<1>2. ValuesOf(lines) = [n \in D |-> Get(lines, n[1], n[2])]  BY DEF ValuesOf
<1>3. ASSUME NEW t, NEW m, Has(lines, t, m) PROVE t \in T /\ m \in M
  <2>1. PICK i \in 1 .. Len(lines) : Stands(lines, t, m, i)
    BY <1>1, <1>3, HasIsSays DEF SaysAt
  <2>2. PICK h \in 1 .. i - 1 : lines[h] = Header(t)  BY <2>1 DEF Stands, Under
  <2>3. lines[h] \in Range(lines) /\ lines[i] \in Range(lines)
    <3>1. h \in DOMAIN lines /\ i \in DOMAIN lines  BY <1>1
    <3> QED  BY <3>1 DEF Range
  <2>4. lines[h].kind = "section" /\ lines[h].name = t  BY <2>2, Kinds
  <2>5. lines[i].kind = "entry" /\ lines[i].key = m  BY <2>1 DEF Stands, IsEntry
  <2>6. t \in T  BY <2>3, <2>4
  <2>7. m \in M  BY <2>3, <2>5
  <2> QED  BY <2>6, <2>7
<1> HIDE DEF T, M
<1>4. \A n \in D : n = <<n[1], n[2]>> /\ Has(lines, n[1], n[2])  OBVIOUS
<1>5. \A t, m : Has(lines, t, m) => <<t, m>> \in D  BY <1>3
<1> HIDE DEF D
<1>6. DOMAIN ValuesOf(lines) = D  BY <1>2
<1> QED  BY <1>2, <1>4, <1>5, <1>6

(* Values as EditIsExact has them.                                         *)
EditedValues(lines, p) ==
  LET written == {"Preferences"} \X Settings
  IN [n \in written \cup DOMAIN ValuesOf(lines) |->
        IF n \in written THEN Wanted(p)[n[2]] ELSE ValuesOf(lines)[n]]

(* Lines that say the four settings and otherwise what they said have the  *)
(* values of EditIsExact.                                                  *)
LEMMA ValuesOfEdit ==
  ASSUME NEW L, NEW lines \in Seq(L), NEW new \in Seq(L), NEW p, Settled(new, p),
         \A t, m : t # "Preferences" \/ m \notin Settings =>
           \A line : Says(new, t, m, line) <=> Says(lines, t, m, line)
  PROVE  ValuesOf(new) = EditedValues(lines, p)
<1> DEFINE written == {"Preferences"} \X Settings
           D == DOMAIN ValuesOf(lines)
           E == DOMAIN ValuesOf(new)
           wanted(n) == IF n \in written THEN Wanted(p)[n[2]] ELSE ValuesOf(lines)[n]
<1>1. /\ ValuesOf(lines) = [n \in D |-> Get(lines, n[1], n[2])]
      /\ \A n \in D : n = <<n[1], n[2]>> /\ Has(lines, n[1], n[2])
      /\ \A t, m : Has(lines, t, m) => <<t, m>> \in D
  BY ValuesOfIs
<1>2. /\ ValuesOf(new) = [n \in E |-> Get(new, n[1], n[2])]
      /\ \A n \in E : n = <<n[1], n[2]>> /\ Has(new, n[1], n[2])
      /\ \A t, m : Has(new, t, m) => <<t, m>> \in E
  BY ValuesOfIs
<1> HIDE DEF D, E
<1>3. ASSUME NEW t, NEW m, <<t, m>> \in written
      PROVE  Has(new, t, m) /\ Get(new, t, m) = Wanted(p)[m]
  <2>1. t = "Preferences" /\ m \in Settings  BY <1>3
  <2>2. Says(new, t, m, Entry(m, Wanted(p)[m]))  BY <2>1 DEF Settled
  <2>3. Has(new, t, m) /\ Get(new, t, m) = Entry(m, Wanted(p)[m]).value  BY <2>2, HasIsSays
  <2> QED  BY <2>3, Kinds
<1>4. ASSUME NEW t, NEW m, <<t, m>> \notin written
      PROVE  /\ Has(new, t, m) <=> Has(lines, t, m)
             /\ Has(lines, t, m) => Get(new, t, m) = Get(lines, t, m)
  <2>1. t # "Preferences" \/ m \notin Settings  BY <1>4
  <2>2. \A line : Says(new, t, m, line) <=> Says(lines, t, m, line)  BY <2>1
  <2>3. Has(new, t, m) <=> \E line : Says(new, t, m, line)  BY HasIsSays
  <2>4. Has(lines, t, m) <=> \E line : Says(lines, t, m, line)  BY HasIsSays
  <2>5. ASSUME Has(lines, t, m) PROVE Get(new, t, m) = Get(lines, t, m)
    <3>1. PICK line : Says(lines, t, m, line)  BY <2>4, <2>5
    <3>2. Get(lines, t, m) = line.value  BY <3>1, HasIsSays
    <3>3. Get(new, t, m) = line.value  BY <2>2, <3>1, HasIsSays
    <3> QED  BY <3>2, <3>3
  <2> QED  BY <2>2, <2>3, <2>4, <2>5
<1>5. \A n \in written : n = <<n[1], n[2]>>  OBVIOUS
<1> HIDE DEF written
<1>6. E = written \cup D
  <2>1. ASSUME NEW n \in E PROVE n \in written \cup D
    <3>1. n = <<n[1], n[2]>> /\ Has(new, n[1], n[2])  BY <1>2
    <3>2. CASE n \notin written
      <4>1. Has(lines, n[1], n[2])  BY <3>1, <3>2, <1>4
      <4> QED  BY <3>1, <4>1, <1>1
    <3> QED  BY <3>2
  <2>2. ASSUME NEW n \in written PROVE n \in E
    <3>1. n = <<n[1], n[2]>>  BY <1>5
    <3>2. Has(new, n[1], n[2])  BY <3>1, <1>3
    <3> QED  BY <3>1, <3>2, <1>2
  <2>3. ASSUME NEW n \in D, n \notin written PROVE n \in E
    <3>1. n = <<n[1], n[2]>> /\ Has(lines, n[1], n[2])  BY <1>1
    <3>2. Has(new, n[1], n[2])  BY <3>1, <2>3, <1>4
    <3> QED  BY <3>1, <3>2, <1>2
  <2> QED  BY <2>1, <2>2, <2>3
<1>7. \A n \in E : Get(new, n[1], n[2]) = wanted(n)
  <2> TAKE n \in E
  <2>1. n = <<n[1], n[2]>> /\ Has(new, n[1], n[2])  BY <1>2
  <2>2. CASE n \in written
    <3>1. Get(new, n[1], n[2]) = Wanted(p)[n[2]]  BY <2>1, <2>2, <1>3
    <3> QED  BY <3>1, <2>2
  <2>3. CASE n \notin written
    <3>1. n \in D  BY <1>6, <2>3
    <3>2. Has(lines, n[1], n[2])  BY <3>1, <1>1
    <3>3. Get(new, n[1], n[2]) = Get(lines, n[1], n[2])  BY <2>1, <2>3, <3>2, <1>4
    <3>4. ValuesOf(lines)[n] = Get(lines, n[1], n[2])  BY <1>1, <3>1
    <3> QED  BY <3>3, <3>4, <2>3
  <2> QED  BY <2>2, <2>3
<1>8. ValuesOf(new) = [n \in E |-> wanted(n)]  BY <1>2, <1>7
<1> QED  BY <1>6, <1>8 DEF EditedValues, written, D

-----------------------------------------------------------------------------
(* Types.                                                                  *)

(* Configurations.                                                         *)
LEMMA ConfigTypes ==
  /\ DOMAIN Default = {"url", "password", "dsn", "path"} /\ Default \in Configs
  /\ \A c \in Configs :
       /\ c.url \in Values /\ c.password \in Values /\ c.dsn \in Values /\ c.path \in Values
       /\ Load(c) = c /\ [exists |-> TRUE, text |-> c] \in ConfigFiles
       /\ EffectiveDSN(c) \in Values
  /\ \A f \in ConfigFiles : Load(f.text) \in Configs
  /\ \A text \in Texts : [exists |-> TRUE, text |-> text] \in ConfigFiles
  /\ \A e \in BOOLEAN : [exists |-> e, text |-> Empty] \in ConfigFiles
<1>1. DOMAIN Default = {"url", "password", "dsn", "path"}  BY DEF Default
<1>2. Default \in [DOMAIN Default -> Range(Default)]
  <2>1. Default = [field \in DOMAIN Default |-> Default[field]]  BY DEF Default
  <2> QED  BY <2>1 DEF Range
<1>3. Default \in Configs
  <2>1. Range(Default) \subseteq Values  BY DEF Values
  <2> QED  BY <1>2, <2>1 DEF Configs
<1>4. ASSUME NEW c \in Configs
      PROVE  /\ c.url \in Values /\ c.password \in Values /\ c.dsn \in Values /\ c.path \in Values
             /\ Load(c) = c /\ [exists |-> TRUE, text |-> c] \in ConfigFiles
             /\ EffectiveDSN(c) \in Values
  <2>1. c \in [DOMAIN Default -> Values]  BY DEF Configs
  <2>2. c.url \in Values /\ c.password \in Values /\ c.dsn \in Values /\ c.path \in Values
    BY <2>1, <1>1
  <2>3. Load(c) = c  BY <2>1 DEF Load
  <2>4. [exists |-> TRUE, text |-> c] \in ConfigFiles  BY <2>1 DEF ConfigFiles
  <2>5. EffectiveDSN(c) \in Values  BY <2>2 DEF EffectiveDSN
  <2> QED  BY <2>2, <2>3, <2>4, <2>5
<1>5. ASSUME NEW f \in ConfigFiles PROVE Load(f.text) \in Configs
  <2>1. PICK fields \in SUBSET DOMAIN Default : f.text \in [fields -> Values]  BY DEF ConfigFiles
  <2>2. \A field \in DOMAIN Default : Default[field] \in Values  BY <1>3 DEF Configs
  <2>3. \A field \in DOMAIN Default :
          (IF field \in DOMAIN f.text THEN f.text[field] ELSE Default[field]) \in Values
    BY <2>1, <2>2
  <2> QED  BY <2>3 DEF Load, Configs
<1>6. ASSUME NEW text \in Texts PROVE [exists |-> TRUE, text |-> text] \in ConfigFiles
  <2>1. DOMAIN text \in SUBSET DOMAIN Default /\ text \in [DOMAIN text -> Range(text)]
    BY <1>1, TextAssumption
  <2>2. Range(text) \subseteq Values  BY DEF Values
  <2>3. text \in [DOMAIN text -> Values]  BY <2>1, <2>2
  <2> QED  BY <2>1, <2>3 DEF ConfigFiles
<1>7. ASSUME NEW e \in BOOLEAN PROVE [exists |-> e, text |-> Empty] \in ConfigFiles
  <2>1. Empty \in [{} -> Values]  BY DEF Empty
  <2>2. {} \in SUBSET DOMAIN Default  OBVIOUS
  <2> QED  BY <2>1, <2>2 DEF ConfigFiles
<1> QED  BY <1>1, <1>3, <1>4, <1>5, <1>6, <1>7

(* Lines and ports.                                                        *)
LEMMA LineTypes ==
  /\ Header("Preferences") \in Lines /\ Blank \in Lines
  /\ \A p \in Ports : \A key \in Settings : Entry(key, Wanted(p)[key]) \in Lines
  /\ \A lines \in Documents : lines \in Seq(Lines)
  /\ <<>> \in Seq(Lines)
  /\ \A lines : PortFor(lines) \in Ports
<1>1. Header("Preferences") \in Lines /\ Blank \in Lines  BY DEF Lines
<1>2. \A p \in Ports : \A key \in Settings : Entry(key, Wanted(p)[key]) \in Lines  BY DEF Lines
<1>3. ASSUME NEW lines \in Documents PROVE lines \in Seq(Lines)
  <2>1. lines \in Seq(Range(lines))  BY DocumentAssumption
  <2>2. Range(lines) \subseteq Lines  BY DEF Lines
  <2> QED  BY <2>1, <2>2, SeqMonotonic
<1>4. <<>> \in Seq(Lines)  OBVIOUS
<1>5. \A lines : PortFor(lines) \in Ports  BY DEF PortFor, Ports
<1> QED  BY <1>1, <1>2, <1>3, <1>4, <1>5

(* What ensureQBitWebUI makes of lines, which is all that is used below.   *)
LEMMA EditTypes ==
  ASSUME NEW lines \in Seq(Lines), NEW p \in Ports
  PROVE  LET edit == EnableWebUI(lines, p) IN
         /\ edit.lines \in Seq(Lines) /\ edit.changed \in BOOLEAN
         /\ Settled(edit.lines, p)
         /\ \A t, m : t # "Preferences" \/ m \notin Settings =>
              \A line : Says(edit.lines, t, m, line) <=> Says(lines, t, m, line)
         /\ LinesKept(lines, edit.lines)
         /\ ~ edit.changed <=> Settled(lines, p)
         /\ Settled(lines, p) => edit.lines = lines
BY LineTypes, EnableWebUISays

(* A second setup for one port finds nothing to change, whatever lines the *)
(* first one found (UpdatedINI).                                           *)
THEOREM SecondSetupChangesNothing ==
  ASSUME NEW lines \in Seq(Lines), NEW p \in Ports
  PROVE  LET once == EnableWebUI(lines, p).lines
             twice == EnableWebUI(once, p) IN
         ~ twice.changed /\ twice.lines = once
<1> DEFINE once == EnableWebUI(lines, p).lines
<1>1. once \in Seq(Lines) /\ Settled(once, p)  BY EditTypes
<1> HIDE DEF once
<1>2. ~ EnableWebUI(once, p).changed /\ EnableWebUI(once, p).lines = once
  BY <1>1, EditTypes
<1> QED  BY <1>2 DEF once

(* qBittorrent, up or not.                                                 *)
LEMMA RunningType ==
  /\ Running \in [up : BOOLEAN, port : Ports \cup {"none"}]
  /\ Stopped \in [up : BOOLEAN, port : Ports \cup {"none"}]
BY LineTypes DEF Running, Stopped

(* The first state has the types.                                          *)
LEMMA TypeInit == Init => TypeOK
<1> SUFFICES ASSUME Init PROVE TypeOK  OBVIOUS
<1>1. file \in ConfigFiles /\ chosen \in ConfigFiles  BY ConfigTypes DEF Init
<1>2. ini \in Seq(Lines) /\ doc \in [Commands -> Seq(Lines)]  BY LineTypes DEF Init
<1>3. program \in [up : BOOLEAN, port : Ports \cup {"none"}]  BY RunningType DEF Init
<1>4. pc \in [Commands -> Steps] /\ setup \in [Commands -> BOOLEAN]  BY DEF Init, Steps
<1>5. updated \in [Commands -> BOOLEAN] /\ cut \in BOOLEAN  BY DEF Init
<1>6. crashes \in 0 .. MaxCrashes  BY SetupAssumption DEF Init
<1>7. cfg \in [Commands -> Configs]  BY ConfigTypes DEF Init
<1>8. port \in [Commands -> Ports \cup {"none"}] /\ opened \in [Commands -> Values \cup {"none"}]
  BY DEF Init
<1> QED  BY <1>1, <1>2, <1>3, <1>4, <1>5, <1>6, <1>7, <1>8 DEF TypeOK

(* A configuration that names a port.                                      *)
WithPort(c, p) == [c EXCEPT !.url = p, !.password = ""]

(* It has the type of a configuration and the settings the setup leaves.   *)
LEMMA OnPort ==
  ASSUME NEW c \in Configs, NEW p \in Ports
  PROVE  /\ WithPort(c, p) \in Configs
         /\ WithPort(c, p).url = p /\ WithPort(c, p).password = ""
         /\ WithPort(c, p).dsn = c.dsn /\ WithPort(c, p).path = c.path
<1>1. p \in Values /\ "" \in Values  BY DEF Values
<1>2. c \in [{"url", "password", "dsn", "path"} -> Values]  BY ConfigTypes DEF Configs
<1> QED  BY <1>1, <1>2, ConfigTypes DEF Configs, WithPort

(* A step of ReadIni, with the port it settles on.                         *)
LEMMA ReadIniDoes ==
  ASSUME TypeOK, NEW c \in Commands, ReadIni(c)
  PROVE  \E p \in Ports :
           /\ port' = [port EXCEPT ![c] = p]
           /\ doc' = [doc EXCEPT ![c] = EnableWebUI(ini, p).lines]
           /\ updated' = [updated EXCEPT ![c] = EnableWebUI(ini, p).changed]
           /\ cfg' = [cfg EXCEPT ![c] = WithPort(cfg[c], p)]
           /\ GoTo(c, IF EnableWebUI(ini, p).changed THEN "cutini" ELSE "cutconfig")
<1>1. PICK p \in {PortFor(ini)} \cup (IF setup[c] THEN Ports ELSE {}) :
        /\ port' = [port EXCEPT ![c] = p]
        /\ doc' = [doc EXCEPT ![c] = EnableWebUI(ini, p).lines]
        /\ updated' = [updated EXCEPT ![c] = EnableWebUI(ini, p).changed]
        /\ cfg' = [cfg EXCEPT ![c].url = p, ![c].password = ""]
        /\ GoTo(c, IF EnableWebUI(ini, p).changed THEN "cutini" ELSE "cutconfig")
  BY DEF ReadIni, ReadIniThen
<1>2. p \in Ports
  <2>1. PortFor(ini) \in Ports  BY LineTypes
  <2>2. CASE setup[c]  BY <2>1, <2>2
  <2>3. CASE ~ setup[c]  BY <2>1, <2>3
  <2> QED  BY <2>2, <2>3
<1>3. cfg' = [cfg EXCEPT ![c] = WithPort(cfg[c], p)]
  BY <1>1 DEF TypeOK, WithPort
<1> QED  BY <1>1, <1>2, <1>3

(* So has every next one.                                                  *)
LEMMA TypeStep == TypeOK /\ [Next]_vars => TypeOK'
<1> SUFFICES ASSUME TypeOK, [Next]_vars PROVE TypeOK'  OBVIOUS
<1> USE DEF TypeOK, locals
<1>1. ASSUME NEW c \in Commands, BuildBegins(c) PROVE TypeOK'
  BY <1>1, ConfigTypes DEF BuildBegins, GoTo, Steps
<1>2. ASSUME NEW c \in Commands, SetupBegins(c) PROVE TypeOK'
  BY <1>2, ConfigTypes DEF SetupBegins, SetupBeginsWith, GoTo, Steps
<1>3. ASSUME NEW c \in Commands, Probe(c) PROVE TypeOK'
  BY <1>3 DEF Probe, GoTo, Steps
<1>4. ASSUME NEW c \in Commands, ReadIni(c) PROVE TypeOK'
  <2>1. PICK p \in Ports :
          /\ port' = [port EXCEPT ![c] = p]
          /\ doc' = [doc EXCEPT ![c] = EnableWebUI(ini, p).lines]
          /\ updated' = [updated EXCEPT ![c] = EnableWebUI(ini, p).changed]
          /\ cfg' = [cfg EXCEPT ![c] = WithPort(cfg[c], p)]
          /\ GoTo(c, IF EnableWebUI(ini, p).changed THEN "cutini" ELSE "cutconfig")
    BY <1>4, ReadIniDoes
  <2>2. EnableWebUI(ini, p).lines \in Seq(Lines) /\ EnableWebUI(ini, p).changed \in BOOLEAN
    BY EditTypes
  <2>3. doc' \in [Commands -> Seq(Lines)] /\ updated' \in [Commands -> BOOLEAN]
    BY <2>1, <2>2
  <2>4. port' \in [Commands -> Ports \cup {"none"}]  BY <2>1
  <2>5. cfg' \in [Commands -> Configs]  BY <2>1, OnPort
  <2>6. pc' \in [Commands -> Steps]  BY <2>1 DEF GoTo, Steps
  <2> QED  BY <1>4, <2>3, <2>4, <2>5, <2>6 DEF ReadIni, ReadIniThen
<1>5. ASSUME NEW c \in Commands, CutIni(c) PROVE TypeOK'
  BY <1>5, LineTypes DEF CutIni, GoTo, Steps
<1>6. ASSUME NEW c \in Commands, WriteIni(c) PROVE TypeOK'
  BY <1>6 DEF WriteIni, GoTo, Steps
<1>7. ASSUME NEW c \in Commands, CutConfig(c) PROVE TypeOK'
  BY <1>7, ConfigTypes DEF CutConfig, GoTo, Steps
<1>8. ASSUME NEW c \in Commands, WriteConfig(c) PROVE TypeOK'
  BY <1>8, ConfigTypes DEF WriteConfig, WriteConfigThen, GoTo, Steps
<1>9. ASSUME NEW c \in Commands, Refused(c) PROVE TypeOK'
  BY <1>9 DEF Refused, GiveUp, GoTo, Steps
<1>10. ASSUME NEW c \in Commands, Stop(c) PROVE TypeOK'
  BY <1>10, RunningType DEF Stop, GoTo, Steps
<1>11. ASSUME NEW c \in Commands, Launch(c) PROVE TypeOK'
  BY <1>11, RunningType DEF Launch, GoTo, Steps
<1>12. ASSUME NEW c \in Commands, Wait(c) PROVE TypeOK'
  BY <1>12 DEF Wait, WaitThen, GoTo, Steps
<1>13. ASSUME NEW c \in Commands, Build(c) PROVE TypeOK'
  <2>1. EffectiveDSN(Load(file.text)) \in Values  BY ConfigTypes
  <2>2. opened' \in [Commands -> Values \cup {"none"}]  BY <1>13, <2>1 DEF Build
  <2>3. GoTo(c, "up") \/ GoTo(c, "error")  BY <1>13 DEF Build
  <2>4. pc' \in [Commands -> Steps]  BY <2>3 DEF GoTo, Steps
  <2> QED  BY <1>13, <2>2, <2>4 DEF Build
<1>14. ASSUME NEW c \in Commands, Ends(c) PROVE TypeOK'
  BY <1>14, ConfigTypes, LineTypes DEF Ends, Gone, GoTo, Steps
<1>15. ASSUME NEW c \in Commands, Crash(c) PROVE TypeOK'
  BY <1>15, ConfigTypes, LineTypes, SetupAssumption DEF Crash, Gone, GoTo, Steps
<1>16. ASSUME OperatorEdits PROVE TypeOK'
  <2>1. file' \in ConfigFiles
    <3>1. CASE file' \in {[exists |-> TRUE, text |-> text] : text \in Texts}
      BY <3>1, ConfigTypes
    <3>2. CASE file' = [exists |-> FALSE, text |-> Empty]  BY <3>2, ConfigTypes
    <3> QED  BY <1>16, <3>1, <3>2 DEF OperatorEdits
  <2> QED  BY <1>16, <2>1 DEF OperatorEdits
<1>17. ASSUME ProgramStartsOrQuits PROVE TypeOK'
  BY <1>17, RunningType DEF ProgramStartsOrQuits
<1>18. ASSUME UNCHANGED vars PROVE TypeOK'
  BY <1>18 DEF vars
<1> QED
  BY <1>1, <1>2, <1>3, <1>4, <1>5, <1>6, <1>7, <1>8, <1>9, <1>10, <1>11, <1>12, <1>13,
     <1>14, <1>15, <1>16, <1>17, <1>18 DEF Next, Write, Verify

(* Every variable has its type: the lines come from the preferences found  *)
(* and from the setup, the configurations are complete.                    *)
THEOREM SetupTypes == Spec => []TypeOK
<1>1. Init => TypeOK  BY TypeInit
<1>2. TypeOK /\ [Next]_vars => TypeOK'  BY TypeStep
<1> QED  BY <1>1, <1>2, PTL DEF Spec

-----------------------------------------------------------------------------
(* The remaining invariants suppose that commands work one at a time: as   *)
(* many services as there may be are up, but while a command reads or      *)
(* writes the files no other one does, since nothing in the code would     *)
(* keep them apart.                                                        *)
Resting == {"idle", "up", "ok", "unreachable", "error", "killed"}
OneAtWork == \A c, d \in Commands : c # d => pc[c] \in Resting \/ pc[d] \in Resting

Acts(c) ==
  \/ BuildBegins(c) \/ SetupBegins(c) \/ Write(c) \/ Verify(c) \/ Build(c)
  \/ Ends(c) \/ Crash(c)

(* A step of one command leaves what the others hold in memory alone.      *)
LEMMA OthersStay ==
  ASSUME TypeOK, NEW c \in Commands, Acts(c), NEW d \in Commands, d # c
  PROVE  /\ pc'[d] = pc[d] /\ cfg'[d] = cfg[d] /\ port'[d] = port[d]
         /\ doc'[d] = doc[d] /\ updated'[d] = updated[d] /\ opened'[d] = opened[d]
<1> USE DEF TypeOK, locals, GoTo
<1>1. CASE BuildBegins(c)  BY <1>1 DEF BuildBegins
<1>2. CASE SetupBegins(c)  BY <1>2 DEF SetupBegins, SetupBeginsWith
<1>3. CASE Probe(c)  BY <1>3 DEF Probe
<1>4. CASE ReadIni(c)
  <2>1. \E p \in Ports :
          /\ port' = [port EXCEPT ![c] = p]
          /\ doc' = [doc EXCEPT ![c] = EnableWebUI(ini, p).lines]
          /\ updated' = [updated EXCEPT ![c] = EnableWebUI(ini, p).changed]
          /\ cfg' = [cfg EXCEPT ![c] = WithPort(cfg[c], p)]
          /\ GoTo(c, IF EnableWebUI(ini, p).changed THEN "cutini" ELSE "cutconfig")
    BY <1>4, ReadIniDoes
  <2> QED  BY <1>4, <2>1 DEF ReadIni, ReadIniThen
<1>5. CASE CutIni(c)  BY <1>5 DEF CutIni
<1>6. CASE WriteIni(c)  BY <1>6 DEF WriteIni
<1>7. CASE CutConfig(c)  BY <1>7 DEF CutConfig
<1>8. CASE WriteConfig(c)  BY <1>8 DEF WriteConfig, WriteConfigThen
<1>9. CASE Refused(c)  BY <1>9 DEF Refused, GiveUp
<1>10. CASE Stop(c)  BY <1>10 DEF Stop
<1>11. CASE Launch(c)  BY <1>11 DEF Launch
<1>12. CASE Wait(c)  BY <1>12 DEF Wait, WaitThen
<1>13. CASE Build(c)
  <2>1. GoTo(c, "up") \/ GoTo(c, "error")  BY <1>13 DEF Build
  <2>2. opened'[d] = opened[d]  BY <1>13 DEF Build
  <2> QED  BY <1>13, <2>1, <2>2 DEF Build
<1>14. CASE Ends(c) \/ Crash(c)  BY <1>14 DEF Ends, Crash, Gone
<1> QED
  BY <1>1, <1>2, <1>3, <1>4, <1>5, <1>6, <1>7, <1>8, <1>9, <1>10, <1>11, <1>12, <1>13,
     <1>14 DEF Acts, Write, Verify

(* While one is at work, before or after the step, the others are not.     *)
LEMMA OthersRest ==
  ASSUME TypeOK, OneAtWork, OneAtWork', NEW c \in Commands, Acts(c),
         pc[c] \notin Resting \/ pc'[c] \notin Resting, NEW d \in Commands, d # c
  PROVE  pc[d] \in Resting
<1>1. pc'[d] = pc[d]  BY OthersStay
<1>2. pc[c] \in Resting \/ pc[d] \in Resting  BY DEF OneAtWork
<1>3. pc'[c] \in Resting \/ pc'[d] \in Resting  BY DEF OneAtWork
<1> QED  BY <1>1, <1>2, <1>3

(* What Kept keeps.                                                        *)
LEMMA KeptOf ==
  /\ \A c \in Configs : Kept(c) = <<c.dsn, c.path>>
  /\ \A f \in ConfigFiles : Kept(Load(f.text)) = Kept(f.text)
  /\ \A a, b : Kept(a) = Kept(b) => EffectiveDSN(Load(a)) = EffectiveDSN(Load(b))
<1>1. \A c \in Configs : Kept(c) = <<c.dsn, c.path>>  BY ConfigTypes DEF Kept
<1>2. \A f \in ConfigFiles : Kept(Load(f.text)) = Kept(f.text)  BY ConfigTypes DEF Kept
<1>3. \A a, b : Kept(a) = Kept(b) => EffectiveDSN(Load(a)) = EffectiveDSN(Load(b))
  BY DEF Kept, EffectiveDSN
<1> QED  BY <1>1, <1>2, <1>3

(* A command on its way to the configuration file carries the operator's   *)
(* settings with it.                                                       *)
Carrying == {"probe", "readini", "cutini", "writeini", "cutconfig", "writeconfig"}
SettingsInv ==
  ~ cut =>
    /\ (\A c \in Commands : pc[c] # "writeconfig") => Kept(file.text) = Kept(chosen.text)
    /\ \A c \in Commands : pc[c] \in Carrying => Kept(cfg[c]) = Kept(chosen.text)
    /\ \A c \in Commands : pc[c] = "up" => opened[c] = EffectiveDSN(Load(chosen.text))

(* SettingsInv is inductive when commands work one at a time.              *)
LEMMA SettingsStep ==
  ASSUME TypeOK, OneAtWork, OneAtWork', SettingsInv, [Next]_vars
  PROVE  SettingsInv'
<1> USE DEF locals
<1>1. pc \in [Commands -> Steps] /\ cfg \in [Commands -> Configs]
      /\ opened \in [Commands -> Values \cup {"none"}] /\ file \in ConfigFiles
  BY DEF TypeOK
<1>2. ASSUME NEW c \in Commands, Acts(c) PROVE SettingsInv'
  <2>1. \A d \in Commands \ {c} :
          pc'[d] = pc[d] /\ cfg'[d] = cfg[d] /\ opened'[d] = opened[d]
    BY <1>2, OthersStay
  <2>2. pc[c] \notin Resting \/ pc'[c] \notin Resting
          => \A d \in Commands \ {c} : pc[d] \in Resting
    BY <1>2, OthersRest
  <2>3. SUFFICES
          ASSUME ~ cut'
          PROVE  /\ UNCHANGED <<chosen, cut>>
                 /\ (\A d \in Commands : pc'[d] # "writeconfig")
                      => Kept(file'.text) = Kept(chosen.text)
                 /\ pc'[c] \in Carrying => Kept(cfg'[c]) = Kept(chosen.text)
                 /\ pc'[c] = "up" => opened'[c] = EffectiveDSN(Load(chosen.text))
    BY <2>1 DEF SettingsInv
  <2> USE DEF Resting, Carrying
  <2>4. CASE BuildBegins(c)
    <3>1. /\ pc[c] = "idle" /\ pc'[c] \in {"probe", "build"} /\ cfg'[c] = Load(file.text)
          /\ UNCHANGED <<file, chosen, cut>>
      BY <1>1, <2>4 DEF BuildBegins, GoTo
    <3>2. \A d \in Commands : pc[d] # "writeconfig"  BY <2>2, <3>1
    <3>3. Kept(file.text) = Kept(chosen.text)  BY <2>3, <3>1, <3>2 DEF SettingsInv
    <3> QED  BY <1>1, <3>1, <3>3, KeptOf
  <2>5. CASE SetupBegins(c)
    <3>1. /\ pc[c] = "idle" /\ pc'[c] \in {"readini", "error"} /\ cfg'[c] = Load(file.text)
          /\ UNCHANGED <<file, chosen, cut>>
      BY <1>1, <2>5 DEF SetupBegins, SetupBeginsWith, GoTo
    <3>2. (\A d \in Commands : pc[d] # "writeconfig") => Kept(file.text) = Kept(chosen.text)
      BY <2>3, <3>1 DEF SettingsInv
    <3>3. (\A d \in Commands : pc'[d] # "writeconfig") => \A d \in Commands : pc[d] # "writeconfig"
      BY <2>1, <3>1
    <3>4. pc'[c] = "readini" => \A d \in Commands : pc[d] # "writeconfig"  BY <2>2, <3>1
    <3> QED  BY <1>1, <3>1, <3>2, <3>3, <3>4, KeptOf
  <2>6. CASE Probe(c)
    <3>1. /\ pc[c] = "probe" /\ pc'[c] \in {"readini", "build"} /\ cfg'[c] = cfg[c]
          /\ UNCHANGED <<file, chosen, cut>>
      BY <1>1, <2>6 DEF Probe, GoTo
    <3> QED  BY <2>2, <2>3, <3>1 DEF SettingsInv
  <2>7. CASE ReadIni(c)
    <3>1. PICK p \in Ports :
            /\ cfg' = [cfg EXCEPT ![c] = WithPort(cfg[c], p)]
            /\ GoTo(c, IF EnableWebUI(ini, p).changed THEN "cutini" ELSE "cutconfig")
      BY <2>7, ReadIniDoes
    <3>2. cfg[c] \in Configs /\ cfg'[c] = WithPort(cfg[c], p)  BY <1>1, <3>1
    <3>3. /\ WithPort(cfg[c], p) \in Configs
          /\ WithPort(cfg[c], p).dsn = cfg[c].dsn /\ WithPort(cfg[c], p).path = cfg[c].path
      BY <3>2, OnPort
    <3>4. Kept(cfg'[c]) = Kept(cfg[c])  BY <3>2, <3>3, KeptOf
    <3>5. pc[c] = "readini" /\ UNCHANGED <<file, chosen, cut>>
      BY <2>7 DEF ReadIni, ReadIniThen
    <3>6. pc'[c] \in {"cutini", "cutconfig"}  BY <1>1, <3>1 DEF GoTo
    <3> QED  BY <2>2, <2>3, <3>4, <3>5, <3>6 DEF SettingsInv
  <2>8. CASE CutIni(c) \/ WriteIni(c) \/ CutConfig(c)
    <3>1. /\ pc[c] \in {"cutini", "writeini", "cutconfig"}
          /\ pc'[c] \in {"writeini", "cutconfig", "writeconfig"}
          /\ cfg'[c] = cfg[c] /\ UNCHANGED <<chosen, cut>>
          /\ pc'[c] = "writeconfig" \/ UNCHANGED file
      BY <1>1, <2>8 DEF CutIni, WriteIni, CutConfig, GoTo
    <3> QED  BY <2>2, <2>3, <3>1 DEF SettingsInv
  <2>9. CASE WriteConfig(c)
    <3>1. /\ pc[c] = "writeconfig" /\ pc'[c] \in {"build", "stop", "launch"}
          /\ file'.text = cfg[c] /\ UNCHANGED <<chosen, cut>>
      BY <1>1, <2>9 DEF WriteConfig, WriteConfigThen, GoTo
    <3> QED  BY <2>3, <3>1 DEF SettingsInv
  <2>10. CASE Refused(c)
    <3>1. /\ pc[c] \in {"readini", "cutini", "cutconfig"} /\ pc'[c] \in {"error", "build"}
          /\ UNCHANGED <<file, chosen, cut>>
      BY <1>1, <2>10 DEF Refused, GiveUp, GoTo
    <3> QED  BY <2>2, <2>3, <3>1 DEF SettingsInv
  <2>11. CASE Verify(c)
    <3>1. /\ pc[c] \in {"stop", "launch", "wait"}
          /\ pc'[c] \in {"launch", "killed", "wait", "ok", "unreachable"}
          /\ UNCHANGED <<file, chosen, cut>>
      <4>1. CASE Stop(c)  BY <4>1, <1>1 DEF Stop, GoTo
      <4>2. CASE Launch(c)  BY <4>2, <1>1 DEF Launch, GoTo
      <4>3. CASE Wait(c)  BY <4>3, <1>1 DEF Wait, WaitThen, GoTo
      <4> QED  BY <2>11, <4>1, <4>2, <4>3 DEF Verify
    <3> QED  BY <2>2, <2>3, <3>1 DEF SettingsInv
  <2>12. CASE Build(c)
    <3>1. pc[c] = "build" /\ UNCHANGED <<file, chosen, cut>>  BY <2>12 DEF Build
    <3>2. Kept(file.text) = Kept(chosen.text)  BY <2>2, <2>3, <3>1 DEF SettingsInv
    <3>3. \/ pc'[c] = "up" /\ opened'[c] = EffectiveDSN(Load(file.text))
          \/ pc'[c] = "error"
      BY <1>1, <2>12 DEF Build, GoTo
    <3> QED  BY <3>1, <3>2, <3>3, KeptOf
  <2>13. CASE Ends(c)
    <3>1. /\ pc[c] \in {"up", "ok", "unreachable", "error", "killed"} /\ pc'[c] = "idle"
          /\ UNCHANGED <<file, chosen, cut>>
      BY <1>1, <2>13 DEF Ends, Gone, GoTo
    <3>2. (\A d \in Commands : pc'[d] # "writeconfig") => \A d \in Commands : pc[d] # "writeconfig"
      BY <2>1, <3>1
    <3> QED  BY <2>3, <3>1, <3>2 DEF SettingsInv
  <2>14. CASE Crash(c)
    <3>1. /\ pc[c] \notin Resting /\ pc'[c] = "idle" /\ UNCHANGED <<file, chosen>>
          /\ cut' = (cut \/ pc[c] = "writeconfig")
      BY <1>1, <2>14 DEF Crash, Gone, GoTo
    <3>2. cut \in BOOLEAN /\ cut' \in BOOLEAN  BY <3>1 DEF TypeOK
    <3>3. ~ cut /\ ~ cut' /\ pc[c] # "writeconfig"  BY <2>3, <3>1
    <3>4. cut' = cut  BY <3>2, <3>3
    <3> QED  BY <2>2, <3>1, <3>3, <3>4 DEF SettingsInv
  <2> QED
    BY <1>2, <2>4, <2>5, <2>6, <2>7, <2>8, <2>9, <2>10, <2>11, <2>12, <2>13, <2>14
       DEF Acts, Write
<1>3. ASSUME OperatorEdits PROVE SettingsInv'
  BY <1>3 DEF OperatorEdits, SettingsInv, Carrying
<1>4. ASSUME ProgramStartsOrQuits PROVE SettingsInv'
  BY <1>4 DEF ProgramStartsOrQuits, SettingsInv
<1>5. ASSUME UNCHANGED vars PROVE SettingsInv'
  BY <1>5 DEF vars, SettingsInv
<1> QED  BY <1>2, <1>3, <1>4, <1>5 DEF Next, Acts

(* What the operator configured stays in effect, whatever builds, setups   *)
(* and crashes there are between Saves that are not cut short.             *)
THEOREM SetupKeepsSettings == Spec /\ []OneAtWork => []SettingsKept
<1>1. Init => SettingsInv
  <2> SUFFICES ASSUME Init PROVE SettingsInv  OBVIOUS
  <2>1. Kept(file.text) = Kept(chosen.text) /\ \A c \in Commands : pc[c] = "idle"  BY DEF Init
  <2> QED  BY <2>1 DEF SettingsInv, Carrying
<1>2. TypeOK /\ OneAtWork /\ OneAtWork' /\ SettingsInv /\ [Next]_vars => SettingsInv'
  BY SettingsStep
<1>3. SettingsInv => SettingsKept  BY DEF SettingsInv, SettingsKept
<1> QED  BY <1>1, <1>2, <1>3, SetupTypes, PTL DEF Spec

(* How far a command has brought the two files in step with the port it    *)
(* settled on, and the program with them.                                  *)
InEffect(c) ==
  /\ port[c] \in Ports /\ Settled(ini, port[c])
  /\ Load(file.text).url = port[c] /\ Load(file.text).password = ""
InStep(c) ==
  /\ pc[c] \in {"idle", "probe", "readini"} => port[c] = "none"
  /\ pc[c] \in {"cutini", "writeini", "cutconfig", "writeconfig", "stop", "launch", "wait"} =>
       port[c] \in Ports /\ cfg[c].url = port[c] /\ cfg[c].password = ""
  /\ pc[c] = "cutini" => /\ doc[c] = EnableWebUI(ini, port[c]).lines
                         /\ EnableWebUI(ini, port[c]).changed
  /\ pc[c] \in {"cutini", "writeini"} => Settled(doc[c], port[c])
  /\ pc[c] \in {"cutconfig", "writeconfig"} => Settled(ini, port[c])
  /\ port[c] # "none" /\ pc[c] \in {"build", "stop", "launch", "wait"} => InEffect(c)
  /\ updated[c] =>
       /\ pc[c] = "launch" => ~ program.up
       /\ pc[c] = "wait" => Reachable(cfg[c])
       /\ pc[c] # "unreachable"
FilesInv == \A c \in Commands : InStep(c)

(* Settled preferences read as they were written.                          *)
LEMMA SettledReads ==
  ASSUME ini \in Seq(Lines), NEW p \in Ports, Settled(ini, p)
  PROVE  /\ \A key \in Settings : IsPreference(key, Wanted(p)[key])
         /\ Running = [up |-> TRUE, port |-> p]
<1>1. ASSUME NEW key \in Settings
      PROVE  Has(ini, "Preferences", key) /\ Get(ini, "Preferences", key) = Wanted(p)[key]
  <2>1. Says(ini, "Preferences", key, Entry(key, Wanted(p)[key]))  BY DEF Settled
  <2>2. /\ Has(ini, "Preferences", key)
        /\ Get(ini, "Preferences", key) = Entry(key, Wanted(p)[key]).value
    BY <2>1, HasIsSays
  <2> QED  BY <2>2, Kinds
<1>2. \A key \in Settings : IsPreference(key, Wanted(p)[key])
  BY <1>1 DEF IsPreference, Preference
<1>3. "Enabled" \in Settings /\ "Port" \in Settings  BY DEF Settings
<1>4. Wanted(p)["Enabled"] = "true" /\ Wanted(p)["Port"] = p  BY DEF Wanted
<1>5. IsPreference("Enabled", "true")  BY <1>2, <1>3, <1>4
<1>6. PortFor(ini) = p  BY <1>1, <1>3, <1>4 DEF PortFor
<1> QED  BY <1>2, <1>5, <1>6 DEF Running

(* A step between two states of rest leaves the files and the program.     *)
LEMMA RestingLeaves ==
  ASSUME TypeOK, NEW c \in Commands, Acts(c), pc[c] \in Resting, pc'[c] \in Resting
  PROVE  UNCHANGED <<file, ini, program>>
<1> USE DEF Resting
<1>1. pc \in [Commands -> Steps]  BY DEF TypeOK
<1>2. ~ BuildBegins(c) \/ UNCHANGED <<file, ini, program>>  BY DEF BuildBegins
<1>3. ~ SetupBegins(c) \/ UNCHANGED <<file, ini, program>>
  BY DEF SetupBegins, SetupBeginsWith
<1>4. ~ Write(c)
  BY DEF Write, Probe, ReadIni, ReadIniThen, CutIni, WriteIni, CutConfig, WriteConfig,
         WriteConfigThen, Refused
<1>5. ~ Verify(c)  BY DEF Verify, Stop, Launch, Wait, WaitThen
<1>6. ~ Build(c)  BY DEF Build
<1>7. ~ Ends(c) \/ UNCHANGED <<file, ini, program>>  BY DEF Ends, Gone
<1>8. ~ Crash(c)  BY DEF Crash
<1> QED  BY <1>2, <1>3, <1>4, <1>5, <1>6, <1>7, <1>8 DEF Acts

(* What a command has done stays in step while another one takes a step:   *)
(* at work it is the only one, and at rest only what it holds counts.      *)
LEMMA OthersInStep ==
  ASSUME TypeOK, OneAtWork, OneAtWork', NEW c \in Commands, Acts(c),
         NEW d \in Commands, d # c, InStep(d)
  PROVE  InStep(d)'
<1>1. /\ pc'[d] = pc[d] /\ cfg'[d] = cfg[d] /\ port'[d] = port[d]
      /\ doc'[d] = doc[d] /\ updated'[d] = updated[d]
  BY OthersStay
<1>2. CASE pc[d] \in Resting  BY <1>1, <1>2 DEF InStep, Resting
<1>3. CASE pc[d] \notin Resting
  <2>1. pc[c] \in Resting /\ pc'[c] \in Resting  BY <1>3, OthersRest
  <2>2. UNCHANGED <<file, ini, program>>  BY <2>1, RestingLeaves
  <2> QED  BY <1>1, <2>2 DEF InStep, InEffect, Reachable
<1> QED  BY <1>2, <1>3

(* FilesInv is inductive when commands run one at a time.                  *)
LEMMA FilesStep ==
  ASSUME TypeOK, TypeOK', OneAtWork, OneAtWork', FilesInv, [Next]_vars
  PROVE  FilesInv'
<1> USE DEF locals
<1>1. /\ pc \in [Commands -> Steps] /\ cfg \in [Commands -> Configs]
      /\ port \in [Commands -> Ports \cup {"none"}] /\ updated \in [Commands -> BOOLEAN]
      /\ doc \in [Commands -> Seq(Lines)] /\ ini \in Seq(Lines)
      /\ program \in [up : BOOLEAN, port : Ports \cup {"none"}]
  BY DEF TypeOK
<1>2. ASSUME NEW c \in Commands, Acts(c), InStep(c)' PROVE FilesInv'
  BY <1>2, OthersInStep DEF FilesInv
<1>3. ASSUME NEW c \in Commands, BuildBegins(c) PROVE InStep(c)'
  <2>1. pc[c] = "idle" /\ pc'[c] \in {"probe", "build"} /\ UNCHANGED <<port, updated>>
    BY <1>1, <1>3 DEF BuildBegins, GoTo
  <2> QED  BY <2>1 DEF FilesInv, InStep, InEffect
<1>4. ASSUME NEW c \in Commands, SetupBegins(c) PROVE InStep(c)'
  <2>1. pc[c] = "idle" /\ pc'[c] \in {"readini", "error"} /\ UNCHANGED <<port, updated>>
    BY <1>1, <1>4 DEF SetupBegins, SetupBeginsWith, GoTo
  <2> QED  BY <2>1 DEF FilesInv, InStep, InEffect
<1>5. ASSUME NEW c \in Commands, Probe(c) PROVE InStep(c)'
  <2>1. pc[c] = "probe" /\ pc'[c] \in {"readini", "build"} /\ UNCHANGED <<port, updated>>
    BY <1>1, <1>5 DEF Probe, GoTo
  <2> QED  BY <2>1 DEF FilesInv, InStep, InEffect
<1>6. ASSUME NEW c \in Commands, ReadIni(c) PROVE InStep(c)'
  <2>1. PICK p \in Ports :
          /\ port' = [port EXCEPT ![c] = p]
          /\ doc' = [doc EXCEPT ![c] = EnableWebUI(ini, p).lines]
          /\ updated' = [updated EXCEPT ![c] = EnableWebUI(ini, p).changed]
          /\ cfg' = [cfg EXCEPT ![c] = WithPort(cfg[c], p)]
          /\ GoTo(c, IF EnableWebUI(ini, p).changed THEN "cutini" ELSE "cutconfig")
    BY <1>6, ReadIniDoes
  <2>2. port'[c] = p /\ doc'[c] = EnableWebUI(ini, p).lines /\ ini' = ini
    BY <1>1, <1>6, <2>1 DEF ReadIni, ReadIniThen
  <2>3. cfg'[c].url = p /\ cfg'[c].password = ""
    <3>1. cfg'[c] = WithPort(cfg[c], p)  BY <1>1, <2>1
    <3>2. cfg[c] \in Configs  BY <1>1
    <3>3. WithPort(cfg[c], p).url = p /\ WithPort(cfg[c], p).password = ""  BY <3>2, OnPort
    <3> QED  BY <3>1, <3>3
  <2>4. /\ Settled(EnableWebUI(ini, p).lines, p)
        /\ ~ EnableWebUI(ini, p).changed => Settled(ini, p)
    BY <1>1, EditTypes
  <2>5. pc'[c] = IF EnableWebUI(ini, p).changed THEN "cutini" ELSE "cutconfig"
    BY <1>1, <2>1 DEF GoTo
  <2>6. p # "none"  BY DEF Ports
  <2> HIDE DEF Ports
  <2>7. CASE EnableWebUI(ini, p).changed
    <3>1. pc'[c] = "cutini"  BY <2>5, <2>7
    <3> QED  BY <3>1, <2>2, <2>3, <2>4, <2>7 DEF InStep
  <2>8. CASE ~ EnableWebUI(ini, p).changed
    <3>1. pc'[c] = "cutconfig"  BY <2>5, <2>8
    <3> QED  BY <3>1, <2>2, <2>3, <2>4, <2>8 DEF InStep
  <2> QED  BY <2>7, <2>8
<1>7. ASSUME NEW c \in Commands, CutIni(c) PROVE InStep(c)'
  <2>1. /\ pc[c] = "cutini" /\ pc'[c] = "writeini"
        /\ UNCHANGED <<port, cfg, doc, updated>>
    BY <1>1, <1>7 DEF CutIni, GoTo
  <2> QED  BY <2>1 DEF FilesInv, InStep, InEffect
<1>8. ASSUME NEW c \in Commands, WriteIni(c) PROVE InStep(c)'
  <2>1. /\ pc[c] = "writeini" /\ pc'[c] = "cutconfig" /\ ini' = doc[c]
        /\ UNCHANGED <<port, cfg, doc, updated>>
    BY <1>1, <1>8 DEF WriteIni, GoTo
  <2> QED  BY <2>1 DEF FilesInv, InStep, InEffect
<1>9. ASSUME NEW c \in Commands, CutConfig(c) PROVE InStep(c)'
  <2>1. /\ pc[c] = "cutconfig" /\ pc'[c] = "writeconfig"
        /\ UNCHANGED <<ini, port, cfg, doc, updated>>
    BY <1>1, <1>9 DEF CutConfig, GoTo
  <2> QED  BY <2>1 DEF FilesInv, InStep, InEffect
<1>10. ASSUME NEW c \in Commands, WriteConfig(c) PROVE InStep(c)'
  <2>1. /\ pc[c] = "writeconfig"
        /\ pc'[c] \in {"build", "stop", "launch"} /\ (updated[c] => pc'[c] # "launch")
        /\ file'.text = cfg[c] /\ UNCHANGED <<ini, port, cfg, doc, updated>>
    BY <1>1, <1>10 DEF WriteConfig, WriteConfigThen, GoTo
  <2>2. Load(cfg[c]) = cfg[c]  BY <1>1, ConfigTypes
  <2>3. /\ port[c] \in Ports /\ cfg[c].url = port[c] /\ cfg[c].password = ""
        /\ Settled(ini, port[c])
    BY <2>1 DEF FilesInv, InStep, InEffect
  <2>4. /\ Load(file'.text).url = port[c] /\ Load(file'.text).password = ""
    BY <2>1, <2>2, <2>3
  <2> QED  BY <2>1, <2>3, <2>4 DEF InStep, InEffect
<1>11. ASSUME NEW c \in Commands, Refused(c) PROVE InStep(c)'
  <2>1. pc'[c] \in {"error", "build"} /\ port'[c] = "none"
    BY <1>1, <1>11 DEF Refused, GiveUp, GoTo
  <2> QED  BY <2>1 DEF InStep
<1>12. ASSUME NEW c \in Commands, Stop(c) PROVE InStep(c)'
  <2>1. /\ pc[c] = "stop" /\ pc'[c] \in {"launch", "killed"} /\ ~ program'.up
        /\ UNCHANGED <<file, ini, port, cfg, doc, updated>>
    BY <1>1, <1>12 DEF Stop, Stopped, GoTo
  <2> QED  BY <2>1 DEF FilesInv, InStep, InEffect
<1>13. ASSUME NEW c \in Commands, Launch(c) PROVE InStep(c)'
  <2>1. /\ pc[c] = "launch" /\ pc'[c] = "wait"
        /\ program' = IF program.up THEN program ELSE Running
        /\ UNCHANGED <<file, ini, port, cfg, doc, updated>>
    BY <1>1, <1>13 DEF Launch, GoTo
  <2>2. /\ port[c] \in Ports /\ cfg[c].url = port[c] /\ Settled(ini, port[c])
        /\ updated[c] => ~ program.up
    BY <2>1 DEF FilesInv, InStep, InEffect, Ports
  <2>3. Running = [up |-> TRUE, port |-> port[c]]  BY <1>1, <2>2, SettledReads
  <2>4. updated[c] => Reachable(cfg[c])'  BY <2>1, <2>2, <2>3 DEF Reachable
  <2> QED  BY <2>1, <2>4 DEF FilesInv, InStep, InEffect
<1>14. ASSUME NEW c \in Commands, Wait(c) PROVE InStep(c)'
  <2>1. /\ pc[c] = "wait" /\ pc'[c] = IF Reachable(cfg[c]) THEN "ok" ELSE "unreachable"
        /\ UNCHANGED <<file, ini, port, cfg, doc, updated>>
    BY <1>1, <1>14 DEF Wait, WaitThen, GoTo
  <2> QED  BY <2>1 DEF FilesInv, InStep, InEffect
<1>15. ASSUME NEW c \in Commands, Build(c) PROVE InStep(c)'
  <2>1. /\ pc[c] = "build" /\ pc'[c] \in {"up", "error"}
        /\ UNCHANGED <<file, ini, port, updated>>
    <3>1. GoTo(c, "up") \/ GoTo(c, "error")  BY <1>15 DEF Build
    <3> QED  BY <1>1, <1>15, <3>1 DEF Build, GoTo
  <2> QED  BY <2>1 DEF FilesInv, InStep, InEffect
<1>16. ASSUME NEW c \in Commands, Gone(c) PROVE InStep(c)'
  <2>1. pc'[c] = "idle" /\ port'[c] = "none"  BY <1>1, <1>16 DEF Gone, GoTo
  <2> QED  BY <2>1 DEF InStep
<1>17. ASSUME OperatorEdits PROVE FilesInv'
  <2>1. /\ \A c \in Commands : pc[c] = "idle"
        /\ UNCHANGED <<pc, port, updated>>
    BY <1>17 DEF OperatorEdits
  <2> QED  BY <2>1 DEF FilesInv, InStep, InEffect
<1>18. ASSUME ProgramStartsOrQuits PROVE FilesInv'
  <2>1. /\ \A c \in Commands : pc[c] \in {"idle", "up"}
        /\ UNCHANGED <<file, ini, pc, port, cfg, doc, updated>>
    BY <1>18 DEF ProgramStartsOrQuits, Quiet
  <2> QED  BY <2>1 DEF FilesInv, InStep, InEffect
<1>19. ASSUME UNCHANGED vars PROVE FilesInv'
  BY <1>19 DEF vars, FilesInv, InStep, InEffect, Reachable
<1>20. ASSUME NEW c \in Commands, Acts(c) PROVE InStep(c)'
  BY <1>20, <1>3, <1>4, <1>5, <1>6, <1>7, <1>8, <1>9, <1>10, <1>11, <1>12, <1>13, <1>14,
     <1>15, <1>16 DEF Acts, Write, Verify, Ends, Crash
<1> QED  BY <1>2, <1>17, <1>18, <1>19, <1>20 DEF Next, Acts

(* No command has begun.                                                   *)
LEMMA FilesInit == Init => FilesInv
BY DEF Init, FilesInv, InStep

(* A setup that changed the preferences does not end with a program that   *)
(* cannot be reached.                                                      *)
THEOREM SetupTakesEffect == Spec /\ []OneAtWork => []ChangeTakesEffect
<1>1. TypeOK /\ TypeOK' /\ OneAtWork /\ OneAtWork' /\ FilesInv /\ [Next]_vars => FilesInv'
  BY FilesStep
<1>2. FilesInv => ChangeTakesEffect  BY DEF FilesInv, InStep, ChangeTakesEffect
<1> QED  BY <1>1, <1>2, FilesInit, SetupTypes, PTL DEF Spec

(* What is about to be written is what was read, but for the four          *)
(* settings, and is not what was read.                                     *)
THEOREM SetupEditIsExact == Spec /\ []OneAtWork => []EditIsExact
<1>1. TypeOK /\ TypeOK' /\ OneAtWork /\ OneAtWork' /\ FilesInv /\ [Next]_vars => FilesInv'
  BY FilesStep
<1>2. TypeOK /\ FilesInv => EditIsExact
  <2> SUFFICES ASSUME TypeOK, FilesInv, NEW c \in Commands, pc[c] = "cutini"
               PROVE  /\ ValuesOf(doc[c]) = EditedValues(ini, port[c])
                      /\ LinesKept(ini, doc[c])
                      /\ doc[c] # ini
    BY DEF EditIsExact, EditedValues
  <2>1. /\ port[c] \in Ports /\ doc[c] = EnableWebUI(ini, port[c]).lines
        /\ EnableWebUI(ini, port[c]).changed
    BY DEF FilesInv, InStep
  <2>2. ini \in Seq(Lines)  BY DEF TypeOK
  <2>3. /\ doc[c] \in Seq(Lines) /\ Settled(doc[c], port[c])
        /\ \A t, m : t # "Preferences" \/ m \notin Settings =>
             \A line : Says(doc[c], t, m, line) <=> Says(ini, t, m, line)
        /\ LinesKept(ini, doc[c])
        /\ ~ Settled(ini, port[c])
    BY <2>1, <2>2, EditTypes
  <2>4. doc[c] # ini  BY <2>3
  <2>5. ValuesOf(doc[c]) = EditedValues(ini, port[c])
    BY <2>2, <2>3, ValuesOfEdit
  <2> QED  BY <2>3, <2>4, <2>5
<1> QED  BY <1>1, <1>2, FilesInit, SetupTypes, PTL DEF Spec

-----------------------------------------------------------------------------
(* That the files still agree when a service is up, or a setup has had its *)
(* answer, needs a single command: another one may by then be half way     *)
(* through writing them.                                                   *)
SoleCommand == \A c, d \in Commands : c = d
StaysInEffect == \A c \in Commands : port[c] # "none" /\ pc[c] \in {"up", "ok"} => InEffect(c)

LEMMA StaysStep ==
  ASSUME SoleCommand, TypeOK, TypeOK', FilesInv, StaysInEffect, [Next]_vars
  PROVE  StaysInEffect'
<1> USE DEF locals
<1>1. pc \in [Commands -> Steps] /\ port \in [Commands -> Ports \cup {"none"}]
  BY DEF TypeOK
<1>2. ASSUME NEW c \in Commands, port'[c] # "none" /\ pc'[c] \in {"up", "ok"} => InEffect(c)'
      PROVE  StaysInEffect'
  BY <1>2 DEF SoleCommand, StaysInEffect
<1>3. ASSUME NEW c \in Commands, Acts(c) PROVE StaysInEffect'
  <2>1. CASE BuildBegins(c)
    <3>1. pc'[c] \in {"probe", "build"}  BY <1>1, <2>1 DEF BuildBegins, GoTo
    <3> QED  BY <1>2, <3>1
  <2>2. CASE SetupBegins(c)
    <3>1. pc'[c] \in {"readini", "error"}
      BY <1>1, <2>2 DEF SetupBegins, SetupBeginsWith, GoTo
    <3> QED  BY <1>2, <3>1
  <2>3. CASE Write(c)
    <3>1. pc'[c] \notin {"up", "ok"}
      <4>1. CASE ReadIni(c)
        <5>1. \E p \in Ports :
                GoTo(c, IF EnableWebUI(ini, p).changed THEN "cutini" ELSE "cutconfig")
          BY <4>1, ReadIniDoes
        <5> QED  BY <1>1, <5>1 DEF GoTo
      <4>2. CASE WriteConfig(c)  BY <1>1, <4>2 DEF WriteConfig, WriteConfigThen, GoTo
      <4>3. CASE Probe(c)  BY <1>1, <4>3 DEF Probe, GoTo
      <4>4. CASE Refused(c)  BY <1>1, <4>4 DEF Refused, GiveUp, GoTo
      <4>5. CASE CutIni(c) \/ WriteIni(c) \/ CutConfig(c)
        BY <1>1, <4>5 DEF CutIni, WriteIni, CutConfig, GoTo
      <4> QED  BY <2>3, <4>1, <4>2, <4>3, <4>4, <4>5 DEF Write
    <3> QED  BY <1>2, <3>1
  <2>4. CASE Stop(c) \/ Launch(c)
    <3>1. pc'[c] \in {"launch", "killed", "wait"}  BY <1>1, <2>4 DEF Stop, Launch, GoTo
    <3> QED  BY <1>2, <3>1
  <2>5. CASE Wait(c)
    <3>1. pc[c] = "wait" /\ UNCHANGED <<file, ini, port>>  BY <2>5 DEF Wait, WaitThen
    <3> QED  BY <1>2, <3>1 DEF FilesInv, InStep, InEffect
  <2>6. CASE Build(c)
    <3>1. pc[c] = "build" /\ UNCHANGED <<file, ini, port>>  BY <2>6 DEF Build
    <3> QED  BY <1>2, <3>1 DEF FilesInv, InStep, InEffect
  <2>7. CASE Ends(c) \/ Crash(c)
    <3>1. pc'[c] = "idle"  BY <1>1, <2>7 DEF Ends, Crash, Gone, GoTo
    <3> QED  BY <1>2, <3>1
  <2> QED
    BY <1>3, <2>1, <2>2, <2>3, <2>4, <2>5, <2>6, <2>7 DEF Acts, Verify
<1>4. ASSUME OperatorEdits PROVE StaysInEffect'
  BY <1>4 DEF OperatorEdits, StaysInEffect
<1>5. ASSUME ProgramStartsOrQuits PROVE StaysInEffect'
  BY <1>5 DEF ProgramStartsOrQuits, StaysInEffect, InEffect
<1>6. ASSUME UNCHANGED vars PROVE StaysInEffect'
  BY <1>6 DEF vars, StaysInEffect, InEffect
<1> QED  BY <1>3, <1>4, <1>5, <1>6 DEF Next, Acts

(* A command that did its setup leaves the preferences and the             *)
(* configuration naming the same port, without a password.                 *)
THEOREM SetupFilesAgree ==
  ASSUME SoleCommand PROVE Spec => []FilesAgree
<1>1. OneAtWork /\ OneAtWork'  BY DEF SoleCommand, OneAtWork
<1>2. TypeOK /\ TypeOK' /\ FilesInv /\ [Next]_vars => FilesInv'  BY <1>1, FilesStep
<1>3. TypeOK /\ TypeOK' /\ FilesInv /\ StaysInEffect /\ [Next]_vars => StaysInEffect'
  BY StaysStep
<1>4. Init => StaysInEffect  BY DEF Init, StaysInEffect
<1>5. TypeOK /\ FilesInv /\ StaysInEffect => FilesAgree
  <2> SUFFICES ASSUME TypeOK, FilesInv, StaysInEffect, NEW c \in Commands, port[c] # "none",
                      pc[c] \in {"build", "up", "stop", "launch", "wait", "ok"}
               PROVE  /\ \A key \in Settings : IsPreference(key, Wanted(port[c])[key])
                      /\ Load(file.text).url = port[c] /\ Load(file.text).password = ""
    BY DEF FilesAgree
  <2>1. InEffect(c)  BY DEF FilesInv, InStep, StaysInEffect
  <2>2. ini \in Seq(Lines)  BY DEF TypeOK
  <2> QED  BY <2>1, <2>2, SettledReads DEF InEffect
<1> QED  BY <1>2, <1>3, <1>4, <1>5, FilesInit, SetupTypes, PTL DEF Spec

=============================================================================

------------------------ MODULE SnapshotStoreProofs ------------------------
(***************************************************************************)
(* Proofs about SnapshotStore, for any threads, objects, directories,      *)
(* payloads, calls, crashes and failed writes.                             *)
(***************************************************************************)
EXTENDS SnapshotStore, SequenceTheorems, TLAPS

-----------------------------------------------------------------------------
(* Facts about journals.                                                   *)

\* The lines that speak about an object.
About(l, o) ==
  {i \in 1..Len(l) : l[i].type \in {"OBJECT_COMMITTED", "OBJECT_REMOVED"} /\ l[i].obj = o}

\* Two journals say the same of an object.
SameLines(l, m, o) == About(m, o) = About(l, o) /\ \A i \in About(l, o) : m[i] = l[i]

\* Journal m has the same commits of an object as l, and what l tells of it holds.
SameCommits(l, m, o) ==
  /\ Commits(m, o) = Commits(l, o)
  /\ \A i \in Commits(l, o) : m[i] = l[i]

\* Version of a journal line.
VersionOf(r) == [rev |-> r.rev, payload |-> r.payload]

\* An object with commits has a latest one.
HasLatest(l, o) == Commits(l, o) # {} => \E i \in Commits(l, o) : IsLatest(l, o, i)

\* No two commits of an object have the same revision, and none has revision zero.
Numbered(l, o) ==
  \A i, j \in Commits(l, o) : l[i].rev >= 1 /\ (l[i].rev = l[j].rev => i = j)

\* The journal has a commit of an object with version v.
HasCommit(v, l, o) == \E i \in Commits(l, o) : VersionOf(l[i]) = v

\* A version an object has or had, or none.
IsVersion(v, l, o) == v = Absent \/ HasCommit(v, l, o)

\* The last line about an object is a removal.
EndsRemoved(l, o) ==
  \E i \in About(l, o) : l[i].type = "OBJECT_REMOVED" /\ \A j \in About(l, o) : j <= i

\* Journal m is journal l with one more line.
Grown(l, r, m) ==
  /\ m \in Seq(Line)
  /\ Len(l) \in Nat
  /\ Len(m) = Len(l) + 1
  /\ m[Len(l) + 1] = r
  /\ \A i \in 1..Len(l) : m[i] = l[i]

\* A journal without torn or garbled lines.
Clean(l) == \A i \in 1..Len(l) : ~Bad(l[i])

\* A commit is a line about its object.
LEMMA CommitsAreAbout ==
  ASSUME NEW l, NEW o PROVE Commits(l, o) = {i \in About(l, o) : l[i].type = "OBJECT_COMMITTED"}
  BY DEF Commits, About

\* The choices among the lines of a journal find one where there is one.  These lemmas
\* are Zenon's, and the choices are never expanded elsewhere.
LEMMA LatestCommitIs ==
  ASSUME NEW l, NEW o, NEW i \in Commits(l, o), IsLatest(l, o, i)
  PROVE  LatestCommit(l, o) \in Commits(l, o) /\ IsLatest(l, o, LatestCommit(l, o))
  BY Zenon DEF LatestCommit

LEMMA TopCommitIs ==
  ASSUME NEW l, NEW o, NEW i \in Commits(l, o), \A j \in Commits(l, o) : l[j].rev <= l[i].rev
  PROVE  /\ TopCommit(l, o) \in Commits(l, o)
         /\ \A j \in Commits(l, o) : l[j].rev <= l[TopCommit(l, o)].rev
  BY Zenon DEF TopCommit

LEMMA LastAboutIs ==
  ASSUME NEW l, NEW o, NEW i \in About(l, o), \A j \in About(l, o) : j <= i
  PROVE  /\ LastAbout(l, o) \in About(l, o)
         /\ \A j \in About(l, o) : j <= LastAbout(l, o)
  BY Zenon DEF LastAbout, About

\* So does the scan of the index, while a snapshot is left to read.
LEMMA NextFileIs ==
  ASSUME NEW t, \E o \in Objects : scan[t][o] = Unread
  PROVE  NextFile(t) \in Objects
  BY Zenon DEF NextFile

\* The latest version is the one of the line recover() keeps.
LEMMA LatestIs ==
  ASSUME NEW l \in Seq(Line), NEW o \in Objects, NEW i \in Commits(l, o), IsLatest(l, o, i)
  PROVE  /\ Latest(l, o) = VersionOf(l[i])
         /\ TopRevision(l, o) = l[i].rev
         /\ l[i].rev \in Nat
<1>. DEFINE P(x) == \A j \in Commits(l, o) : /\ l[j].rev <= l[x].rev
                                             /\ l[j].rev = l[x].rev => x <= j
            Q(x) == \A j \in Commits(l, o) : l[j].rev <= l[x].rev
            c == LatestCommit(l, o)
            d == TopCommit(l, o)
<1>1. Commits(l, o) # {} /\ Commits(l, o) \subseteq 1..Len(l) /\ P(i) /\ Q(i)
  BY DEF IsLatest, Commits
<1>2. \A j \in Commits(l, o) : l[j].rev \in Nat /\ j \in Nat
  <2>1. \A j \in 1..Len(l) : l[j] \in Line
    BY ElementOfSeq
  <2>. QED
    BY <1>1, <2>1 DEF Line
<1>3. c \in Commits(l, o) /\ P(c)
  BY LatestCommitIs DEF IsLatest
<1>4. d \in Commits(l, o) /\ Q(d)
  BY <1>1, TopCommitIs
<1>5. l[c].rev <= l[i].rev /\ l[i].rev <= l[c].rev
  BY <1>1, <1>3
<1>6. l[c].rev = l[i].rev
  BY <1>2, <1>3, <1>5
<1>7. c <= i /\ i <= c
  BY <1>1, <1>3, <1>6
<1>8. c = i
  BY <1>2, <1>3, <1>7
<1>9. l[d].rev <= l[i].rev /\ l[i].rev <= l[d].rev
  BY <1>1, <1>4
<1>10. l[d].rev = l[i].rev
  BY <1>2, <1>4, <1>9
<1>11. Latest(l, o) = [rev |-> l[c].rev, payload |-> l[c].payload]
  BY <1>1 DEF Latest
<1>12. TopRevision(l, o) = l[d].rev
  BY <1>1 DEF TopRevision
<1>. QED
  BY <1>1, <1>2, <1>8, <1>10, <1>11, <1>12 DEF VersionOf

\* What recover() keeps of an object is a version, and no commit is newer.
LEMMA LatestFacts ==
  ASSUME NEW l \in Seq(Line), NEW o \in Objects, HasLatest(l, o)
  PROVE  /\ Latest(l, o) \in Version
         /\ TopRevision(l, o) = Latest(l, o).rev
         /\ IsVersion(Latest(l, o), l, o)
         /\ \A j \in Commits(l, o) : l[j].rev \in Nat /\ l[j].rev <= Latest(l, o).rev
         /\ Commits(l, o) = {} => Latest(l, o) = Absent
         /\ Numbered(l, o) /\ Commits(l, o) # {} => Latest(l, o).rev >= 1
<1>1. CASE Commits(l, o) = {}
  <2>1. Latest(l, o) = Absent /\ TopRevision(l, o) = 0
    BY <1>1 DEF Latest, TopRevision
  <2>. QED
    BY <1>1, <2>1 DEF Absent, Version, IsVersion, HasCommit
<1>2. CASE Commits(l, o) # {}
  <2>1. PICK i \in Commits(l, o) : IsLatest(l, o, i)
    BY <1>2 DEF HasLatest
  <2>2. Latest(l, o) = VersionOf(l[i]) /\ TopRevision(l, o) = l[i].rev
    BY <2>1, LatestIs
  <2>3. \A j \in Commits(l, o) : l[j] \in Line
    BY ElementOfSeq DEF Commits
  <2>4. \A j \in Commits(l, o) : l[j].rev \in Nat /\ l[j].payload \in Payloads \cup {None}
    BY <2>3 DEF Line
  <2>5. \A j \in Commits(l, o) : l[j].rev <= l[i].rev
    BY <2>1 DEF IsLatest
  <2>. QED
    BY <1>2, <2>1, <2>2, <2>4, <2>5 DEF VersionOf, Version, IsVersion, HasCommit, Numbered
<1>. QED
  BY <1>1, <1>2

\* Journals with the same commits have the same latest versions.
LEMMA SameCommitsFacts ==
  ASSUME NEW l \in Seq(Line), NEW m \in Seq(Line), NEW o \in Objects,
         SameCommits(l, m, o), HasLatest(l, o)
  PROVE  /\ HasLatest(m, o)
         /\ Latest(m, o) = Latest(l, o)
         /\ Numbered(l, o) => Numbered(m, o)
         /\ \A v : IsVersion(v, l, o) => IsVersion(v, m, o)
<1>2. Commits(m, o) = Commits(l, o) /\ \A i \in Commits(l, o) : m[i] = l[i]
  BY DEF SameCommits
<1>3. HasLatest(m, o)
  BY <1>2 DEF HasLatest, IsLatest
<1>4. Latest(m, o) = Latest(l, o)
  <2>1. CASE Commits(l, o) = {}
    BY <1>2, <2>1 DEF Latest
  <2>2. CASE Commits(l, o) # {}
    <3>1. PICK i \in Commits(l, o) : IsLatest(l, o, i)
      BY <2>2 DEF HasLatest
    <3>2. i \in Commits(m, o) /\ IsLatest(m, o, i) /\ m[i] = l[i]
      BY <1>2, <3>1 DEF IsLatest
    <3>3. Latest(l, o) = VersionOf(l[i])
      BY <3>1, LatestIs
    <3>4. Latest(m, o) = VersionOf(m[i])
      BY <3>2, LatestIs
    <3>. QED
      BY <3>2, <3>3, <3>4
  <2>. QED
    BY <2>1, <2>2
<1>5. Numbered(l, o) => Numbered(m, o)
  BY <1>2 DEF Numbered
<1>6. \A v : IsVersion(v, l, o) => IsVersion(v, m, o)
  BY <1>2 DEF IsVersion, HasCommit
<1>. QED
  BY <1>3, <1>4, <1>5, <1>6

\* Journals that say the same of an object have the same commits of it.
LEMMA SameLinesFacts ==
  ASSUME NEW l, NEW m, NEW o, SameLines(l, m, o)
  PROVE  SameCommits(l, m, o) /\ (EndsRemoved(l, o) => EndsRemoved(m, o))
  BY CommitsAreAbout DEF SameLines, SameCommits, EndsRemoved

\* Of a readable journal only the last line can be bad.
LEMMA OnlyLastIsBad ==
  ASSUME NEW l \in Seq(Line), Readable(l), NEW i \in 1..Len(l), Bad(l[i])
  PROVE  i = Len(l)
  BY DEF Readable

\* Dropping a bad last line leaves a journal that says the same.
LEMMA TrimFacts ==
  ASSUME NEW l \in Seq(Line)
  PROVE  /\ Trim(l) \in Seq(Line)
         /\ \A o \in Objects : SameLines(l, Trim(l), o)
         /\ Readable(l) => Clean(Trim(l))
         /\ Clean(l) => Trim(l) = l
<1>0. /\ Len(l) \in Nat /\ DOMAIN l = 1..Len(l) /\ \A i \in 1..Len(l) : l[i] \in Line
  BY LenProperties, ElementOfSeq
<1>1. CASE Len(l) > 0 /\ Bad(l[Len(l)])
  <2>. DEFINE m == SubSeq(l, 1, Len(l) - 1)
  <2>1. Trim(l) = m
    BY <1>1 DEF Trim
  <2>2. m \in Seq(Line) /\ Len(m) = Len(l) - 1 /\ \A i \in 1..(Len(l) - 1) : m[i] = l[i]
    <3>1. \A i \in 1..(Len(l) - 1) : l[i] \in Line
      BY <1>0
    <3>2. Len(m) = IF 1 <= Len(l) - 1 THEN (Len(l) - 1) - 1 + 1 ELSE 0
      BY <1>0, <1>1, <3>1, SubSeqProperties
    <3>3. \A i \in 1..((Len(l) - 1) - 1 + 1) : m[i] = l[1 + i - 1]
      BY <1>0, <1>1, <3>1, SubSeqProperties
    <3>4. m \in Seq(Line)
      BY <1>0, <1>1, <3>1, SubSeqProperties
    <3>. QED
      BY <1>0, <1>1, <3>2, <3>3, <3>4
  <2>3. \A o \in Objects : SameLines(l, m, o)
    <3>. SUFFICES ASSUME NEW o \in Objects
                  PROVE  About(m, o) = About(l, o) /\ \A i \in About(l, o) : m[i] = l[i]
      BY DEF SameLines
    <3>1. l[Len(l)].type \notin {"OBJECT_COMMITTED", "OBJECT_REMOVED"}
      BY <1>1 DEF Bad
    <3>2. About(l, o) \subseteq 1..(Len(l) - 1)
      BY <1>0, <3>1 DEF About
    <3>. QED
      BY <1>0, <2>2, <3>2 DEF About
  <2>4. Readable(l) => Clean(m)
    <3>. SUFFICES ASSUME Readable(l), NEW i \in 1..Len(m) PROVE ~Bad(m[i])
      BY DEF Clean
    <3>1. Len(m) = Len(l) - 1 /\ m[i] = l[i]
      BY <2>2
    <3>2. i \in 1..Len(l) /\ i # Len(l)
      <4>1. Len(l) \in Nat /\ Len(m) = Len(l) - 1
        BY <1>0, <3>1
      <4>. HIDE DEF m
      <4>. QED
        BY <4>1
    <3>3. ~Bad(l[i])
      BY <3>2, OnlyLastIsBad
    <3>. QED
      BY <3>1, <3>3
  <2>5. ~Clean(l)
    BY <1>0, <1>1 DEF Clean
  <2>. QED
    BY <2>1, <2>2, <2>3, <2>4, <2>5
<1>2. CASE ~(Len(l) > 0 /\ Bad(l[Len(l)]))
  <2>1. Trim(l) = l
    BY <1>2 DEF Trim
  <2>2. Readable(l) => Clean(l)
    <3>. SUFFICES ASSUME Readable(l), NEW i \in 1..Len(l) PROVE ~Bad(l[i])
      BY DEF Clean
    <3>1. Len(l) > 0
      BY <1>0
    <3>. QED
      BY <1>2, <3>1, OnlyLastIsBad
  <2>. QED
    BY <2>1, <2>2 DEF SameLines
<1>. QED
  BY <1>1, <1>2

\* The last line about an object, when that is a removal.
LEMMA EndsRemovedIs ==
  ASSUME NEW l \in Seq(Line), NEW o \in Objects, EndsRemoved(l, o)
  PROVE  LastLine(l, o).type = "OBJECT_REMOVED"
<1>. DEFINE c == LastAbout(l, o)
<1>1. PICK i \in About(l, o) : l[i].type = "OBJECT_REMOVED" /\ \A j \in About(l, o) : j <= i
  BY DEF EndsRemoved
<1>2. c \in About(l, o) /\ \A j \in About(l, o) : j <= c
  BY <1>1, LastAboutIs
<1>3. c <= i /\ i <= c
  BY <1>1, <1>2
<1>4. i \in Int /\ c \in Int
  <2>1. About(l, o) \subseteq Int
    BY DEF About
  <2>. QED
    BY <1>1, <1>2, <2>1
<1>5. c = i
  BY <1>3, <1>4
<1>6. LastLine(l, o) = l[c]
  BY DEF LastLine
<1>. QED
  BY <1>1, <1>5, <1>6

\* Append adds one line.
LEMMA AppendGrows ==
  ASSUME NEW l \in Seq(Line), NEW r \in Line
  PROVE  Grown(l, r, Append(l, r))
<1>1. Len(l) \in Nat
  BY LenProperties
<1>. QED
  BY <1>1, AppendProperties DEF Grown

\* A line that says nothing of an object leaves what the journal says of it.
LEMMA GrownOther ==
  ASSUME NEW l \in Seq(Line), NEW r \in Line, NEW m, Grown(l, r, m), NEW o \in Objects,
         r.obj = o => r.type \notin {"OBJECT_COMMITTED", "OBJECT_REMOVED"}
  PROVE  SameLines(l, m, o)
<1>1. /\ Len(l) \in Nat /\ Len(m) = Len(l) + 1 /\ m[Len(l) + 1] = r
      /\ \A i \in 1..Len(l) : m[i] = l[i]
  BY DEF Grown
<1>2. About(m, o) = About(l, o)
  <2>1. \A i : i \in 1..Len(m) <=> i \in 1..Len(l) \/ i = Len(l) + 1
    BY <1>1
  <2>. QED
    BY <1>1, <2>1 DEF About
<1>3. \A i \in About(l, o) : m[i] = l[i]
  BY <1>1 DEF About
<1>. QED
  BY <1>2, <1>3 DEF SameLines

\* A line that is no commit of an object leaves its commits.
LEMMA GrownNoCommit ==
  ASSUME NEW l \in Seq(Line), NEW r \in Line, NEW m, Grown(l, r, m), NEW o \in Objects,
         r.obj = o => r.type # "OBJECT_COMMITTED"
  PROVE  SameCommits(l, m, o)
<1>1. /\ Len(l) \in Nat /\ Len(m) = Len(l) + 1 /\ m[Len(l) + 1] = r
      /\ \A i \in 1..Len(l) : m[i] = l[i]
  BY DEF Grown
<1>2. Commits(m, o) = Commits(l, o)
  <2>1. \A i : i \in 1..Len(m) <=> i \in 1..Len(l) \/ i = Len(l) + 1
    BY <1>1
  <2>. QED
    BY <1>1, <2>1 DEF Commits
<1>3. \A i \in Commits(l, o) : m[i] = l[i]
  BY <1>1 DEF Commits
<1>. QED
  BY <1>2, <1>3 DEF SameCommits

\* After the append of a removal the last line about the object is that removal.
LEMMA GrownByRemoval ==
  ASSUME NEW l \in Seq(Line), NEW r \in Line, NEW m, Grown(l, r, m), r.type = "OBJECT_REMOVED"
  PROVE  EndsRemoved(m, r.obj)
<1>1. Len(l) \in Nat /\ Len(m) = Len(l) + 1 /\ m[Len(l) + 1] = r
  BY DEF Grown
<1>2. Len(l) + 1 \in About(m, r.obj)
  BY <1>1 DEF About
<1>3. \A j \in About(m, r.obj) : j <= Len(l) + 1
  BY <1>1 DEF About
<1>4. m[Len(l) + 1].type = "OBJECT_REMOVED"
  BY <1>1
<1>. QED
  BY <1>2, <1>3, <1>4 DEF EndsRemoved

\* The commits after the append of a commit.
LEMMA GrownCommits ==
  ASSUME NEW l \in Seq(Line), NEW r \in Line, NEW m, Grown(l, r, m),
         r.type = "OBJECT_COMMITTED", NEW n, n = Len(l) + 1
  PROVE  /\ Commits(m, r.obj) = Commits(l, r.obj) \cup {n}
         /\ \A i \in Commits(l, r.obj) : m[i] = l[i] /\ i < n /\ i \in Nat
         /\ n \in Nat
         /\ m[n] = r
<1>1. /\ Len(l) \in Nat /\ Len(m) = n /\ m[n] = r
      /\ \A i \in 1..Len(l) : m[i] = l[i]
  BY DEF Grown
<1>2. Commits(m, r.obj) = Commits(l, r.obj) \cup {n}
  <2>1. \A i : i \in 1..Len(m) <=> i \in 1..Len(l) \/ i = n
    BY <1>1
  <2>. QED
    BY <1>1, <2>1 DEF Commits
<1>3. \A i \in Commits(l, r.obj) : m[i] = l[i] /\ i < n /\ i \in Nat
  <2>1. \A i \in Commits(l, r.obj) : i \in 1..Len(l)
    BY DEF Commits
  <2>. QED
    BY <1>1, <2>1
<1>. QED
  BY <1>1, <1>2, <1>3

\* Revisions of commits are numbers.
LEMMA CommitRevs ==
  ASSUME NEW l \in Seq(Line), NEW o
  PROVE  \A i \in Commits(l, o) : l[i].rev \in Nat /\ i \in Nat
<1>1. \A i \in Commits(l, o) : l[i] \in Line /\ i \in Nat
  BY ElementOfSeq DEF Commits
<1>. QED
  BY <1>1 DEF Line

\* An append keeps that there is a latest commit.
LEMMA GrownKeepsLatest ==
  ASSUME NEW l \in Seq(Line), NEW r \in Line, NEW m, Grown(l, r, m), NEW o \in Objects,
         HasLatest(l, o)
  PROVE  HasLatest(m, o)
<1>1. CASE r.obj = o => r.type # "OBJECT_COMMITTED"
  <2>1. m \in Seq(Line) /\ SameCommits(l, m, o)
    BY <1>1, GrownNoCommit DEF Grown
  <2>. QED
    BY <2>1, SameCommitsFacts
<1>2. CASE r.obj = o /\ r.type = "OBJECT_COMMITTED"
  <2>. SUFFICES ASSUME NEW n, n = Len(l) + 1 PROVE HasLatest(m, o)
    OBVIOUS
  <2>1. /\ Commits(m, o) = Commits(l, o) \cup {n} /\ n \in Nat /\ m[n] = r
        /\ \A i \in Commits(l, o) : m[i] = l[i] /\ i < n /\ i \in Nat
    BY <1>2, GrownCommits
  <2>2. r.rev \in Nat /\ \A i \in Commits(l, o) : l[i].rev \in Nat
    BY CommitRevs DEF Line
  <2>3. CASE \A i \in Commits(l, o) : l[i].rev < r.rev
    <3>1. IsLatest(m, o, n)
      BY <2>1, <2>2, <2>3 DEF IsLatest
    <3>. QED
      BY <2>1, <3>1 DEF HasLatest
  <2>4. CASE \E i \in Commits(l, o) : ~(l[i].rev < r.rev)
    <3>1. PICK i \in Commits(l, o) : IsLatest(l, o, i)
      BY <2>4 DEF HasLatest
    <3>2. r.rev <= l[i].rev
      BY <2>2, <2>4, <3>1 DEF IsLatest
    <3>3. IsLatest(m, o, i)
      BY <2>1, <2>2, <3>1, <3>2 DEF IsLatest
    <3>. QED
      BY <2>1, <3>1, <3>3 DEF HasLatest
  <2>. QED
    BY <2>3, <2>4
<1>. QED
  BY <1>1, <1>2

\* The append of the next revision of an object.
LEMMA GrownByNextRevision ==
  ASSUME NEW l \in Seq(Line), NEW r \in Line, NEW m, Grown(l, r, m), NEW o \in Objects,
         r.type = "OBJECT_COMMITTED", r.obj = o,
         HasLatest(l, o), Numbered(l, o), r.rev = Latest(l, o).rev + 1
  PROVE  /\ Latest(m, o) = VersionOf(r)
         /\ Numbered(m, o)
         /\ \A v : IsVersion(v, l, o) => IsVersion(v, m, o)
         /\ \E i \in Commits(m, o) : m[i] = r
         /\ \A i \in Commits(l, o) : i \in Commits(m, o) /\ m[i] = l[i]
<1>. SUFFICES ASSUME NEW n, n = Len(l) + 1
              PROVE  /\ Latest(m, o) = VersionOf(r)
                     /\ Numbered(m, o)
                     /\ \A v : IsVersion(v, l, o) => IsVersion(v, m, o)
                     /\ \E i \in Commits(m, o) : m[i] = r
                     /\ \A i \in Commits(l, o) : i \in Commits(m, o) /\ m[i] = l[i]
  OBVIOUS
<1>1. /\ Commits(m, o) = Commits(l, o) \cup {n} /\ n \in Nat /\ m[n] = r
      /\ \A i \in Commits(l, o) : m[i] = l[i] /\ i < n /\ i \in Nat
  BY GrownCommits
<1>2. m \in Seq(Line)
  BY DEF Grown
<1>3. Latest(l, o).rev \in Nat /\ \A i \in Commits(l, o) : l[i].rev \in Nat /\ l[i].rev <= Latest(l, o).rev
  BY LatestFacts DEF Version
<1>4. r.rev \in Nat /\ r.rev >= 1 /\ \A i \in Commits(l, o) : l[i].rev < r.rev
  BY <1>3
<1>5. IsLatest(m, o, n)
  BY <1>1, <1>3, <1>4 DEF IsLatest
<1>6. Latest(m, o) = VersionOf(r)
  BY <1>1, <1>2, <1>5, LatestIs
<1>7. Numbered(m, o)
  <2>. SUFFICES ASSUME NEW i \in Commits(m, o), NEW j \in Commits(m, o)
                PROVE  m[i].rev >= 1 /\ (m[i].rev = m[j].rev => i = j)
    BY DEF Numbered
  <2>2. CASE i \in Commits(l, o) /\ j \in Commits(l, o)
    BY <1>1, <2>2 DEF Numbered
  <2>3. CASE i = n /\ j \in Commits(l, o)
    BY <1>1, <1>3, <1>4, <2>3
  <2>4. CASE i \in Commits(l, o) /\ j = n
    BY <1>1, <1>3, <1>4, <2>4 DEF Numbered
  <2>5. CASE i = n /\ j = n
    BY <1>1, <1>4, <2>5
  <2>. QED
    BY <1>1, <2>2, <2>3, <2>4, <2>5
<1>8. \A v : IsVersion(v, l, o) => IsVersion(v, m, o)
  BY <1>1 DEF IsVersion, HasCommit
<1>. QED
  BY <1>1, <1>6, <1>7, <1>8

\* What append_record does to a journal: it adds a line, or spoils a torn one.
LEMMA AppendLineFacts ==
  ASSUME NEW l \in Seq(Line), NEW r \in Line
  PROVE  /\ AppendLine(l, r) \in Seq(Line)
         /\ Clean(l) => Grown(l, r, AppendLine(l, r))
         /\ \A o \in Objects : HasLatest(l, o) => HasLatest(AppendLine(l, r), o)
<1>1. Len(l) \in Nat
  BY LenProperties
<1>2. CASE Len(l) > 0 /\ l[Len(l)].type = "TORN"
  <2>. DEFINE q == [r EXCEPT !.type = IF r.type = "TORN" THEN "TORN" ELSE "GARBLED"]
              m == [l EXCEPT ![Len(l)] = q]
  <2>1. AppendLine(l, r) = m
    BY <1>2 DEF AppendLine
  <2>2. q \in Line /\ q.type \in {"TORN", "GARBLED"}
    BY DEF Line, LineType
  <2>. HIDE DEF q
  <2>3. m \in Seq(Line) /\ Len(m) = Len(l) /\ m[Len(l)] = q /\ \A i \in 1..Len(l) : i # Len(l) => m[i] = l[i]
    <3>1. Len(l) \in 1..Len(l)
      BY <1>1, <1>2
    <3>. QED
      BY <2>2, <3>1, ExceptSeq
  <2>4. ~Clean(l)
    BY <1>1, <1>2 DEF Clean, Bad
  <2>. HIDE DEF m
  <2>5. \A o \in Objects : SameCommits(l, m, o)
    <3>. SUFFICES ASSUME NEW o \in Objects
                  PROVE  Commits(m, o) = Commits(l, o) /\ \A i \in Commits(l, o) : m[i] = l[i]
      BY DEF SameCommits
    <3>1. Len(l) \notin Commits(l, o) /\ Len(l) \notin Commits(m, o)
      BY <1>2, <2>2, <2>3 DEF Commits
    <3>2. \A i \in 1..Len(l) : i \in Commits(m, o) <=> i \in Commits(l, o)
      BY <2>3, <3>1 DEF Commits
    <3>3. Commits(m, o) \subseteq 1..Len(l) /\ Commits(l, o) \subseteq 1..Len(l)
      BY <2>3 DEF Commits
    <3>. QED
      BY <2>3, <3>1, <3>2, <3>3
  <2>. QED
    BY <2>1, <2>3, <2>4, <2>5, SameCommitsFacts
<1>3. CASE ~(Len(l) > 0 /\ l[Len(l)].type = "TORN")
  <2>1. AppendLine(l, r) = Append(l, r)
    BY <1>3 DEF AppendLine
  <2>2. Grown(l, r, AppendLine(l, r))
    BY <2>1, AppendGrows
  <2>3. AppendLine(l, r) \in Seq(Line)
    BY <2>2 DEF Grown
  <2>. QED
    BY <2>2, <2>3, GrownKeepsLatest
<1>. QED
  BY <1>2, <1>3

\* The end of a clean journal after an append.
LEMMA GrownClean ==
  ASSUME NEW l \in Seq(Line), NEW r \in Line, NEW m, Grown(l, r, m), Clean(l)
  PROVE  Readable(m) /\ (~Bad(r) => Clean(m))
<1>1. /\ Len(l) \in Nat /\ Len(m) = Len(l) + 1 /\ m[Len(l) + 1] = r
      /\ \A i \in 1..Len(l) : m[i] = l[i]
  BY DEF Grown
<1>2. \A i \in 1..Len(m) : i = Len(m) \/ ~Bad(m[i])
  <2>1. \A i \in 1..Len(m) : i = Len(m) \/ i \in 1..Len(l)
    BY <1>1
  <2>. QED
    BY <1>1, <2>1 DEF Clean
<1>3. ~Bad(r) => \A i \in 1..Len(m) : ~Bad(m[i])
  BY <1>1, <1>2
<1>. QED
  BY <1>2, <1>3 DEF Readable, Clean

-----------------------------------------------------------------------------
(* The invariant.                                                          *)

\* The journal of an object.
Lines(o) == log[TaskOf[o]]

\* Threads inside the lock of their directory, and only they, hold it; a process that
\* does not serve runs no thread.
LockInv ==
  /\ \A t \in Threads : pc[t] \in {"append", "apply", "scan"} => lock[Journal(t)] = t
  /\ \A k \in Tasks : lock[k] # None =>
       pc[lock[k]] \in {"append", "apply", "scan"} /\ Journal(lock[k]) = k
  /\ mode # "up" => \A t \in Threads : pc[t] = "idle"

\* The recovery, and put, always find a line to keep.
LatestInv == \A k \in Tasks, o \in Objects : HasLatest(log[k], o)

\* What a put writes is a payload; only a scanning thread has read snapshots.
RequestInv ==
  \A t \in Threads : /\ pc[t] # "idle" /\ op[t].kind = "put" => op[t].payload \in Payloads
                     /\ pc[t] # "scan" => scan[t] = NoScan

\* Only a stopped process leaves a torn line, at the end of a journal.
JournalInv ==
  /\ mode # "failed"
  /\ \A k \in Tasks :
       /\ Readable(log[k])
       /\ mode = "up" \/ (mode = "recovering" /\ k \in replayed) => Clean(log[k])

\* The commits of an object are numbered, and its snapshot is one of them.
VersionInv ==
  \A o \in Objects : Numbered(Lines(o), o) /\ IsVersion(snap[o], Lines(o), o)

\* The snapshot shows the last commit, or the object was removed.
Shown(o) ==
  snap[o] = Latest(Lines(o), o) \/ (snap[o] = Absent /\ EndsRemoved(Lines(o), o))

Applying(o) == \E t \in Threads : pc[t] = "apply" /\ op[t].obj = o

\* Only between the append and the write of the snapshot an object is behind its
\* journal while the store serves.
ShownInv ==
  \A o \in Objects :
    /\ mode = "up" => Applying(o) \/ Shown(o)
    /\ mode = "recovering" /\ o \in rebuilt => snap[o] = Latest(Lines(o), o)

\* What a thread inside put or delete knows of the object it writes.
ThreadInv(t) ==
  LET o == op[t].obj IN
  /\ pc[t] # "idle" => IsVersion(op[t].seen, Lines(o), o)
  /\ pc[t] \in {"append", "apply"} =>
       /\ snap[o] = op[t].seen
       /\ op[t].kind = "delete" => snap[o] # Absent
  /\ pc[t] = "append" /\ op[t].kind = "put" => op[t].rev = Latest(Lines(o), o).rev + 1
  /\ pc[t] = "apply" /\ op[t].kind = "put" =>
       Latest(Lines(o), o) = [rev |-> op[t].rev, payload |-> op[t].payload]
  /\ pc[t] = "apply" /\ op[t].kind = "delete" =>
       snap[o] = Latest(Lines(o), o) /\ EndsRemoved(Lines(o), o)
  /\ pc[t] \in {"apply", "scan"} /\ op[t].kind = "put" =>
       HasCommit([rev |-> op[t].rev, payload |-> op[t].payload], Lines(o), o)

\* With one directory, a scan under its lock reads the snapshots as they are.
IndexInv ==
  (\A j, k \in Tasks : j = k) =>
    /\ mode = "up" /\ (\A k \in Tasks : ~Held(k)) => index = snap
    /\ \A t \in Threads : pc[t] = "scan" =>
         \A o \in Objects : scan[t][o] \in {Unread, snap[o]}

\* What holds until a write fails under a living process.
SoundInv ==
  /\ JournalInv
  /\ VersionInv
  /\ ShownInv
  /\ \A t \in Threads : ThreadInv(t)
  /\ AckedCommitsAreDurable
  /\ IndexInv

IInv == TypeOK /\ LockInv /\ LatestInv /\ RequestInv /\ (ioErrors = 0 => SoundInv)

-----------------------------------------------------------------------------
(* Types, locks and journals, whatever writes fail.                        *)

\* The line of a put or delete, complete or torn, and the directory it goes to.
LEMMA EventIsLine ==
  ASSUME TypeOK, NEW t \in Threads, pc[t] # "idle"
  PROVE  /\ Event(t) \in Line
         /\ [Event(t) EXCEPT !.type = "TORN"] \in Line
         /\ Journal(t) \in Tasks
         /\ op[t] \in Op
<1>1. op[t] \in Op
  BY DEF TypeOK
<1>2. op[t].obj \in Objects /\ op[t].rev \in Nat /\ op[t].payload \in Payloads \cup {None}
  BY <1>1 DEF Op
<1>3. op[t].seen.payload \in Payloads \cup {None}
  BY <1>1 DEF Op, Version
<1>4. Event(t) \in Line
  BY <1>2, <1>3 DEF Event, Line, LineType
<1>5. [Event(t) EXCEPT !.type = "TORN"] \in Line
  BY <1>4 DEF Line, LineType
<1>6. Journal(t) \in Tasks
  BY <1>2, ConstAssumption DEF Journal
<1>. QED
  BY <1>1, <1>4, <1>5, <1>6

\* What a step does to the journals: nothing, a truncation, or an append.
JournalStep ==
  \/ log' = log
  \/ \E k \in Tasks : log' = [log EXCEPT ![k] = Trim(log[k])]
  \/ \E k \in Tasks, r \in Line : log' = [log EXCEPT ![k] = AppendLine(log[k], r)]

\* These keep the type of the journals, and that recovery finds what to keep.
LEMMA JournalStepFacts ==
  ASSUME log \in [Tasks -> Seq(Line)], LatestInv, JournalStep
  PROVE  log' \in [Tasks -> Seq(Line)] /\ LatestInv'
<1>1. CASE log' = log
  BY <1>1 DEF LatestInv
<1>2. ASSUME NEW k \in Tasks, log' = [log EXCEPT ![k] = Trim(log[k])]
      PROVE  log' \in [Tasks -> Seq(Line)] /\ LatestInv'
  <2>1. log[k] \in Seq(Line)
    OBVIOUS
  <2>2. Trim(log[k]) \in Seq(Line) /\ \A o \in Objects : SameLines(log[k], Trim(log[k]), o)
    BY <2>1, TrimFacts
  <2>3. \A o \in Objects : HasLatest(Trim(log[k]), o)
    <3>. TAKE o \in Objects
    <3>1. HasLatest(log[k], o)
      BY DEF LatestInv
    <3>2. SameCommits(log[k], Trim(log[k]), o)
      BY <2>2, SameLinesFacts
    <3>. QED
      BY <2>1, <2>2, <3>1, <3>2, SameCommitsFacts
  <2>. QED
    BY <1>2, <2>2, <2>3 DEF LatestInv
<1>3. ASSUME NEW k \in Tasks, NEW r \in Line, log' = [log EXCEPT ![k] = AppendLine(log[k], r)]
      PROVE  log' \in [Tasks -> Seq(Line)] /\ LatestInv'
  <2>1. log[k] \in Seq(Line)
    OBVIOUS
  <2>2. /\ AppendLine(log[k], r) \in Seq(Line)
        /\ \A o \in Objects : HasLatest(log[k], o) => HasLatest(AppendLine(log[k], r), o)
    BY <2>1, AppendLineFacts
  <2>3. \A o \in Objects : HasLatest(AppendLine(log[k], r), o)
    BY <2>2 DEF LatestInv
  <2>. QED
    BY <1>3, <2>2, <2>3 DEF LatestInv
<1>. QED
  BY <1>1, <1>2, <1>3 DEF JournalStep

\* Every step is one of these.
LEMMA JournalSteps ==
  ASSUME TypeOK, [IONext]_vars
  PROVE  JournalStep
<1>1. \A t \in Threads : pc[t] # "idle" => /\ Event(t) \in Line
                                           /\ [Event(t) EXCEPT !.type = "TORN"] \in Line
                                           /\ Journal(t) \in Tasks
                                           /\ op[t] \in Op
  BY EventIsLine
<1>2. ASSUME NEW t \in Threads, PutChecked(t) PROVE JournalStep
  BY <1>1, <1>2 DEF PutChecked, JournalStep
<1>3. ASSUME NEW t \in Threads, AppendEvent(t) PROVE JournalStep
  BY <1>1, <1>3 DEF AppendEvent, JournalStep
<1>4. ASSUME NEW t \in Threads, AppendFails(t) PROVE JournalStep
  BY <1>1, <1>4 DEF AppendFails, JournalStep
<1>5. CASE Crash
  BY <1>1, <1>5 DEF Crash, JournalStep
<1>6. ASSUME NEW k \in Tasks, RecoverJournal(k) PROVE JournalStep
  BY <1>6 DEF RecoverJournal, JournalStep
<1>7. ASSUME NEW t \in Threads, Request(t) \/ LockTimeout(t) \/ Refuse(t) \/ DeleteChecked(t)
                                \/ ApplySnapshot(t) \/ ScanSnapshot(t) \/ WriteIndex(t)
                                \/ ApplyFails(t) \/ IndexFails(t)
      PROVE  log' = log
  BY <1>7 DEF Request, Call, LockTimeout, Refuse, DeleteChecked, ApplySnapshot, ScanSnapshot,
              WriteIndex, ApplyFails, IndexFails, files
<1>8. ASSUME Start \/ FinishRecovery \/ (\E o \in Objects : RecoverSnapshot(o)) \/ UNCHANGED vars
      PROVE  log' = log
  BY <1>8 DEF Start, FinishRecovery, RecoverSnapshot, files, vars
<1>. QED
  BY <1>2, <1>3, <1>4, <1>5, <1>6, <1>7, <1>8 DEF IONext, Next, Progress, Recover, JournalStep

\* Returning leaves the records of a thread well typed.
LEMMA ReturnTypes ==
  ASSUME TypeOK, NEW t \in Threads, Return(t)
  PROVE  /\ pc' \in [Threads -> Labels]
         /\ op' \in [Threads -> Op \cup {NoOp}]
         /\ \A s \in Threads : pc'[s] # "idle" => op'[s] \in Op
         /\ scan' \in [Threads -> [Objects -> Version \cup {Unread}]]
<1>1. NoScan \in [Objects -> Version \cup {Unread}]
  BY DEF NoScan
<1>2. "idle" \in Labels
  BY DEF Labels
<1>. QED
  BY <1>1, <1>2 DEF Return, TypeOK

\* The initial state satisfies the invariant.
LEMMA InitInv == Init => IInv
<1>. SUFFICES ASSUME Init PROVE IInv
  OBVIOUS
<1>1. Absent \in Version /\ NoScan \in [Objects -> Version \cup {Unread}] /\ "idle" \in Labels
  BY DEF Absent, Version, NoScan, Labels
<1>2. \A k \in Tasks : log[k] = <<>> /\ Len(log[k]) = 0 /\ log[k] \in Seq(Line)
  BY DEF Init
<1>3. TypeOK
  BY <1>1, <1>2 DEF Init, TypeOK
<1>4. LockInv
  BY DEF Init, LockInv
<1>5. \A k \in Tasks, o \in Objects : Commits(log[k], o) = {}
  BY <1>2 DEF Commits
<1>6. LatestInv
  BY <1>5 DEF LatestInv, HasLatest
<1>7. RequestInv
  BY DEF Init, RequestInv
<1>8. JournalInv
  BY <1>2 DEF Init, JournalInv, Readable, Clean
<1>9. VersionInv
  BY <1>5, ConstAssumption DEF Init, VersionInv, Numbered, IsVersion, HasCommit, Lines
<1>10. ShownInv
  BY DEF Init, ShownInv
<1>11. \A t \in Threads : ThreadInv(t)
  BY DEF Init, ThreadInv
<1>12. AckedCommitsAreDurable
  BY DEF Init, AckedCommitsAreDurable
<1>13. IndexInv
  BY DEF Init, IndexInv
<1>. QED
  BY <1>3, <1>4, <1>6, <1>7, <1>8, <1>9, <1>10, <1>11, <1>12, <1>13 DEF IInv, SoundInv

\* Every step keeps the types.
LEMMA TypeStep ==
  ASSUME TypeOK, LatestInv, [IONext]_vars
  PROVE  TypeOK' /\ LatestInv'
<1>1. log' \in [Tasks -> Seq(Line)] /\ LatestInv'
  BY JournalSteps, JournalStepFacts DEF TypeOK
<1>2. Absent \in Version
  BY DEF Absent, Version
<1>3. ASSUME NEW t \in Threads, Request(t) PROVE TypeOK'
  <2>1. PICK kind \in {"put", "delete"}, o \in Objects, p \in Payloads \cup {None} : Call(t, kind, o, p)
    BY <1>3 DEF Request
  <2>. DEFINE r == [kind |-> kind, obj |-> o, payload |-> p, seen |-> snap[o], rev |-> 0]
  <2>2. r \in Op
    BY DEF Op, TypeOK
  <2>3. "ready" \in Labels
    BY DEF Labels
  <2>4. op' = [op EXCEPT ![t] = r] /\ pc' = [pc EXCEPT ![t] = "ready"]
    BY <2>1 DEF Call
  <2>. HIDE DEF r
  <2>5. /\ op' \in [Threads -> Op \cup {NoOp}] /\ pc' \in [Threads -> Labels]
        /\ \A s \in Threads : pc'[s] # "idle" => op'[s] \in Op
    BY <2>2, <2>3, <2>4 DEF TypeOK
  <2>. QED
    BY <1>1, <2>1, <2>5 DEF Call, TypeOK, recovery, files
<1>4. ASSUME NEW t \in Threads, LockTimeout(t) \/ Refuse(t) PROVE TypeOK'
  <2>1. Return(t)
    BY <1>4 DEF LockTimeout, Refuse
  <2>. QED
    BY <1>1, <1>4, <2>1, ReturnTypes DEF LockTimeout, Refuse, TypeOK, recovery, files, budget
<1>5. ASSUME NEW t \in Threads, PutChecked(t) \/ DeleteChecked(t) PROVE TypeOK'
  <2>1. op[t] \in Op /\ pc[t] = "ready" /\ Journal(t) \in Tasks
    BY <1>5, EventIsLine DEF PutChecked, DeleteChecked
  <2>2. op[t].obj \in Objects /\ snap[op[t].obj] \in Version
    BY <2>1 DEF Op, TypeOK
  <2>3. TopRevision(Trim(log[Journal(t)]), op[t].obj) \in Nat
    <3>1. log[Journal(t)] \in Seq(Line) /\ HasLatest(log[Journal(t)], op[t].obj)
      BY <2>1, <2>2 DEF TypeOK, LatestInv
    <3>2. Trim(log[Journal(t)]) \in Seq(Line) /\ HasLatest(Trim(log[Journal(t)]), op[t].obj)
      BY <2>2, <3>1, TrimFacts, SameLinesFacts, SameCommitsFacts
    <3>. QED
      BY <2>2, <3>2, LatestFacts DEF Version
  <2>4. \E n \in Nat : op' = [op EXCEPT ![t].rev = n]
    <3>1. snap[op[t].obj].rev \in Nat
      BY <2>2 DEF Version
    <3>2. CASE PutChecked(t)
      <4>1. CASE snap[op[t].obj] = Absent
        BY <2>3, <3>2, <4>1 DEF PutChecked
      <4>2. CASE snap[op[t].obj] # Absent
        <5>1. snap[op[t].obj].rev + 1 \in Nat
          BY <3>1
        <5>2. op' = [op EXCEPT ![t].rev = snap[op[t].obj].rev + 1]
          BY <3>2, <4>2 DEF PutChecked
        <5>. QED
          BY <5>1, <5>2
      <4>. QED
        BY <4>1, <4>2
    <3>3. CASE DeleteChecked(t)
      BY <3>1, <3>3 DEF DeleteChecked
    <3>. QED
      BY <1>5, <3>2, <3>3
  <2>5. PICK n \in Nat : op' = [op EXCEPT ![t].rev = n]
    BY <2>4
  <2>6. [op[t] EXCEPT !.rev = n] \in Op
    BY <2>1 DEF Op
  <2>7. op' = [op EXCEPT ![t] = [op[t] EXCEPT !.rev = n]]
    BY <2>5 DEF TypeOK
  <2>8. pc' = [pc EXCEPT ![t] = "append"] /\ lock' = [lock EXCEPT ![Journal(t)] = t]
    BY <1>5 DEF PutChecked, DeleteChecked
  <2>9. /\ op' \in [Threads -> Op \cup {NoOp}] /\ pc' \in [Threads -> Labels]
        /\ \A s \in Threads : pc'[s] # "idle" => op'[s] \in Op
        /\ lock' \in [Tasks -> Threads \cup {None}]
    BY <2>1, <2>6, <2>7, <2>8 DEF TypeOK, Labels
  <2>. QED
    BY <1>1, <1>5, <2>9 DEF PutChecked, DeleteChecked, TypeOK, recovery, files, budget
<1>6. ASSUME NEW t \in Threads, AppendEvent(t) PROVE TypeOK'
  BY <1>1, <1>6 DEF AppendEvent, TypeOK, Labels, recovery, budget
<1>7. ASSUME NEW t \in Threads, ApplySnapshot(t) PROVE TypeOK'
  <2>1. op[t] \in Op
    BY <1>7, EventIsLine DEF ApplySnapshot
  <2>2. op[t].obj \in Objects /\ [rev |-> op[t].rev, payload |-> op[t].payload] \in Version
    BY <2>1 DEF Op, Version
  <2>3. snap' \in [Objects -> Version]
    BY <1>2, <1>7, <2>2 DEF ApplySnapshot, TypeOK
  <2>. QED
    BY <1>1, <1>7, <2>1, <2>3 DEF ApplySnapshot, TypeOK, Labels, recovery, budget
<1>8. ASSUME NEW t \in Threads, ScanSnapshot(t) PROVE TypeOK'
  <2>1. NextFile(t) \in Objects
    BY <1>8, NextFileIs DEF ScanSnapshot
  <2>. DEFINE s == [scan[t] EXCEPT ![NextFile(t)] = snap[NextFile(t)]]
  <2>2. s \in [Objects -> Version \cup {Unread}]
    BY <2>1 DEF TypeOK
  <2>3. scan' = [scan EXCEPT ![t] = s]
    BY <1>8, <2>1 DEF ScanSnapshot, TypeOK
  <2>. HIDE DEF s
  <2>4. scan' \in [Threads -> [Objects -> Version \cup {Unread}]]
    BY <2>2, <2>3 DEF TypeOK
  <2>. QED
    BY <1>1, <1>8, <2>4 DEF ScanSnapshot, TypeOK, recovery, files, budget
<1>9. ASSUME NEW t \in Threads, WriteIndex(t) PROVE TypeOK'
  <2>1. op[t] \in Op /\ Journal(t) \in Tasks
    BY <1>9, EventIsLine DEF WriteIndex
  <2>2. index' \in [Objects -> Version]
    BY <1>9 DEF WriteIndex, TypeOK
  <2>3. [obj |-> op[t].obj, rev |-> op[t].rev, payload |-> op[t].payload]
          \in [obj : Objects, rev : Nat, payload : Payloads \cup {None}]
    BY <2>1 DEF Op
  <2>4. acked' \in SUBSET [obj : Objects, rev : Nat, payload : Payloads \cup {None}]
    BY <1>9, <2>3 DEF WriteIndex, TypeOK
  <2>5. lock' \in [Tasks -> Threads \cup {None}] /\ Return(t)
    BY <1>9, <2>1 DEF WriteIndex, Release, TypeOK
  <2>. QED
    BY <1>1, <1>9, <2>2, <2>4, <2>5, ReturnTypes DEF WriteIndex, TypeOK, recovery, budget
<1>10. ASSUME NEW t \in Threads, AppendFails(t) \/ ApplyFails(t) \/ IndexFails(t) PROVE TypeOK'
  <2>1. WriteError(t) /\ snap' = snap /\ index' = index
    BY <1>10 DEF AppendFails, ApplyFails, IndexFails, files
  <2>2. lock' \in [Tasks -> Threads \cup {None}] /\ Return(t)
    BY <2>1 DEF WriteError, Release, TypeOK
  <2>3. ioErrors' \in Nat
    BY <2>1 DEF WriteError, TypeOK
  <2>. QED
    BY <1>1, <2>1, <2>2, <2>3, ReturnTypes DEF WriteError, TypeOK, recovery
<1>11. CASE Crash
  BY <1>1, <1>11 DEF Crash, TypeOK, Labels, NoScan
<1>12. CASE Recover
  <2>1. ASSUME NEW k \in Tasks, RecoverJournal(k) PROVE TypeOK'
    BY <1>1, <2>1 DEF RecoverJournal, TypeOK, threads, budget
  <2>2. ASSUME NEW o \in Objects, RecoverSnapshot(o) PROVE TypeOK'
    <3>1. Latest(log[TaskOf[o]], o) \in Version
      <4>1. TaskOf[o] \in Tasks
        BY ConstAssumption
      <4>2. log[TaskOf[o]] \in Seq(Line) /\ HasLatest(log[TaskOf[o]], o)
        BY <4>1 DEF TypeOK, LatestInv
      <4>. QED
        BY <4>2, LatestFacts
    <3>2. snap' \in [Objects -> Version] /\ rebuilt' \subseteq Objects
      BY <2>2, <3>1 DEF RecoverSnapshot, Recovered, TypeOK
    <3>. QED
      BY <1>1, <2>2, <3>2 DEF RecoverSnapshot, TypeOK, threads, budget
  <2>3. CASE Start \/ FinishRecovery
    BY <1>1, <2>3 DEF Start, FinishRecovery, RebuiltIndex, TypeOK, files, threads, budget
  <2>. QED
    BY <1>1, <1>12, <2>1, <2>2, <2>3 DEF Recover
<1>13. CASE UNCHANGED vars
  BY <1>1, <1>13 DEF vars, TypeOK, recovery, files, threads, budget
<1>. QED
  BY <1>1, <1>3, <1>4, <1>5, <1>6, <1>7, <1>8, <1>9, <1>10, <1>11, <1>12, <1>13
     DEF IONext, Next, Progress

\* The steps of one thread.
ThreadStep(t) ==
  \/ Request(t) \/ LockTimeout(t) \/ Progress(t)
  \/ AppendFails(t) \/ ApplyFails(t) \/ IndexFails(t)

\* They leave the other threads alone.
LEMMA OthersStay ==
  ASSUME TypeOK, NEW t \in Threads, ThreadStep(t), NEW s \in Threads \ {t}
  PROVE  pc'[s] = pc[s] /\ op'[s] = op[s] /\ scan'[s] = scan[s]
<1>1. CASE Request(t)
  BY <1>1 DEF Request, Call, TypeOK
<1>2. CASE LockTimeout(t)
  BY <1>2 DEF LockTimeout, Return, TypeOK
<1>3. CASE Refuse(t)
  BY <1>3 DEF Refuse, Return, TypeOK
<1>4. CASE PutChecked(t)
  BY <1>4 DEF PutChecked, TypeOK
<1>5. CASE DeleteChecked(t)
  BY <1>5 DEF DeleteChecked, TypeOK
<1>6. CASE AppendEvent(t)
  BY <1>6 DEF AppendEvent, TypeOK
<1>7. CASE ApplySnapshot(t)
  BY <1>7 DEF ApplySnapshot, TypeOK
<1>8. CASE ScanSnapshot(t)
  BY <1>8 DEF ScanSnapshot, TypeOK
<1>9. CASE WriteIndex(t)
  BY <1>9 DEF WriteIndex, Release, Return, TypeOK
<1>10. CASE AppendFails(t) \/ ApplyFails(t) \/ IndexFails(t)
  BY <1>10 DEF AppendFails, ApplyFails, IndexFails, WriteError, Release, Return, TypeOK
<1>. QED
  BY <1>1, <1>2, <1>3, <1>4, <1>5, <1>6, <1>7, <1>8, <1>9, <1>10 DEF ThreadStep, Progress

\* The labels of a thread that holds the lock of its directory.
Locked == {"append", "apply", "scan"}

\* A step of one thread keeps the locks right when it takes a free lock, keeps its
\* lock, releases it, or has nothing to do with locks.
LEMMA LockKept ==
  ASSUME TypeOK, LockInv, NEW t \in Threads, mode = "up", mode' = "up",
         \A s \in Threads \ {t} : pc'[s] = pc[s] /\ op'[s] = op[s],
         \/ lock' = lock /\ pc[t] \notin Locked /\ pc'[t] \notin Locked
         \/ lock' = lock /\ pc[t] \in Locked /\ pc'[t] \in Locked /\ op'[t] = op[t]
         \/ /\ pc[t] \notin Locked /\ pc'[t] \in Locked /\ Journal(t)' = Journal(t)
            /\ Journal(t) \in Tasks /\ lock[Journal(t)] = None
            /\ lock' = [lock EXCEPT ![Journal(t)] = t]
         \/ /\ pc[t] \in Locked /\ pc'[t] \notin Locked
            /\ Journal(t) \in Tasks
            /\ lock' = [lock EXCEPT ![Journal(t)] = None]
  PROVE  LockInv'
<1>1. \A s \in Threads \ {t} : Journal(s)' = Journal(s)
  BY DEF Journal
<1>2. /\ \A s \in Threads : pc[s] \in Locked => lock[Journal(s)] = s
      /\ \A k \in Tasks : lock[k] # None => lock[k] \in Threads /\ pc[lock[k]] \in Locked /\ Journal(lock[k]) = k
  BY DEF LockInv, Locked, TypeOK
<1>3. \A s \in Threads \ {t} : pc[s] \in Locked => Journal(s) \in Tasks
  BY EventIsLine DEF Locked
<1>4. t # None
  BY ConstAssumption
<1>5. ASSUME NEW s \in Threads, pc'[s] \in Locked PROVE lock'[Journal(s)'] = s
  <2>1. CASE s = t
    <3>1. pc[t] \in Locked => lock[Journal(t)] = t
      BY <1>2
    <3>2. op'[t] = op[t] => Journal(t)' = Journal(t)
      BY DEF Journal
    <3>. QED
      BY <1>5, <2>1, <3>1, <3>2 DEF TypeOK
  <2>2. CASE s # t
    <3>1. pc[s] \in Locked /\ Journal(s)' = Journal(s) /\ Journal(s) \in Tasks /\ lock[Journal(s)] = s
      BY <1>1, <1>2, <1>3, <1>5, <2>2
    <3>2. pc[t] \in Locked => lock[Journal(t)] = t
      BY <1>2
    <3>. QED
      BY <1>4, <2>2, <3>1, <3>2, ConstAssumption DEF TypeOK
  <2>. QED
    BY <2>1, <2>2
<1>6. ASSUME NEW k \in Tasks, lock'[k] # None
      PROVE  pc'[lock'[k]] \in Locked /\ TaskOf[op'[lock'[k]].obj] = k
  <2>1. CASE lock'[k] = t
    <3>1. pc'[t] \in Locked /\ TaskOf[op'[t].obj] = k
      <4>1. CASE lock' = lock /\ pc'[t] \in Locked /\ op'[t] = op[t]
        <5>1. pc[t] \in Locked /\ Journal(t) = k
          BY <1>2, <1>4, <2>1, <4>1
        <5>. QED
          BY <5>1, <4>1 DEF Journal
      <4>2. CASE lock' = [lock EXCEPT ![Journal(t)] = t] /\ lock[Journal(t)] = None /\ pc[t] \notin Locked
                 /\ pc'[t] \in Locked /\ Journal(t)' = Journal(t)
        <5>1. Journal(t) = k
          BY <1>2, <1>4, <2>1, <4>2 DEF TypeOK
        <5>. QED
          BY <4>2, <5>1 DEF Journal
      <4>3. CASE Journal(t) \in Tasks /\ lock' = [lock EXCEPT ![Journal(t)] = None]
        <5>1. k # Journal(t) /\ lock[k] = t
          BY <1>4, <2>1, <4>3 DEF TypeOK
        <5>. QED
          BY <1>2, <1>4, <5>1
      <4>4. CASE lock' = lock /\ pc[t] \notin Locked
        BY <1>2, <1>4, <2>1, <4>4
      <4>. QED
        BY <4>1, <4>2, <4>3, <4>4
    <3>. QED
      BY <2>1, <3>1
  <2>2. CASE lock'[k] # t
    <3>1. lock'[k] = lock[k] /\ lock[k] \in Threads \ {t}
      BY <1>2, <1>6, <2>2 DEF TypeOK
    <3>2. pc[lock[k]] \in Locked /\ Journal(lock[k]) = k
      BY <1>2, <1>6, <3>1
    <3>3. pc'[lock[k]] = pc[lock[k]] /\ op'[lock[k]] = op[lock[k]]
      BY <3>1
    <3>. QED
      BY <3>1, <3>2, <3>3 DEF Journal
  <2>. QED
    BY <2>1, <2>2
<1>7. \A s \in Threads : pc'[s] \in Locked => lock'[TaskOf[op'[s].obj]] = s
  BY <1>5 DEF Journal
<1>. QED
  BY <1>6, <1>7 DEF LockInv, Locked, Journal

\* Taking the lock settles the revision and nothing else of the request.
LEMMA CheckedFields ==
  ASSUME TypeOK, NEW t \in Threads, PutChecked(t) \/ DeleteChecked(t)
  PROVE  /\ op'[t].obj = op[t].obj
         /\ op'[t].kind = op[t].kind
         /\ op'[t].payload = op[t].payload
         /\ op'[t].seen = op[t].seen
<1>1. op[t] \in Op
  BY EventIsLine DEF PutChecked, DeleteChecked
<1>2. \E n : op' = [op EXCEPT ![t].rev = n]
  BY DEF PutChecked, DeleteChecked
<1>3. PICK n : op' = [op EXCEPT ![t].rev = n]
  BY <1>2
<1>4. op'[t] = [op[t] EXCEPT !.rev = n]
  BY <1>3 DEF TypeOK
<1>. QED
  BY <1>1, <1>4 DEF Op

\* Every step keeps the locks right.
LEMMA LockStep ==
  ASSUME TypeOK, LockInv, [IONext]_vars
  PROVE  LockInv'
<1>1. ASSUME NEW t \in Threads, ThreadStep(t) PROVE LockInv'
  <2>1. \A s \in Threads \ {t} : pc'[s] = pc[s] /\ op'[s] = op[s]
    BY <1>1, OthersStay
  <2>2. mode = "up" /\ mode' = "up"
    BY <1>1 DEF ThreadStep, Request, Call, LockTimeout, Progress, Refuse, PutChecked, DeleteChecked,
                AppendEvent, ApplySnapshot, ScanSnapshot, WriteIndex, AppendFails, ApplyFails,
                IndexFails, WriteError, recovery
  <2>3. CASE Request(t)
    <3>1. lock' = lock /\ pc[t] = "idle" /\ pc'[t] = "ready"
      BY <2>3 DEF Request, Call, TypeOK
    <3>2. lock' = lock /\ pc[t] \notin Locked /\ pc'[t] \notin Locked
      BY <3>1 DEF Locked
    <3>. QED
      BY <2>1, <2>2, <3>2, LockKept
  <2>4. CASE LockTimeout(t) \/ Refuse(t)
    <3>1. lock' = lock /\ pc[t] = "ready" /\ pc'[t] = "idle"
      BY <2>4 DEF LockTimeout, Refuse, Return, TypeOK
    <3>2. lock' = lock /\ pc[t] \notin Locked /\ pc'[t] \notin Locked
      BY <3>1 DEF Locked
    <3>. QED
      BY <2>1, <2>2, <3>2, LockKept
  <2>5. CASE PutChecked(t) \/ DeleteChecked(t)
    <3>1. /\ pc[t] = "ready" /\ pc'[t] = "append" /\ lock[Journal(t)] = None
          /\ lock' = [lock EXCEPT ![Journal(t)] = t]
      BY <2>5 DEF PutChecked, DeleteChecked, TypeOK
    <3>2. Journal(t) \in Tasks
      BY <3>1, EventIsLine
    <3>3. op'[t].obj = op[t].obj
      BY <2>5, CheckedFields
    <3>4. Journal(t)' = Journal(t)
      BY <3>3 DEF Journal
    <3>5. pc[t] \notin Locked /\ pc'[t] \in Locked
      BY <3>1 DEF Locked
    <3>. QED
      BY <2>1, <2>2, <3>1, <3>2, <3>4, <3>5, LockKept
  <2>6. CASE AppendEvent(t) \/ ApplySnapshot(t) \/ ScanSnapshot(t)
    <3>1. lock' = lock /\ pc[t] \in Locked /\ pc'[t] \in Locked /\ op'[t] = op[t]
      BY <2>6 DEF AppendEvent, ApplySnapshot, ScanSnapshot, Locked, TypeOK
    <3>. QED
      BY <2>1, <2>2, <3>1, LockKept
  <2>7. CASE WriteIndex(t) \/ AppendFails(t) \/ ApplyFails(t) \/ IndexFails(t)
    <3>1. pc[t] \in Locked /\ Release(t)
      BY <2>7 DEF WriteIndex, AppendFails, ApplyFails, IndexFails, WriteError, Locked
    <3>2. lock' = [lock EXCEPT ![Journal(t)] = None] /\ pc'[t] = "idle"
      BY <3>1 DEF Release, Return, TypeOK
    <3>3. Journal(t) \in Tasks
      BY <3>1, EventIsLine DEF Locked
    <3>4. pc'[t] \notin Locked
      BY <3>2 DEF Locked
    <3>. QED
      BY <2>1, <2>2, <3>1, <3>2, <3>3, <3>4, LockKept
  <2>. QED
    BY <1>1, <2>3, <2>4, <2>5, <2>6, <2>7 DEF ThreadStep, Progress
<1>2. CASE Crash
  BY <1>2 DEF Crash, LockInv
<1>3. CASE Recover \/ UNCHANGED vars
  <2>1. pc' = pc /\ op' = op /\ lock' = lock
    BY <1>3 DEF Recover, Start, RecoverJournal, RecoverSnapshot, FinishRecovery, vars, threads
  <2>2. mode' # "up" => mode # "up"
    BY <1>3 DEF Recover, Start, RecoverJournal, RecoverSnapshot, FinishRecovery, vars, recovery
  <2>. QED
    BY <2>1, <2>2 DEF LockInv, Journal
<1>. QED
  BY <1>1, <1>2, <1>3 DEF IONext, Next, ThreadStep

\* Every step keeps what a thread holds right.
LEMMA RequestStep ==
  ASSUME TypeOK, RequestInv, [IONext]_vars
  PROVE  RequestInv'
<1>1. ASSUME NEW t \in Threads, ThreadStep(t) PROVE RequestInv'
  <2>1. \A s \in Threads \ {t} : pc'[s] = pc[s] /\ op'[s] = op[s] /\ scan'[s] = scan[s]
    BY <1>1, OthersStay
  <2>2. /\ pc'[t] # "idle" /\ op'[t].kind = "put" => op'[t].payload \in Payloads
        /\ pc'[t] # "scan" => scan'[t] = NoScan
    <3>0. /\ pc[t] # "idle" /\ op[t].kind = "put" => op[t].payload \in Payloads
          /\ pc[t] # "scan" => scan[t] = NoScan
      BY DEF RequestInv
    <3>1. CASE Request(t)
      <4>1. PICK kind \in {"put", "delete"}, o \in Objects, p \in Payloads \cup {None} :
              Call(t, kind, o, p) /\ (kind = "put" => p \in Payloads)
        BY <3>1 DEF Request
      <4>2. op'[t].kind = kind /\ op'[t].payload = p /\ pc[t] = "idle" /\ scan' = scan
        BY <4>1 DEF Call, TypeOK
      <4>. QED
        BY <3>0, <4>1, <4>2
    <3>2. CASE LockTimeout(t) \/ Refuse(t)
      BY <3>2 DEF LockTimeout, Refuse, Return, TypeOK
    <3>3. CASE PutChecked(t) \/ DeleteChecked(t)
      <4>1. op'[t].kind = op[t].kind /\ op'[t].payload = op[t].payload
        BY <3>3, CheckedFields
      <4>2. pc[t] = "ready" /\ scan' = scan
        BY <3>3 DEF PutChecked, DeleteChecked
      <4>. QED
        BY <3>0, <4>1, <4>2
    <3>4. CASE AppendEvent(t) \/ ApplySnapshot(t)
      BY <3>0, <3>4 DEF AppendEvent, ApplySnapshot, TypeOK
    <3>5. CASE ScanSnapshot(t)
      BY <3>0, <3>5 DEF ScanSnapshot
    <3>6. CASE WriteIndex(t) \/ AppendFails(t) \/ ApplyFails(t) \/ IndexFails(t)
      BY <3>6 DEF WriteIndex, AppendFails, ApplyFails, IndexFails, WriteError, Release, Return, TypeOK
    <3>. QED
      BY <1>1, <3>1, <3>2, <3>3, <3>4, <3>5, <3>6 DEF ThreadStep, Progress
  <2>. QED
    BY <2>1, <2>2 DEF RequestInv
<1>2. CASE Crash
  BY <1>2 DEF Crash, RequestInv
<1>3. CASE Recover \/ UNCHANGED vars
  <2>1. pc' = pc /\ op' = op /\ scan' = scan
    BY <1>3 DEF Recover, Start, RecoverJournal, RecoverSnapshot, FinishRecovery, vars, threads
  <2>. QED
    BY <2>1 DEF RequestInv
<1>. QED
  BY <1>1, <1>2, <1>3 DEF IONext, Next, ThreadStep

-----------------------------------------------------------------------------
(* No commit is lost as long as no write fails under a living process.     *)

\* After a step the journal still has all commits of an object.
Keeps(o) ==
  \A i \in Commits(log[TaskOf[o]], o) :
    i \in Commits(log'[TaskOf[o]], o) /\ log'[TaskOf[o]][i] = log[TaskOf[o]][i]

\* After a step the journal says the same of an object.
Same(o) ==
  /\ Keeps(o)
  /\ Latest(log'[TaskOf[o]], o) = Latest(log[TaskOf[o]], o)
  /\ Numbered(log[TaskOf[o]], o) => Numbered(log'[TaskOf[o]], o)
  /\ EndsRemoved(log[TaskOf[o]], o) => EndsRemoved(log'[TaskOf[o]], o)

\* The journal of an object is one.
LEMMA LinesType ==
  ASSUME TypeOK, LatestInv, NEW o \in Objects
  PROVE  TaskOf[o] \in Tasks /\ log[TaskOf[o]] \in Seq(Line) /\ HasLatest(log[TaskOf[o]], o)
<1>1. TaskOf[o] \in Tasks
  BY ConstAssumption
<1>. QED
  BY <1>1 DEF TypeOK, LatestInv

\* A journal with the same lines about an object says the same of it.
LEMMA SameLinesSame ==
  ASSUME TypeOK, LatestInv, NEW o \in Objects, log'[TaskOf[o]] \in Seq(Line),
         SameLines(log[TaskOf[o]], log'[TaskOf[o]], o)
  PROVE  Same(o)
<1>1. log[TaskOf[o]] \in Seq(Line) /\ HasLatest(log[TaskOf[o]], o)
  BY LinesType
<1>2. /\ SameCommits(log[TaskOf[o]], log'[TaskOf[o]], o)
      /\ EndsRemoved(log[TaskOf[o]], o) => EndsRemoved(log'[TaskOf[o]], o)
  BY SameLinesFacts
<1>3. Keeps(o)
  BY <1>2 DEF Keeps, SameCommits
<1>. QED
  BY <1>1, <1>2, <1>3, SameCommitsFacts DEF Same

\* Journals that are left alone say the same.
LEMMA QuietSame ==
  ASSUME log' = log, NEW o \in Objects
  PROVE  Same(o)
  BY DEF Same, Keeps

\* Versions of an object stay versions of it.
LEMMA VersionsStay ==
  ASSUME NEW o \in Objects, Keeps(o), NEW v
  PROVE  /\ HasCommit(v, log[TaskOf[o]], o) => HasCommit(v, log'[TaskOf[o]], o)
         /\ IsVersion(v, log[TaskOf[o]], o) => IsVersion(v, log'[TaskOf[o]], o)
  BY DEF Keeps, IsVersion, HasCommit

\* Acknowledged commits stay.
LEMMA AckedStay ==
  ASSUME TypeOK, AckedCommitsAreDurable, \A o \in Objects : Keeps(o), acked' = acked
  PROVE  AckedCommitsAreDurable'
<1>. SUFFICES ASSUME NEW c \in acked
              PROVE  \E i \in Commits(log'[TaskOf[c.obj]], c.obj) :
                       /\ log'[TaskOf[c.obj]][i].rev = c.rev
                       /\ log'[TaskOf[c.obj]][i].payload = c.payload
  BY DEF AckedCommitsAreDurable
<1>1. Keeps(c.obj)
  BY DEF TypeOK
<1>. QED
  BY <1>1 DEF AckedCommitsAreDurable, Keeps

\* What a thread knows stays true when the journal keeps its commits and, while the
\* thread writes, says the same of its object, whose snapshot is left alone.
LEMMA ThreadStays ==
  ASSUME NEW t \in Threads, TypeOK, ThreadInv(t), pc'[t] = pc[t], op'[t] = op[t],
         pc[t] # "idle" => Keeps(op[t].obj),
         pc[t] \in {"append", "apply"} => /\ Same(op[t].obj)
                                          /\ snap'[op[t].obj] = snap[op[t].obj]
  PROVE  ThreadInv(t)'
<1>. DEFINE o == op[t].obj
            l == log[TaskOf[o]]
            m == log'[TaskOf[o]]
            v == [rev |-> op[t].rev, payload |-> op[t].payload]
<1>1. pc[t] # "idle" => o \in Objects
  BY EventIsLine DEF Op
<1>2. /\ pc[t] # "idle" => IsVersion(op[t].seen, m, o)
      /\ pc[t] \in {"apply", "scan"} /\ op[t].kind = "put" => HasCommit(v, m, o)
  <2>1. /\ pc[t] # "idle" => IsVersion(op[t].seen, l, o)
        /\ pc[t] \in {"apply", "scan"} /\ op[t].kind = "put" => HasCommit(v, l, o)
    BY DEF ThreadInv, Lines
  <2>2. pc[t] # "idle" => o \in Objects /\ Keeps(o)
    BY <1>1
  <2>. HIDE DEF o, l, m, v
  <2>3. pc[t] # "idle" => \A w : /\ HasCommit(w, l, o) => HasCommit(w, m, o)
                                 /\ IsVersion(w, l, o) => IsVersion(w, m, o)
    BY <2>2, VersionsStay DEF l, m
  <2>4. pc[t] \in {"apply", "scan"} => pc[t] # "idle"
    OBVIOUS
  <2>. QED
    BY <2>1, <2>3, <2>4
<1>3. pc[t] \in {"append", "apply"} =>
        /\ snap'[o] = snap[o]
        /\ Latest(m, o) = Latest(l, o)
        /\ EndsRemoved(l, o) => EndsRemoved(m, o)
  BY DEF Same
<1>4. /\ pc[t] \in {"append", "apply"} =>
           /\ snap[o] = op[t].seen
           /\ op[t].kind = "delete" => snap[o] # Absent
      /\ pc[t] = "append" /\ op[t].kind = "put" => op[t].rev = Latest(l, o).rev + 1
      /\ pc[t] = "apply" /\ op[t].kind = "put" => Latest(l, o) = v
      /\ pc[t] = "apply" /\ op[t].kind = "delete" => snap[o] = Latest(l, o) /\ EndsRemoved(l, o)
  BY DEF ThreadInv, Lines
<1>. QED
  <2>1. o' = o /\ l' = m /\ v' = v
    OBVIOUS
  <2>. HIDE DEF o, l, m, v
  <2>2. /\ pc[t] \in {"append", "apply"} =>
             /\ snap'[o] = op[t].seen
             /\ op[t].kind = "delete" => snap'[o] # Absent
        /\ pc[t] = "append" /\ op[t].kind = "put" => op[t].rev = Latest(m, o).rev + 1
        /\ pc[t] = "apply" /\ op[t].kind = "put" => Latest(m, o) = v
        /\ pc[t] = "apply" /\ op[t].kind = "delete" => snap'[o] = Latest(m, o) /\ EndsRemoved(m, o)
    BY <1>3, <1>4
  <2>. QED
    BY <1>2, <2>2 DEF ThreadInv, Lines, o, m, v

\* Two versions of an object with the same revision are the same.
LEMMA SameRevision ==
  ASSUME NEW l, NEW o, Numbered(l, o), NEW v, NEW w, IsVersion(v, l, o), IsVersion(w, l, o),
         v.rev = w.rev
  PROVE  v = w
<1>1. \A i \in Commits(l, o) : VersionOf(l[i]).rev = l[i].rev /\ l[i].rev >= 1
  BY DEF VersionOf, Numbered
<1>2. ASSUME NEW i \in Commits(l, o), NEW j \in Commits(l, o), v = VersionOf(l[i]), w = VersionOf(l[j])
      PROVE  v = w
  BY <1>1, <1>2 DEF Numbered
<1>3. Absent.rev = 0
  BY DEF Absent
<1>4. ASSUME NEW i \in Commits(l, o), VersionOf(l[i]).rev = 0 PROVE FALSE
  BY <1>1, <1>4
<1>. QED
  BY <1>2, <1>3, <1>4 DEF IsVersion, HasCommit

\* Two threads under the lock of one directory are one.
LEMMA OneHolder ==
  ASSUME LockInv, NEW s \in Threads, NEW t \in Threads, pc[s] \in Locked, pc[t] \in Locked,
         Journal(s) = Journal(t)
  PROVE  s = t
  BY DEF LockInv, Locked

\* Nobody applies a version to an object whose directory is locked by nobody, or by
\* a thread that has not appended yet.
LEMMA NotApplying ==
  ASSUME LockInv, ConstAssumption, NEW o \in Objects,
         \/ lock[TaskOf[o]] = None
         \/ \E t \in Threads : lock[TaskOf[o]] = t /\ pc[t] # "apply"
  PROVE  ~Applying(o)
<1>. SUFFICES ASSUME NEW s \in Threads, pc[s] = "apply", op[s].obj = o PROVE FALSE
  BY DEF Applying
<1>1. lock[TaskOf[o]] = s
  BY DEF LockInv, Journal
<1>. QED
  BY <1>1

\* The hypotheses of a step.
Good == TypeOK /\ LockInv /\ LatestInv /\ RequestInv /\ SoundInv

\* A step of a thread that changes neither journals nor snapshots keeps the
\* invariant of the objects and of the other threads.
LEMMA QuietStep ==
  ASSUME Good, NEW t \in Threads, mode' = mode, replayed' = replayed, rebuilt' = rebuilt,
         log' = log, snap' = snap, pc[t] # "apply",
         \A s \in Threads \ {t} : pc'[s] = pc[s] /\ op'[s] = op[s]
  PROVE  /\ JournalInv' /\ VersionInv' /\ ShownInv'
         /\ \A s \in Threads \ {t} : ThreadInv(s)'
         /\ acked' = acked => AckedCommitsAreDurable'
<1>1. \A o \in Objects : Same(o) /\ Keeps(o)
  BY QuietSame DEF Same
<1>2. JournalInv'
  BY DEF Good, SoundInv, JournalInv
<1>3. VersionInv'
  BY DEF Good, SoundInv, VersionInv, Lines
<1>4. ShownInv'
  <2>1. \A o \in Objects : Applying(o) => Applying(o)'
    BY DEF Applying
  <2>2. \A o \in Objects : Shown(o) => Shown(o)'
    BY DEF Shown, Lines
  <2>. QED
    BY <2>1, <2>2 DEF Good, SoundInv, ShownInv, Lines
<1>5. ASSUME NEW s \in Threads \ {t} PROVE ThreadInv(s)'
  <2>1. pc[s] # "idle" => op[s].obj \in Objects
    BY EventIsLine DEF Op, Good
  <2>2. pc[s] \in {"append", "apply"} => pc[s] # "idle"
    OBVIOUS
  <2>. QED
    BY <1>1, <2>1, <2>2, ThreadStays DEF Good, SoundInv
<1>6. acked' = acked => AckedCommitsAreDurable'
  BY <1>1, AckedStay DEF Good, SoundInv
<1>. QED
  BY <1>2, <1>3, <1>4, <1>5, <1>6

\* The index stays right when the locks, the snapshots and the scans do.
LEMMA IndexQuiet ==
  ASSUME IndexInv, mode' = mode, snap' = snap, index' = index, lock' = lock,
         \A s \in Threads : pc'[s] = "scan" => pc[s] = "scan" /\ scan'[s] = scan[s]
  PROVE  IndexInv'
  BY DEF IndexInv, Held

\* A call, or a return without effect.
LEMMA CallSound ==
  ASSUME Good, NEW t \in Threads, Request(t) \/ LockTimeout(t) \/ Refuse(t)
  PROVE  SoundInv'
<1>1. \A s \in Threads \ {t} : pc'[s] = pc[s] /\ op'[s] = op[s] /\ scan'[s] = scan[s]
  BY OthersStay DEF ThreadStep, Progress, Good
<1>2. /\ mode' = mode /\ replayed' = replayed /\ rebuilt' = rebuilt /\ log' = log /\ snap' = snap
      /\ index' = index /\ lock' = lock /\ acked' = acked
  BY DEF Request, Call, LockTimeout, Refuse, recovery, files
<1>3. pc[t] \in {"idle", "ready"} /\ pc'[t] \in {"idle", "ready"}
  BY DEF Request, Call, LockTimeout, Refuse, Return, Good, TypeOK
<1>4. /\ JournalInv' /\ VersionInv' /\ ShownInv' /\ AckedCommitsAreDurable'
      /\ \A s \in Threads \ {t} : ThreadInv(s)'
  BY <1>1, <1>2, <1>3, QuietStep
<1>5. ThreadInv(t)'
  <2>1. CASE Request(t)
    <3>1. PICK kind \in {"put", "delete"}, o \in Objects, p \in Payloads \cup {None} : Call(t, kind, o, p)
      BY <2>1 DEF Request
    <3>2. op'[t].obj = o /\ op'[t].seen = snap[o] /\ pc'[t] = "ready"
      BY <3>1 DEF Call, Good, TypeOK
    <3>3. IsVersion(snap[o], log'[TaskOf[o]], o)
      BY <1>2 DEF Good, SoundInv, VersionInv, Lines
    <3>. QED
      BY <3>2, <3>3 DEF ThreadInv, Lines
  <2>2. CASE LockTimeout(t) \/ Refuse(t)
    <3>1. pc'[t] = "idle"
      BY <2>2 DEF LockTimeout, Refuse, Return, Good, TypeOK
    <3>. QED
      BY <3>1 DEF ThreadInv
  <2>. QED
    BY <2>1, <2>2
<1>6. IndexInv'
  <2>1. \A s \in Threads : pc'[s] = "scan" => pc[s] = "scan" /\ scan'[s] = scan[s]
    BY <1>1, <1>3
  <2>. QED
    BY <1>2, <2>1, IndexQuiet DEF Good, SoundInv
<1>. QED
  BY <1>4, <1>5, <1>6 DEF SoundInv

\* What a thread knows of its object when it is about to take the lock.
LEMMA AtTheLock ==
  ASSUME Good, NEW t \in Threads, pc[t] = "ready", mode = "up", lock[Journal(t)] = None,
         RevisionMatches(t)
  PROVE  /\ op[t].obj \in Objects
         /\ snap[op[t].obj] = op[t].seen
         /\ Shown(op[t].obj)
         /\ IsVersion(op[t].seen, Lines(op[t].obj), op[t].obj)
         /\ Trim(Lines(op[t].obj)) = Lines(op[t].obj)
         /\ TopRevision(Lines(op[t].obj), op[t].obj) = Latest(Lines(op[t].obj), op[t].obj).rev
<1>. DEFINE o == op[t].obj
<1>1. o \in Objects
  BY EventIsLine DEF Op, Good
<1>2. IsVersion(op[t].seen, Lines(o), o)
  BY DEF Good, SoundInv, ThreadInv
<1>3. snap[o] = op[t].seen
  <2>1. Numbered(Lines(o), o) /\ IsVersion(snap[o], Lines(o), o)
    BY <1>1 DEF Good, SoundInv, VersionInv
  <2>2. op[t].seen.rev = snap[o].rev
    BY DEF RevisionMatches
  <2>. HIDE DEF o
  <2>. QED
    BY <1>2, <2>1, <2>2, SameRevision
<1>4. Shown(o)
  <2>1. ~Applying(o)
    BY <1>1, NotApplying, ConstAssumption DEF Good, Journal
  <2>. QED
    BY <1>1, <2>1 DEF Good, SoundInv, ShownInv
<1>5. TaskOf[o] \in Tasks /\ Lines(o) \in Seq(Line) /\ HasLatest(Lines(o), o)
  BY <1>1, LinesType DEF Good, Lines
<1>6. Clean(Lines(o))
  BY <1>5 DEF Good, SoundInv, JournalInv, Lines
<1>7. Trim(Lines(o)) = Lines(o)
  BY <1>5, <1>6, TrimFacts
<1>8. TopRevision(Lines(o), o) = Latest(Lines(o), o).rev
  BY <1>1, <1>5, LatestFacts
<1>. QED
  BY <1>1, <1>2, <1>3, <1>4, <1>7, <1>8

\* A put or delete that takes the lock.
LEMMA CheckedSound ==
  ASSUME Good, NEW t \in Threads, PutChecked(t) \/ DeleteChecked(t)
  PROVE  SoundInv'
<1>. DEFINE o == op[t].obj
<1>0. mode = "up" /\ pc[t] = "ready" /\ lock[Journal(t)] = None /\ RevisionMatches(t)
  BY DEF PutChecked, DeleteChecked
<1>1. /\ o \in Objects
      /\ snap[o] = op[t].seen
      /\ Shown(o)
      /\ IsVersion(op[t].seen, Lines(o), o)
      /\ Trim(Lines(o)) = Lines(o)
      /\ TopRevision(Lines(o), o) = Latest(Lines(o), o).rev
  BY <1>0, AtTheLock
<1>2. log' = log
  <2>1. log' = [log EXCEPT ![Journal(t)] = Trim(log[Journal(t)])] => log' = log
    BY <1>1 DEF Journal, Lines, Good, TypeOK
  <2>. QED
    BY <2>1 DEF PutChecked, DeleteChecked, files
<1>3. \A s \in Threads \ {t} : pc'[s] = pc[s] /\ op'[s] = op[s] /\ scan'[s] = scan[s]
  BY OthersStay DEF ThreadStep, Progress, Good
<1>4. /\ mode' = mode /\ replayed' = replayed /\ rebuilt' = rebuilt /\ snap' = snap
      /\ acked' = acked /\ pc'[t] = "append" /\ lock'[Journal(t)] = t /\ scan' = scan
  <2>1. Journal(t) \in Tasks
    BY <1>0, EventIsLine DEF Good
  <2>. QED
    BY <2>1 DEF PutChecked, DeleteChecked, recovery, files, Good, TypeOK
<1>5. /\ JournalInv' /\ VersionInv' /\ ShownInv' /\ AckedCommitsAreDurable'
      /\ \A s \in Threads \ {t} : ThreadInv(s)'
  BY <1>0, <1>2, <1>3, <1>4, QuietStep
<1>6. ThreadInv(t)'
  <2>1. op'[t].obj = o /\ op'[t].kind = op[t].kind /\ op'[t].seen = op[t].seen
    BY CheckedFields DEF Good
  <2>2. op'[t].kind = "put" => op'[t].rev = Latest(Lines(o), o).rev + 1
    <3>1. CASE PutChecked(t)
      <4>1. op[t] \in Op
        BY <1>0, EventIsLine DEF Good
      <4>2. CASE snap[o] = Absent
        <5>1. op' = [op EXCEPT ![t].rev = TopRevision(Trim(Lines(o)), o) + 1]
          BY <3>1, <4>2 DEF PutChecked, Journal, Lines
        <5>2. op' = [op EXCEPT ![t].rev = Latest(Lines(o), o).rev + 1]
          BY <1>1, <5>1
        <5>. QED
          BY <4>1, <5>2 DEF Op, Good, TypeOK
      <4>3. CASE snap[o] # Absent
        <5>1. op' = [op EXCEPT ![t].rev = snap[o].rev + 1]
          BY <3>1, <4>3 DEF PutChecked
        <5>2. snap[o] = Latest(Lines(o), o)
          BY <1>1, <4>3 DEF Shown
        <5>3. op' = [op EXCEPT ![t].rev = Latest(Lines(o), o).rev + 1]
          BY <5>1, <5>2
        <5>. QED
          BY <4>1, <5>3 DEF Op, Good, TypeOK
      <4>. QED
        BY <4>2, <4>3
    <3>2. CASE DeleteChecked(t)
      BY <2>1, <3>2 DEF DeleteChecked
    <3>. QED
      BY <3>1, <3>2
  <2>3. op'[t].kind = "delete" => snap[o] # Absent
    BY <2>1 DEF PutChecked, DeleteChecked
  <2>. QED
    BY <1>1, <1>2, <1>4, <2>1, <2>2, <2>3 DEF ThreadInv, Lines
<1>7. IndexInv'
  <2>1. lock'[Journal(t)] # None /\ Journal(t) \in Tasks
    BY <1>0, <1>4, EventIsLine, ConstAssumption DEF Good
  <2>2. \A s \in Threads : pc'[s] = "scan" => pc[s] = "scan" /\ scan'[s] = scan[s]
    BY <1>3, <1>4
  <2>. QED
    BY <1>4, <2>1, <2>2 DEF Good, SoundInv, IndexInv, Held
<1>. QED
  BY <1>5, <1>6, <1>7 DEF SoundInv

\* What a complete append does to the journals.
LEMMA AppendJournals ==
  ASSUME Good, NEW t \in Threads, AppendEvent(t)
  PROVE  /\ op[t] \in Op /\ op[t].obj \in Objects
         /\ Grown(log[Journal(t)], Event(t), log'[Journal(t)])
         /\ Clean(log[Journal(t)])
         /\ \A k \in Tasks \ {Journal(t)} : log'[k] = log[k]
         /\ \A o \in Objects \ {op[t].obj} : Same(o)
         /\ Shown(op[t].obj)
<1>1. op[t] \in Op /\ Event(t) \in Line /\ Journal(t) \in Tasks /\ op[t].obj \in Objects
  <2>1. pc[t] # "idle"
    BY DEF AppendEvent
  <2>. QED
    BY <2>1, EventIsLine DEF Good, Op
<1>2. log[Journal(t)] \in Seq(Line)
  BY <1>1 DEF Good, TypeOK
<1>3. Clean(log[Journal(t)])
  BY <1>1 DEF AppendEvent, Good, SoundInv, JournalInv
<1>4. /\ log'[Journal(t)] = AppendLine(log[Journal(t)], Event(t))
      /\ \A k \in Tasks \ {Journal(t)} : log'[k] = log[k]
  BY <1>1 DEF AppendEvent, Good, TypeOK
<1>5. Grown(log[Journal(t)], Event(t), log'[Journal(t)])
  BY <1>1, <1>2, <1>3, <1>4, AppendLineFacts
<1>6. ASSUME NEW o \in Objects \ {op[t].obj} PROVE Same(o)
  <2>1. TaskOf[o] \in Tasks /\ log[TaskOf[o]] \in Seq(Line)
    BY LinesType DEF Good
  <2>2. CASE TaskOf[o] # Journal(t)
    BY <1>4, <2>1, <2>2 DEF Same, Keeps
  <2>3. CASE TaskOf[o] = Journal(t)
    <3>1. Event(t).obj # o
      BY DEF Event
    <3>2. SameLines(log[TaskOf[o]], log'[TaskOf[o]], o)
      BY <1>1, <1>5, <2>1, <2>3, <3>1, GrownOther
    <3>3. log'[TaskOf[o]] \in Seq(Line)
      BY <1>5, <2>3 DEF Grown
    <3>. QED
      BY <3>2, <3>3, SameLinesSame DEF Good
  <2>. QED
    BY <2>2, <2>3
<1>7. Shown(op[t].obj)
  <2>1. lock[TaskOf[op[t].obj]] = t /\ pc[t] # "apply" /\ mode = "up"
    BY DEF AppendEvent, Good, LockInv, Journal
  <2>2. ~Applying(op[t].obj)
    BY <1>1, <2>1, NotApplying, ConstAssumption DEF Good
  <2>. QED
    BY <1>1, <2>1, <2>2 DEF Good, SoundInv, ShownInv
<1>. QED
  BY <1>1, <1>3, <1>4, <1>5, <1>6, <1>7

\* What the append of a commit does to its object.
LEMMA AppendCommit ==
  ASSUME Good, NEW t \in Threads, AppendEvent(t), op[t].kind = "put"
  PROVE  LET o == op[t].obj
             v == [rev |-> op[t].rev, payload |-> op[t].payload] IN
         /\ Keeps(o)
         /\ Latest(log'[TaskOf[o]], o) = v
         /\ HasCommit(v, log'[TaskOf[o]], o)
         /\ Numbered(log'[TaskOf[o]], o)
         /\ op[t].rev = Latest(log[TaskOf[o]], o).rev + 1
<1>. DEFINE o == op[t].obj
            v == [rev |-> op[t].rev, payload |-> op[t].payload]
            l == log[TaskOf[o]]
            m == log'[TaskOf[o]]
<1>1. o \in Objects /\ Grown(l, Event(t), m)
  BY AppendJournals DEF Journal
<1>2. Event(t) \in Line /\ Event(t).type = "OBJECT_COMMITTED" /\ Event(t).obj = o
  <2>1. pc[t] # "idle"
    BY DEF AppendEvent
  <2>. QED
    BY <2>1, EventIsLine DEF Good, Event
<1>3. l \in Seq(Line) /\ HasLatest(l, o) /\ Numbered(l, o)
  BY <1>1, LinesType DEF Good, SoundInv, VersionInv, Lines
<1>4. op[t].rev = Latest(l, o).rev + 1
  BY DEF AppendEvent, Good, SoundInv, ThreadInv, Lines
<1>5. Event(t).rev = Latest(l, o).rev + 1
  BY <1>4 DEF Event
<1>6. VersionOf(Event(t)) = v
  BY DEF Event, VersionOf
<1>. HIDE DEF o, v, l, m
<1>7. /\ Latest(m, o) = v
      /\ Numbered(m, o)
      /\ \E i \in Commits(m, o) : m[i] = Event(t)
      /\ \A i \in Commits(l, o) : i \in Commits(m, o) /\ m[i] = l[i]
  BY <1>1, <1>2, <1>3, <1>5, <1>6, GrownByNextRevision
<1>8. HasCommit(v, m, o)
  BY <1>6, <1>7 DEF HasCommit
<1>. QED
  BY <1>4, <1>7, <1>8 DEF Keeps, o, v, l, m

\* What the append of a removal does to its object.
LEMMA AppendRemoval ==
  ASSUME Good, NEW t \in Threads, AppendEvent(t), op[t].kind = "delete"
  PROVE  LET o == op[t].obj IN
         /\ Keeps(o)
         /\ Latest(log'[TaskOf[o]], o) = Latest(log[TaskOf[o]], o)
         /\ Numbered(log'[TaskOf[o]], o)
         /\ EndsRemoved(log'[TaskOf[o]], o)
         /\ snap[o] = Latest(log[TaskOf[o]], o)
<1>. DEFINE o == op[t].obj
            l == log[TaskOf[o]]
            m == log'[TaskOf[o]]
<1>1. o \in Objects /\ Grown(l, Event(t), m) /\ Shown(o)
  BY AppendJournals DEF Journal
<1>2. Event(t) \in Line /\ Event(t).type = "OBJECT_REMOVED" /\ Event(t).obj = o
  <2>1. pc[t] # "idle"
    BY DEF AppendEvent
  <2>. QED
    BY <2>1, EventIsLine DEF Good, Event
<1>3. l \in Seq(Line) /\ HasLatest(l, o) /\ Numbered(l, o)
  BY <1>1, LinesType DEF Good, SoundInv, VersionInv, Lines
<1>4. snap[o] # Absent
  BY DEF AppendEvent, Good, SoundInv, ThreadInv
<1>5. snap[o] = Latest(l, o)
  BY <1>1, <1>4 DEF Shown, Lines
<1>. HIDE DEF o, l, m
<1>6. SameCommits(l, m, o) /\ EndsRemoved(m, o) /\ m \in Seq(Line)
  BY <1>1, <1>2, <1>3, GrownNoCommit, GrownByRemoval DEF Grown
<1>7. Latest(m, o) = Latest(l, o) /\ Numbered(m, o)
  BY <1>1, <1>3, <1>6, SameCommitsFacts
<1>. QED
  BY <1>5, <1>6, <1>7 DEF Keeps, SameCommits, o, l, m

\* The append of an event.
LEMMA AppendSound ==
  ASSUME Good, NEW t \in Threads, AppendEvent(t)
  PROVE  SoundInv'
<1>. DEFINE o == op[t].obj
            l == log[TaskOf[o]]
            m == log'[TaskOf[o]]
            v == [rev |-> op[t].rev, payload |-> op[t].payload]
<1>1. /\ op[t] \in Op /\ o \in Objects
      /\ Grown(log[Journal(t)], Event(t), log'[Journal(t)])
      /\ Clean(log[Journal(t)])
      /\ \A k \in Tasks \ {Journal(t)} : log'[k] = log[k]
      /\ \A x \in Objects \ {o} : Same(x)
  BY AppendJournals
<1>2. op[t].kind \in {"put", "delete"}
  BY <1>1 DEF Op
<1>3. /\ Keeps(o)
      /\ Numbered(m, o)
      /\ op[t].kind = "put" => Latest(m, o) = v /\ HasCommit(v, m, o)
      /\ op[t].kind = "delete" => snap[o] = Latest(m, o) /\ EndsRemoved(m, o)
  BY <1>2, AppendCommit, AppendRemoval
<1>4. /\ mode = "up" /\ mode' = mode /\ replayed' = replayed /\ rebuilt' = rebuilt /\ snap' = snap
      /\ index' = index /\ lock' = lock /\ op' = op /\ scan' = scan /\ acked' = acked
      /\ pc[t] = "append" /\ pc'[t] = "apply" /\ \A s \in Threads \ {t} : pc'[s] = pc[s]
  BY DEF AppendEvent, recovery, Good, TypeOK
<1>5. JournalInv'
  <2>1. Event(t) \in Line /\ ~Bad(Event(t)) /\ Journal(t) \in Tasks
    BY <1>4, EventIsLine DEF Good, Event, Bad
  <2>2. log[Journal(t)] \in Seq(Line)
    BY <2>1 DEF Good, TypeOK
  <2>3. Readable(log'[Journal(t)]) /\ Clean(log'[Journal(t)])
    BY <1>1, <2>1, <2>2, GrownClean
  <2>. QED
    BY <1>1, <1>4, <2>3 DEF Good, SoundInv, JournalInv
<1>6. \A x \in Objects : Keeps(x)
  BY <1>1, <1>3 DEF Same
<1>7. VersionInv'
  <2>1. \A x \in Objects : Numbered(log[TaskOf[x]], x) /\ IsVersion(snap[x], log[TaskOf[x]], x)
    BY DEF Good, SoundInv, VersionInv, Lines
  <2>2. \A x \in Objects : Numbered(log'[TaskOf[x]], x)
    BY <1>1, <1>3, <2>1 DEF Same
  <2>3. \A x \in Objects : IsVersion(snap[x], log'[TaskOf[x]], x)
    BY <1>6, <2>1, VersionsStay
  <2>. QED
    BY <1>4, <2>2, <2>3 DEF VersionInv, Lines
<1>8. ShownInv'
  <2>1. ASSUME NEW x \in Objects, x = o PROVE (Applying(x) \/ Shown(x))'
    BY <1>4, <2>1 DEF Applying
  <2>2. ASSUME NEW x \in Objects \ {o} PROVE (Applying(x) \/ Shown(x))'
    <3>1. Applying(x) => Applying(x)'
      BY <1>4 DEF Applying
    <3>2. Shown(x) => Shown(x)'
      BY <1>1, <1>4 DEF Shown, Lines, Same
    <3>. QED
      BY <1>4, <3>1, <3>2 DEF Good, SoundInv, ShownInv
  <2>3. \A x \in Objects : (Applying(x) \/ Shown(x))'
    BY <2>1, <2>2
  <2>4. mode' # "recovering"
    BY <1>4
  <2>. QED
    BY <2>3, <2>4 DEF ShownInv
<1>9. ASSUME NEW s \in Threads PROVE ThreadInv(s)'
  <2>1. CASE s = t
    <3>1. IsVersion(op[t].seen, m, o)
      <4>1. IsVersion(op[t].seen, l, o)
        BY <1>4 DEF Good, SoundInv, ThreadInv, Lines
      <4>. QED
        BY <1>1, <1>3, <4>1, VersionsStay
    <3>2. snap[o] = op[t].seen /\ (op[t].kind = "delete" => snap[o] # Absent)
      BY <1>4 DEF Good, SoundInv, ThreadInv
    <3>. HIDE DEF l
    <3>. QED
      BY <1>3, <1>4, <2>1, <3>1, <3>2 DEF ThreadInv, Lines
  <2>2. CASE s # t
    <3>1. pc[s] # "idle" => op[s].obj \in Objects
      BY EventIsLine DEF Good, Op
    <3>2. pc[s] \in {"append", "apply"} => op[s].obj # o
      BY <1>4, <2>2, OneHolder DEF Good, Locked, Journal
    <3>3. pc[s] \in {"append", "apply"} => pc[s] # "idle"
      OBVIOUS
    <3>. QED
      BY <1>1, <1>4, <1>6, <2>2, <3>1, <3>2, <3>3, ThreadStays DEF Good, SoundInv
  <2>. QED
    BY <2>1, <2>2
<1>10. AckedCommitsAreDurable'
  BY <1>4, <1>6, AckedStay DEF Good, SoundInv
<1>11. IndexInv'
  <2>1. \A s \in Threads : pc'[s] = "scan" => pc[s] = "scan" /\ scan'[s] = scan[s]
    BY <1>4
  <2>. QED
    BY <1>4, <2>1, IndexQuiet DEF Good, SoundInv
<1>. QED
  BY <1>5, <1>7, <1>8, <1>9, <1>10, <1>11 DEF SoundInv

\* The snapshot of a put or delete is written.
LEMMA ApplySound ==
  ASSUME Good, NEW t \in Threads, ApplySnapshot(t)
  PROVE  SoundInv'
<1>. DEFINE o == op[t].obj
            v == [rev |-> op[t].rev, payload |-> op[t].payload]
<1>1. op[t] \in Op /\ o \in Objects /\ op[t].kind \in {"put", "delete"} /\ Journal(t) \in Tasks
  <2>1. pc[t] # "idle"
    BY DEF ApplySnapshot
  <2>. QED
    BY <2>1, EventIsLine DEF Good, Op
<1>2. /\ mode = "up" /\ mode' = mode /\ replayed' = replayed /\ rebuilt' = rebuilt /\ log' = log
      /\ index' = index /\ lock' = lock /\ op' = op /\ scan' = scan /\ acked' = acked
      /\ pc[t] = "apply" /\ pc'[t] = "scan" /\ \A s \in Threads \ {t} : pc'[s] = pc[s]
  BY DEF ApplySnapshot, recovery, Good, TypeOK
<1>3. /\ snap'[o] = IF op[t].kind = "put" THEN v ELSE Absent
      /\ \A x \in Objects \ {o} : snap'[x] = snap[x]
  BY <1>1 DEF ApplySnapshot, Good, TypeOK
<1>4. /\ op[t].kind = "put" => Latest(Lines(o), o) = v /\ HasCommit(v, Lines(o), o)
      /\ op[t].kind = "delete" => EndsRemoved(Lines(o), o)
  BY <1>2 DEF Good, SoundInv, ThreadInv
<1>5. JournalInv'
  BY <1>2 DEF Good, SoundInv, JournalInv
<1>6. VersionInv'
  <2>1. IsVersion(snap'[o], Lines(o), o)
    BY <1>1, <1>3, <1>4 DEF IsVersion
  <2>2. \A x \in Objects : Numbered(Lines(x), x) /\ IsVersion(snap'[x], Lines(x), x)
    BY <1>3, <2>1 DEF Good, SoundInv, VersionInv
  <2>. QED
    BY <1>2, <2>2 DEF VersionInv, Lines
<1>7. ShownInv'
  <2>1. ASSUME NEW x \in Objects, x = o PROVE (Applying(x) \/ Shown(x))'
    BY <1>1, <1>2, <1>3, <1>4, <2>1 DEF Shown, Lines
  <2>2. ASSUME NEW x \in Objects \ {o} PROVE (Applying(x) \/ Shown(x))'
    <3>1. Applying(x) => Applying(x)'
      BY <1>2 DEF Applying
    <3>2. Shown(x) => Shown(x)'
      BY <1>2, <1>3 DEF Shown, Lines
    <3>. QED
      BY <1>2, <3>1, <3>2 DEF Good, SoundInv, ShownInv
  <2>3. \A x \in Objects : (Applying(x) \/ Shown(x))'
    BY <2>1, <2>2
  <2>4. mode' # "recovering"
    BY <1>2
  <2>. QED
    BY <2>3, <2>4 DEF ShownInv
<1>8. ASSUME NEW s \in Threads PROVE ThreadInv(s)'
  <2>1. CASE s = t
    <3>1. IsVersion(op[t].seen, Lines(o), o)
      BY <1>2 DEF Good, SoundInv, ThreadInv
    <3>. QED
      BY <1>2, <1>4, <2>1, <3>1 DEF ThreadInv, Lines
  <2>2. CASE s # t
    <3>1. pc[s] # "idle" => op[s].obj \in Objects
      BY EventIsLine DEF Good, Op
    <3>2. pc[s] \in {"append", "apply"} => op[s].obj # o
      BY <1>2, <2>2, OneHolder DEF Good, Locked, Journal
    <3>3. pc[s] \in {"append", "apply"} => pc[s] # "idle"
      OBVIOUS
    <3>4. \A x \in Objects : Same(x) /\ Keeps(x)
      BY <1>2, QuietSame DEF Same
    <3>. QED
      BY <1>2, <1>3, <2>2, <3>1, <3>2, <3>3, <3>4, ThreadStays DEF Good, SoundInv
  <2>. QED
    BY <2>1, <2>2
<1>9. AckedCommitsAreDurable'
  BY <1>2 DEF Good, SoundInv, AckedCommitsAreDurable
<1>10. IndexInv'
  <2>. SUFFICES ASSUME \A j, k \in Tasks : j = k
                PROVE  /\ ~(\A k \in Tasks : ~Held(k)')
                       /\ \A s \in Threads : pc'[s] = "scan" => \A x \in Objects : scan'[s][x] \in {Unread, snap'[x]}
    BY DEF IndexInv
  <2>1. Held(Journal(t))'
    <3>1. lock[Journal(t)] = t
      BY <1>2 DEF Good, LockInv
    <3>. QED
      BY <1>2, <3>1, ConstAssumption DEF Held, Journal
  <2>2. ASSUME NEW s \in Threads, pc'[s] = "scan" PROVE s = t
    <3>1. CASE pc[s] = "scan"
      <4>1. Journal(s) \in Tasks
        BY <3>1, EventIsLine DEF Good
      <4>2. Journal(s) = Journal(t)
        BY <1>1, <4>1
      <4>. QED
        BY <1>2, <3>1, <4>2, OneHolder DEF Good, Locked
    <3>. QED
      BY <1>2, <2>2, <3>1
  <2>3. \A x \in Objects : scan'[t][x] = Unread
    BY <1>2 DEF Good, RequestInv, NoScan
  <2>4. Journal(t)' \in Tasks /\ Journal(t)' = Journal(t)
    BY <1>1, <1>2 DEF Journal
  <2>. QED
    BY <1>1, <2>1, <2>2, <2>3, <2>4
<1>. QED
  BY <1>5, <1>6, <1>7, <1>8, <1>9, <1>10 DEF SoundInv

\* One file of the index scan.
LEMMA ScanSound ==
  ASSUME Good, NEW t \in Threads, ScanSnapshot(t)
  PROVE  SoundInv'
<1>1. /\ mode' = mode /\ replayed' = replayed /\ rebuilt' = rebuilt /\ log' = log /\ snap' = snap
      /\ index' = index /\ lock' = lock /\ op' = op /\ acked' = acked /\ pc' = pc /\ pc[t] = "scan"
  BY DEF ScanSnapshot, recovery, files
<1>2. /\ JournalInv' /\ VersionInv' /\ ShownInv' /\ AckedCommitsAreDurable'
      /\ \A s \in Threads \ {t} : ThreadInv(s)'
  BY <1>1, QuietStep
<1>3. ThreadInv(t)'
  BY <1>1 DEF Good, SoundInv, ThreadInv, Lines
<1>4. \A s \in Threads \ {t} : scan'[s] = scan[s]
  BY DEF ScanSnapshot, Good, TypeOK
<1>5. \A x \in Objects : scan'[t][x] \in {scan[t][x], snap[x]}
  <2>1. NextFile(t) \in Objects
    BY NextFileIs DEF ScanSnapshot
  <2>2. scan'[t] = [scan[t] EXCEPT ![NextFile(t)] = snap[NextFile(t)]]
    BY DEF ScanSnapshot, Good, TypeOK
  <2>3. scan[t] \in [Objects -> Version \cup {Unread}]
    BY DEF Good, TypeOK
  <2>. QED
    BY <2>1, <2>2, <2>3
<1>6. IndexInv'
  <2>1. IndexInv
    BY DEF Good, SoundInv
  <2>2. (\A j, k \in Tasks : j = k) =>
          \A s \in Threads : pc[s] = "scan" => \A x \in Objects : scan'[s][x] \in {Unread, snap[x]}
    BY <1>4, <1>5, <2>1 DEF IndexInv
  <2>. QED
    BY <1>1, <2>1, <2>2 DEF IndexInv, Held
<1>. QED
  BY <1>2, <1>3, <1>6 DEF SoundInv

\* The index is written and the call returns.
LEMMA WriteSound ==
  ASSUME Good, NEW t \in Threads, WriteIndex(t)
  PROVE  SoundInv'
<1>. DEFINE o == op[t].obj
            v == [rev |-> op[t].rev, payload |-> op[t].payload]
<1>1. op[t] \in Op /\ o \in Objects /\ Journal(t) \in Tasks
  <2>1. pc[t] # "idle"
    BY DEF WriteIndex
  <2>. QED
    BY <2>1, EventIsLine DEF Good, Op
<1>2. /\ mode' = mode /\ replayed' = replayed /\ rebuilt' = rebuilt /\ log' = log /\ snap' = snap
      /\ index' = scan[t] /\ pc[t] = "scan"
      /\ \A x \in Objects : scan[t][x] # Unread
  BY DEF WriteIndex, recovery
<1>3. pc'[t] = "idle"
  BY DEF WriteIndex, Release, Return, Good, TypeOK
<1>4. \A s \in Threads \ {t} : pc'[s] = pc[s] /\ op'[s] = op[s] /\ scan'[s] = scan[s]
  BY OthersStay DEF ThreadStep, Progress, Good
<1>5. /\ JournalInv' /\ VersionInv' /\ ShownInv'
      /\ \A s \in Threads \ {t} : ThreadInv(s)'
  BY <1>2, <1>4, QuietStep
<1>6. ThreadInv(t)'
  BY <1>3 DEF ThreadInv
<1>7. AckedCommitsAreDurable'
  <2>1. AckedCommitsAreDurable
    BY DEF Good, SoundInv
  <2>2. ASSUME NEW c \in acked'
        PROVE  \E i \in Commits(log[TaskOf[c.obj]], c.obj) :
                 log[TaskOf[c.obj]][i].rev = c.rev /\ log[TaskOf[c.obj]][i].payload = c.payload
    <3>1. CASE c \in acked
      BY <2>1, <3>1 DEF AckedCommitsAreDurable
    <3>2. CASE c \notin acked
      <4>1. op[t].kind = "put" /\ c = [obj |-> o, rev |-> op[t].rev, payload |-> op[t].payload]
        BY <2>2, <3>2 DEF WriteIndex
      <4>2. c.obj = o /\ c.rev = op[t].rev /\ c.payload = op[t].payload
        BY <4>1
      <4>3. HasCommit(v, log[TaskOf[o]], o)
        BY <1>2, <4>1 DEF Good, SoundInv, ThreadInv, Lines
      <4>. HIDE DEF o
      <4>4. PICK i \in Commits(log[TaskOf[o]], o) : VersionOf(log[TaskOf[o]][i]) = v
        BY <4>3 DEF HasCommit
      <4>5. log[TaskOf[o]][i].rev = op[t].rev /\ log[TaskOf[o]][i].payload = op[t].payload
        BY <4>4 DEF VersionOf
      <4>. QED
        BY <4>2, <4>4, <4>5
    <3>. QED
      BY <3>1, <3>2
  <2>. QED
    BY <1>2, <2>2 DEF AckedCommitsAreDurable
<1>8. IndexInv'
  <2>. SUFFICES ASSUME \A j, k \in Tasks : j = k
                PROVE  /\ index' = snap
                       /\ \A s \in Threads : pc'[s] = "scan" => \A x \in Objects : scan'[s][x] \in {Unread, snap[x]}
    BY <1>2 DEF IndexInv
  <2>1. \A s \in Threads : pc[s] = "scan" => \A x \in Objects : scan[s][x] \in {Unread, snap[x]}
    BY DEF Good, SoundInv, IndexInv
  <2>2. \A x \in Objects : scan[t][x] = snap[x]
    BY <1>2, <2>1
  <2>3. scan[t] \in [Objects -> Version \cup {Unread}] /\ snap \in [Objects -> Version]
    BY DEF Good, TypeOK
  <2>4. scan[t] = snap
    BY <2>2, <2>3
  <2>. QED
    BY <1>2, <1>3, <1>4, <2>1, <2>4
<1>. QED
  BY <1>5, <1>6, <1>7, <1>8 DEF SoundInv

\* While no thread runs, only journals, snapshots and acknowledgements say something.
LEMMA StoppedThreads ==
  ASSUME mode' # "up", \A t \in Threads : pc'[t] = "idle"
  PROVE  (\A t \in Threads : ThreadInv(t))' /\ IndexInv'
  BY DEF ThreadInv, IndexInv

\* A crash, with or without a torn append.
LEMMA CrashSound ==
  ASSUME Good, Crash
  PROVE  SoundInv'
<1>1. /\ mode' = "down" /\ snap' = snap /\ acked' = acked
      /\ \A t \in Threads : pc'[t] = "idle"
  BY DEF Crash
<1>2. (\A o \in Objects : Same(o)) /\ (\A k \in Tasks : Readable(log'[k]))
  <2>1. CASE log' = log
    BY <2>1, QuietSame DEF Good, SoundInv, JournalInv
  <2>2. ASSUME NEW t \in Threads, pc[t] = "append",
               log' = [log EXCEPT ![Journal(t)] = AppendLine(@, [Event(t) EXCEPT !.type = "TORN"])]
        PROVE  (\A o \in Objects : Same(o)) /\ (\A k \in Tasks : Readable(log'[k]))
    <3>. DEFINE k == Journal(t)
                r == [Event(t) EXCEPT !.type = "TORN"]
    <3>1. k \in Tasks /\ r \in Line /\ r.type = "TORN"
      BY <2>2, EventIsLine DEF Good, Event
    <3>2. Clean(log[k]) /\ log[k] \in Seq(Line)
      BY <2>2, <3>1 DEF Good, SoundInv, JournalInv, LockInv, TypeOK
    <3>3. log'[k] = AppendLine(log[k], r) /\ \A j \in Tasks \ {k} : log'[j] = log[j]
      BY <2>2, <3>1 DEF Good, TypeOK
    <3>. HIDE DEF k, r
    <3>4. Grown(log[k], r, log'[k])
      BY <3>1, <3>2, <3>3, AppendLineFacts
    <3>5. Readable(log'[k])
      BY <3>1, <3>2, <3>4, GrownClean
    <3>6. ASSUME NEW o \in Objects PROVE Same(o)
      <4>1. TaskOf[o] \in Tasks
        BY ConstAssumption
      <4>2. CASE TaskOf[o] # k
        BY <3>3, <4>1, <4>2 DEF Same, Keeps
      <4>3. CASE TaskOf[o] = k
        <5>1. SameLines(log[k], log'[k], o)
          BY <3>1, <3>2, <3>4, GrownOther
        <5>. QED
          BY <3>4, <4>3, <5>1, SameLinesSame DEF Good, Grown
      <4>. QED
        BY <4>2, <4>3
    <3>. QED
      BY <3>3, <3>5, <3>6 DEF Good, SoundInv, JournalInv
  <2>. QED
    BY <2>1, <2>2 DEF Crash
<1>3. JournalInv'
  BY <1>1, <1>2 DEF JournalInv
<1>4. VersionInv'
  <2>1. \A o \in Objects : Numbered(log[TaskOf[o]], o) /\ IsVersion(snap[o], log[TaskOf[o]], o)
    BY DEF Good, SoundInv, VersionInv, Lines
  <2>2. \A o \in Objects : Numbered(log'[TaskOf[o]], o) /\ IsVersion(snap[o], log'[TaskOf[o]], o)
    BY <1>2, <2>1, VersionsStay DEF Same
  <2>. QED
    BY <1>1, <2>2 DEF VersionInv, Lines
<1>5. ShownInv'
  BY <1>1 DEF ShownInv
<1>6. AckedCommitsAreDurable'
  BY <1>1, <1>2, AckedStay DEF Good, SoundInv, Same
<1>. QED
  BY <1>1, <1>3, <1>4, <1>5, <1>6, StoppedThreads DEF SoundInv

\* The start of a recovery.
LEMMA StartSound ==
  ASSUME Good, Start
  PROVE  SoundInv'
<1>1. /\ mode = "down" /\ mode' = "recovering" /\ replayed' = {} /\ rebuilt' = {}
      /\ log' = log /\ snap' = snap /\ index' = index /\ pc' = pc /\ acked' = acked
  BY DEF Start, files, threads
<1>2. \A t \in Threads : pc'[t] = "idle"
  BY <1>1 DEF Good, LockInv
<1>3. JournalInv'
  BY <1>1 DEF Good, SoundInv, JournalInv
<1>4. VersionInv'
  BY <1>1 DEF Good, SoundInv, VersionInv, Lines
<1>5. ShownInv'
  BY <1>1 DEF ShownInv
<1>6. AckedCommitsAreDurable'
  BY <1>1 DEF Good, SoundInv, AckedCommitsAreDurable
<1>. QED
  BY <1>1, <1>2, <1>3, <1>4, <1>5, <1>6, StoppedThreads DEF SoundInv

\* The truncation of a journal says the same.
LEMMA TrimSame ==
  ASSUME TypeOK, LatestInv, NEW k \in Tasks, log' = [log EXCEPT ![k] = Trim(log[k])], NEW o \in Objects
  PROVE  Same(o)
<1>1. TaskOf[o] \in Tasks /\ log[TaskOf[o]] \in Seq(Line)
  BY LinesType
<1>2. CASE TaskOf[o] # k
  BY <1>1, <1>2 DEF Same, Keeps, TypeOK
<1>3. CASE TaskOf[o] = k
  <2>1. log'[TaskOf[o]] = Trim(log[TaskOf[o]])
    BY <1>3 DEF TypeOK
  <2>2. Trim(log[TaskOf[o]]) \in Seq(Line) /\ SameLines(log[TaskOf[o]], Trim(log[TaskOf[o]]), o)
    BY <1>1, TrimFacts
  <2>. QED
    BY <2>1, <2>2, SameLinesSame
<1>. QED
  BY <1>2, <1>3

\* The recovery reads one journal.
LEMMA RecoverJournalSound ==
  ASSUME Good, NEW k \in Tasks, RecoverJournal(k)
  PROVE  SoundInv'
<1>1. /\ mode = "recovering" /\ mode' = mode /\ replayed' = replayed \cup {k}
      /\ log' = [log EXCEPT ![k] = Trim(log[k])]
      /\ rebuilt' = rebuilt /\ snap' = snap /\ pc' = pc /\ acked' = acked
  BY DEF RecoverJournal, threads, Good, SoundInv, JournalInv
<1>2. \A t \in Threads : pc'[t] = "idle"
  BY <1>1 DEF Good, LockInv
<1>3. \A o \in Objects : Same(o)
  BY <1>1, TrimSame DEF Good
<1>4. JournalInv'
  <2>1. log'[k] = Trim(log[k]) /\ \A j \in Tasks \ {k} : log'[j] = log[j]
    BY <1>1 DEF Good, TypeOK
  <2>2. Clean(log'[k])
    BY <2>1, TrimFacts DEF Good, SoundInv, JournalInv, TypeOK
  <2>3. Readable(log'[k])
    BY <2>2 DEF Clean, Readable
  <2>. QED
    BY <1>1, <2>1, <2>2, <2>3 DEF Good, SoundInv, JournalInv
<1>5. VersionInv'
  <2>1. \A o \in Objects : Numbered(log[TaskOf[o]], o) /\ IsVersion(snap[o], log[TaskOf[o]], o)
    BY DEF Good, SoundInv, VersionInv, Lines
  <2>2. \A o \in Objects : Numbered(log'[TaskOf[o]], o) /\ IsVersion(snap[o], log'[TaskOf[o]], o)
    BY <1>3, <2>1, VersionsStay DEF Same
  <2>. QED
    BY <1>1, <2>2 DEF VersionInv, Lines
<1>6. ShownInv'
  BY <1>1, <1>3 DEF Good, SoundInv, ShownInv, Lines, Same
<1>7. AckedCommitsAreDurable'
  BY <1>1, <1>3, AckedStay DEF Good, SoundInv, Same
<1>. QED
  BY <1>1, <1>2, <1>4, <1>5, <1>6, <1>7, StoppedThreads DEF SoundInv

\* No snapshot is newer than its journal, so that recovery writes the latest commit.
LEMMA RecoveredIsLatest ==
  ASSUME Good, NEW o \in Objects, RecoverSnapshot(o)
  PROVE  /\ mode = "recovering" /\ mode' = mode
         /\ Lines(o) \in Seq(Line) /\ HasLatest(Lines(o), o)
         /\ snap' = [snap EXCEPT ![o] = Latest(Lines(o), o)]
         /\ rebuilt' = rebuilt \cup {o}
<1>1. Lines(o) \in Seq(Line) /\ HasLatest(Lines(o), o)
  BY LinesType DEF Good, Lines
<1>2. /\ \A j \in Commits(Lines(o), o) : Lines(o)[j].rev \in Nat /\ Lines(o)[j].rev <= Latest(Lines(o), o).rev
      /\ Latest(Lines(o), o) \in Version
  BY <1>1, LatestFacts
<1>3. snap[o].rev <= Latest(Lines(o), o).rev
  <2>1. Latest(Lines(o), o).rev \in Nat
    BY <1>2 DEF Version
  <2>2. CASE snap[o] = Absent
    BY <2>1, <2>2 DEF Absent
  <2>3. CASE HasCommit(snap[o], Lines(o), o)
    <3>1. PICK i \in Commits(Lines(o), o) : VersionOf(Lines(o)[i]) = snap[o]
      BY <2>3 DEF HasCommit
    <3>2. snap[o].rev = Lines(o)[i].rev
      BY <3>1 DEF VersionOf
    <3>. QED
      BY <1>2, <3>2
  <2>. QED
    BY <2>2, <2>3 DEF Good, SoundInv, VersionInv, IsVersion
<1>4. ~(snap[o].rev > Latest(Lines(o), o).rev)
  <2>1. snap[o].rev \in Nat /\ Latest(Lines(o), o).rev \in Nat
    BY <1>2 DEF Good, TypeOK, Version
  <2>. QED
    BY <1>3, <2>1
<1>5. Recovered(snap[o], Latest(Lines(o), o)) = Latest(Lines(o), o)
  BY DEF Recovered
<1>. QED
  BY <1>1, <1>4, <1>5 DEF RecoverSnapshot, Lines

\* The recovery handles one snapshot.
LEMMA RecoverSnapshotSound ==
  ASSUME Good, NEW o \in Objects, RecoverSnapshot(o)
  PROVE  SoundInv'
<1>1. /\ mode = "recovering" /\ mode' = mode
      /\ Lines(o) \in Seq(Line) /\ HasLatest(Lines(o), o)
      /\ snap' = [snap EXCEPT ![o] = Latest(Lines(o), o)]
      /\ rebuilt' = rebuilt \cup {o}
  BY RecoveredIsLatest
<1>2. replayed' = replayed /\ log' = log /\ pc' = pc /\ acked' = acked
  BY DEF RecoverSnapshot, threads
<1>3. \A t \in Threads : pc'[t] = "idle"
  BY <1>1, <1>2 DEF Good, LockInv
<1>4. snap'[o] = Latest(Lines(o), o) /\ \A x \in Objects \ {o} : snap'[x] = snap[x]
  BY <1>1 DEF Good, TypeOK
<1>5. JournalInv'
  BY <1>1, <1>2 DEF Good, SoundInv, JournalInv
<1>6. VersionInv'
  <2>1. IsVersion(snap'[o], Lines(o), o)
    BY <1>1, <1>4, LatestFacts
  <2>2. \A x \in Objects : Numbered(Lines(x), x) /\ IsVersion(snap'[x], Lines(x), x)
    BY <1>4, <2>1 DEF Good, SoundInv, VersionInv
  <2>. QED
    BY <1>2, <2>2 DEF VersionInv, Lines
<1>7. ShownInv'
  <2>1. \A x \in rebuilt' : snap'[x] = Latest(Lines(x), x)
    BY <1>1, <1>4 DEF Good, SoundInv, ShownInv, TypeOK
  <2>. QED
    BY <1>1, <1>2, <2>1 DEF ShownInv, Lines
<1>8. AckedCommitsAreDurable'
  BY <1>2 DEF Good, SoundInv, AckedCommitsAreDurable
<1>. QED
  BY <1>1, <1>3, <1>5, <1>6, <1>7, <1>8, StoppedThreads DEF SoundInv

\* The end of a recovery.
LEMMA FinishSound ==
  ASSUME Good, FinishRecovery
  PROVE  SoundInv'
<1>1. \A o \in Objects : snap[o] = Latest(Lines(o), o)
  <2>. TAKE o \in Objects
  <2>1. Lines(o) \in Seq(Line) /\ HasLatest(Lines(o), o)
    BY LinesType DEF Good, Lines
  <2>2. CASE Commits(Lines(o), o) # {}
    BY <2>2 DEF FinishRecovery, Lines, Good, SoundInv, ShownInv
  <2>3. CASE Commits(Lines(o), o) = {}
    <3>1. snap[o] = Absent
      BY <2>3 DEF Good, SoundInv, VersionInv, IsVersion, HasCommit
    <3>. QED
      BY <2>1, <2>3, <3>1, LatestFacts
  <2>. QED
    BY <2>2, <2>3
<1>2. \A o \in Objects : snap[o] # Absent => Commits(Lines(o), o) # {}
  BY DEF Good, SoundInv, VersionInv, IsVersion, HasCommit
<1>3. /\ mode = "recovering" /\ mode' = "up" /\ index' = snap /\ replayed = Tasks
      /\ replayed' = replayed /\ rebuilt' = rebuilt /\ log' = log /\ snap' = snap
      /\ pc' = pc /\ acked' = acked
  BY <1>2 DEF FinishRecovery, RebuiltIndex, Lines, threads
<1>4. \A t \in Threads : pc'[t] = "idle"
  BY <1>3 DEF Good, LockInv
<1>5. JournalInv'
  BY <1>3 DEF Good, SoundInv, JournalInv
<1>6. VersionInv'
  BY <1>3 DEF Good, SoundInv, VersionInv, Lines
<1>7. ShownInv'
  BY <1>1, <1>3 DEF ShownInv, Shown, Lines
<1>8. (\A t \in Threads : ThreadInv(t))' /\ IndexInv'
  BY <1>3, <1>4 DEF ThreadInv, IndexInv
<1>9. AckedCommitsAreDurable'
  BY <1>3 DEF Good, SoundInv, AckedCommitsAreDurable
<1>. QED
  BY <1>5, <1>6, <1>7, <1>8, <1>9 DEF SoundInv

-----------------------------------------------------------------------------
(* The invariant holds, and the properties follow.                         *)

\* Every step keeps the invariant.
LEMMA InvStep ==
  ASSUME IInv, [IONext]_vars
  PROVE  IInv'
<1>1. TypeOK' /\ LatestInv'
  BY TypeStep DEF IInv
<1>2. LockInv' /\ RequestInv'
  BY LockStep, RequestStep DEF IInv
<1>3. ASSUME ioErrors' = 0 PROVE SoundInv'
  <2>1. /\ ioErrors = 0
        /\ ~(\E t \in Threads : AppendFails(t) \/ ApplyFails(t) \/ IndexFails(t))
    <3>1. ASSUME NEW t \in Threads, AppendFails(t) \/ ApplyFails(t) \/ IndexFails(t) PROVE FALSE
      <4>1. ioErrors' = ioErrors + 1
        BY <3>1 DEF AppendFails, ApplyFails, IndexFails, WriteError
      <4>. QED
        BY <1>3, <4>1 DEF IInv, TypeOK
    <3>2. CASE Next
      BY <1>3, <3>1, <3>2 DEF Next, Request, Call, LockTimeout, Progress, Refuse, PutChecked, DeleteChecked,
                        AppendEvent, ApplySnapshot, ScanSnapshot, WriteIndex, Crash, Recover, Start,
                        RecoverJournal, RecoverSnapshot, FinishRecovery, budget
    <3>3. CASE UNCHANGED vars
      BY <1>3, <3>1, <3>3 DEF vars, budget
    <3>. QED
      BY <3>1, <3>2, <3>3 DEF IONext
  <2>2. Good
    BY <2>1 DEF IInv, Good
  <2>3. CASE Next
    <3>1. ASSUME NEW t \in Threads, Request(t) \/ LockTimeout(t) \/ Progress(t) PROVE SoundInv'
      BY <2>2, <3>1, CallSound, CheckedSound, AppendSound, ApplySound, ScanSound, WriteSound DEF Progress
    <3>2. CASE Crash
      BY <2>2, <3>2, CrashSound
    <3>3. CASE Recover
      BY <2>2, <3>3, StartSound, RecoverJournalSound, RecoverSnapshotSound, FinishSound DEF Recover
    <3>. QED
      BY <2>3, <3>1, <3>2, <3>3 DEF Next
  <2>4. CASE UNCHANGED vars
    <3>1. /\ mode' = mode /\ replayed' = replayed /\ rebuilt' = rebuilt /\ log' = log /\ snap' = snap
          /\ index' = index /\ lock' = lock /\ pc' = pc /\ op' = op /\ scan' = scan /\ acked' = acked
      BY <2>4 DEF vars, recovery, files, threads
    <3>2. SoundInv
      BY <2>2 DEF Good
    <3>3. JournalInv' /\ VersionInv' /\ ShownInv' /\ (\A t \in Threads : ThreadInv(t))'
      BY <3>1, <3>2 DEF SoundInv, JournalInv, VersionInv, ShownInv, ThreadInv, Shown, Applying, Lines
    <3>4. AckedCommitsAreDurable' /\ IndexInv'
      BY <3>1, <3>2 DEF SoundInv, AckedCommitsAreDurable, IndexInv, Held
    <3>. QED
      BY <3>3, <3>4 DEF SoundInv
  <2>. QED
    BY <2>1, <2>3, <2>4 DEF IONext
<1>. QED
  BY <1>1, <1>2, <1>3 DEF IInv

\* The invariant holds in every state.
LEMMA InvAlways == IOSpec => []IInv
<1>1. Init => IInv
  BY InitInv
<1>2. IInv /\ [IONext]_vars => IInv'
  BY InvStep
<1>. QED
  BY <1>1, <1>2, PTL DEF IOSpec

\* The types of the repository and of its threads, whatever writes fail.
THEOREM StoreTypeCorrect == IOSpec => []TypeOK
<1>1. IInv => TypeOK
  BY DEF IInv
<1>. QED
  BY <1>1, InvAlways, PTL

\* put and delete never lose a commit: what was acknowledged stays in the journal, and
\* what a commit replaces is what its caller had read.
THEOREM CommitsAreKeptAlways == IOSpec => []CommitsAreKept
<1>1. IInv => CommitsAreKept
  <2>. SUFFICES ASSUME IInv, ioErrors = 0
                PROVE  AckedCommitsAreDurable /\ CommitReplacesWhatWasRead
    BY DEF CommitsAreKept
  <2>1. SoundInv
    BY DEF IInv
  <2>2. AckedCommitsAreDurable
    BY <2>1 DEF SoundInv
  <2>3. CommitReplacesWhatWasRead
    BY <2>1 DEF SoundInv, ThreadInv, CommitReplacesWhatWasRead
  <2>. QED
    BY <2>2, <2>3
<1>. QED
  BY <1>1, InvAlways, PTL

\* While the store serves and nobody writes, get and list return the last commits, and
\* the index of one directory lists them.
THEOREM SnapshotIsLatestCommitAlways == IOSpec => []SnapshotIsLatestCommit
<1>1. IInv => SnapshotIsLatestCommit
  <2>. SUFFICES ASSUME IInv, ioErrors = 0
                PROVE  /\ \A o \in Objects : Settled(o) =>
                            \/ snap[o] = Latest(log[TaskOf[o]], o)
                            \/ snap[o] = Absent /\ Removed(o)
                       /\ (\A j, k \in Tasks : j = k) /\ mode = "up" /\ (\A k \in Tasks : ~Held(k))
                            => index = snap
    BY DEF SnapshotIsLatestCommit
  <2>1. SoundInv /\ LockInv /\ TypeOK /\ LatestInv
    BY DEF IInv
  <2>2. ASSUME NEW o \in Objects, Settled(o)
        PROVE  \/ snap[o] = Latest(log[TaskOf[o]], o)
               \/ snap[o] = Absent /\ Removed(o)
    <3>1. mode = "up" /\ lock[TaskOf[o]] = None
      BY <2>2 DEF Settled, Held
    <3>2. ~Applying(o)
      BY <2>1, <3>1, NotApplying, ConstAssumption
    <3>3. Shown(o)
      BY <2>1, <3>1, <3>2 DEF SoundInv, ShownInv
    <3>4. ASSUME snap[o] = Absent, EndsRemoved(log[TaskOf[o]], o)
          PROVE  snap[o] = Latest(log[TaskOf[o]], o) \/ Removed(o)
      <4>1. log[TaskOf[o]] \in Seq(Line) /\ HasLatest(log[TaskOf[o]], o)
        BY <2>1, LinesType
      <4>2. CASE Commits(log[TaskOf[o]], o) = {}
        BY <3>4, <4>1, <4>2, LatestFacts
      <4>3. CASE Commits(log[TaskOf[o]], o) # {}
        BY <3>4, <4>1, <4>3, EndsRemovedIs DEF Removed
      <4>. QED
        BY <4>2, <4>3
    <3>. QED
      BY <3>3, <3>4 DEF Shown, Lines
  <2>. QED
    BY <2>1, <2>2 DEF SoundInv, IndexInv
<1>. QED
  BY <1>1, InvAlways, PTL

-----------------------------------------------------------------------------
(* The repository implements the registers of RevisionedStore.             *)

\* The registers the repository shows: their last commits, and those of which readers
\* do not see the last commit yet.
Committed == [o \in Objects |-> Latest(log[TaskOf[o]], o)]
AwaitsPublication(o) ==
  CASE mode = "recovering" -> o \notin rebuilt
    [] mode = "up" -> \E t \in Threads : pc[t] = "apply" /\ op[t].kind = "put" /\ op[t].obj = o
    [] OTHER -> TRUE
Pending == {o \in Objects : Commits(log[TaskOf[o]], o) # {} /\ AwaitsPublication(o)}

\* An object has a last commit when it has commits.
LEMMA CommittedOnes ==
  ASSUME Good, NEW o \in Objects
  PROVE  /\ Commits(log[TaskOf[o]], o) # {} <=> Latest(log[TaskOf[o]], o) # Absent
         /\ Committed[o] = Latest(log[TaskOf[o]], o)
<1>1. log[TaskOf[o]] \in Seq(Line) /\ HasLatest(log[TaskOf[o]], o) /\ Numbered(log[TaskOf[o]], o)
  BY LinesType DEF Good, SoundInv, VersionInv, Lines
<1>2. /\ Commits(log[TaskOf[o]], o) = {} => Latest(log[TaskOf[o]], o) = Absent
      /\ Commits(log[TaskOf[o]], o) # {} => Latest(log[TaskOf[o]], o).rev >= 1
  BY <1>1, LatestFacts
<1>3. ~(Absent.rev >= 1)
  BY DEF Absent
<1>4. Committed[o] = Latest(log[TaskOf[o]], o)
  BY DEF Committed
<1>. QED
  BY <1>2, <1>3, <1>4

\* Which registers await their publication, by their last commits.
LEMMA PendingOnes ==
  ASSUME Good
  PROVE  Pending = {o \in Objects : Committed[o] # Absent /\ AwaitsPublication(o)}
  BY CommittedOnes DEF Pending

\* The same after a step.
LEMMA PendingOnesNext ==
  Good' => Pending' = {o \in Objects : Committed'[o] # Absent /\ AwaitsPublication(o)'}
<1>1. Good => Pending = {o \in Objects : Committed[o] # Absent /\ AwaitsPublication(o)}
  BY PendingOnes
<1>2. (Good => Pending = {o \in Objects : Committed[o] # Absent /\ AwaitsPublication(o)})'
  BY <1>1, PTL
<1>. QED
  BY <1>2

\* Journals that say the same have the same last commits.
LEMMA SameCommitted ==
  ASSUME \A o \in Objects : Same(o)
  PROVE  Committed' = Committed
  BY DEF Committed, Same

\* The steps of a thread that neither append nor publish leave the registers alone.
LEMMA ThreadStutters ==
  ASSUME Good, Good', NEW t \in Threads,
         \/ Request(t) \/ LockTimeout(t) \/ Refuse(t) \/ PutChecked(t) \/ DeleteChecked(t)
         \/ ScanSnapshot(t) \/ WriteIndex(t)
  PROVE  Committed' = Committed /\ Pending' = Pending /\ snap' = snap
<1>1. mode = "up" /\ mode' = "up" /\ snap' = snap
  BY DEF Request, Call, LockTimeout, Refuse, PutChecked, DeleteChecked, ScanSnapshot, WriteIndex,
         recovery, files
<1>2. log' = log
  <2>1. CASE PutChecked(t)
    <3>1. Trim(Lines(op[t].obj)) = Lines(op[t].obj)
      BY <2>1, AtTheLock DEF PutChecked
    <3>2. log' = [log EXCEPT ![Journal(t)] = Trim(log[Journal(t)])] => log' = log
      BY <3>1 DEF Journal, Lines, Good, TypeOK
    <3>. QED
      BY <2>1, <3>2 DEF PutChecked
  <2>2. CASE ~PutChecked(t)
    BY <2>2 DEF Request, Call, LockTimeout, Refuse, DeleteChecked, ScanSnapshot, WriteIndex, files
  <2>. QED
    BY <2>1, <2>2
<1>3. Committed' = Committed
  BY <1>2 DEF Committed
<1>4. pc[t] # "apply" /\ pc'[t] # "apply"
  BY DEF Request, Call, LockTimeout, Refuse, PutChecked, DeleteChecked, ScanSnapshot, WriteIndex,
         Release, Return, Good, TypeOK
<1>5. \A s \in Threads \ {t} : pc'[s] = pc[s] /\ op'[s] = op[s]
  BY OthersStay DEF ThreadStep, Progress, Good
<1>6. \A o \in Objects : AwaitsPublication(o)' <=> AwaitsPublication(o)
  BY <1>1, <1>4, <1>5 DEF AwaitsPublication
<1>7. Pending' = Pending
  BY <1>2, <1>6 DEF Pending
<1>. QED
  BY <1>1, <1>3, <1>7

\* No put of an object is between append and snapshot while another thread, or this one
\* before its append, holds the lock of the object's directory.
LEMMA NotPending ==
  ASSUME Good, mode = "up", NEW t \in Threads, pc[t] \in Locked,
         pc[t] # "apply" \/ op[t].kind # "put"
  PROVE  op[t].obj \notin Pending
<1>. SUFFICES ASSUME op[t].obj \in Pending PROVE FALSE
  OBVIOUS
<1>1. PICK s \in Threads : pc[s] = "apply" /\ op[s].kind = "put" /\ op[s].obj = op[t].obj
  BY DEF Pending, AwaitsPublication
<1>2. s = t
  BY <1>1, OneHolder DEF Good, Locked, Journal
<1>. QED
  BY <1>1, <1>2

\* The append of a commit is the commit of a register.
LEMMA AppendCommits ==
  ASSUME Good, Good', NEW t \in Threads, AppendEvent(t), op[t].kind = "put"
  PROVE  LET o == op[t].obj IN
         /\ o \in Objects /\ op[t].payload \in Payloads
         /\ o \notin Pending
         /\ snap[o] \in {Committed[o], Absent}
         /\ Committed' = [Committed EXCEPT ![o] = [rev |-> @.rev + 1, payload |-> op[t].payload]]
         /\ Pending' = Pending \cup {o}
         /\ snap' = snap
<1>. DEFINE o == op[t].obj
            v == [rev |-> op[t].rev, payload |-> op[t].payload]
<1>1. o \in Objects /\ Shown(o) /\ \A x \in Objects \ {o} : Same(x)
  BY AppendJournals
<1>2. /\ Latest(log'[TaskOf[o]], o) = v
      /\ HasCommit(v, log'[TaskOf[o]], o)
      /\ op[t].rev = Latest(log[TaskOf[o]], o).rev + 1
  BY AppendCommit
<1>3. /\ mode = "up" /\ mode' = "up" /\ snap' = snap /\ op' = op
      /\ pc[t] = "append" /\ pc'[t] = "apply" /\ \A s \in Threads \ {t} : pc'[s] = pc[s]
  BY DEF AppendEvent, recovery, Good, TypeOK
<1>4. op[t].payload \in Payloads
  BY <1>3 DEF Good, RequestInv
<1>5. o \notin Pending
  BY <1>3, NotPending DEF Locked
<1>6. snap[o] \in {Committed[o], Absent}
  BY <1>1 DEF Shown, Lines, Committed
<1>7. Committed' = [Committed EXCEPT ![o] = [rev |-> @.rev + 1, payload |-> op[t].payload]]
  <2>1. \A x \in Objects \ {o} : Latest(log'[TaskOf[x]], x) = Latest(log[TaskOf[x]], x)
    BY <1>1 DEF Same
  <2>. QED
    BY <1>1, <1>2, <2>1 DEF Committed
<1>8. Pending' = Pending \cup {o}
  <2>1. Committed[o]' # Absent
    <3>1. Committed'[o] = v
      BY <1>1, <1>2 DEF Committed
    <3>2. v # Absent
      BY <1>4, ConstAssumption DEF Absent
    <3>. QED
      BY <1>3, <3>1, <3>2
  <2>2. \A x \in Objects \ {o} : Committed'[x] = Committed[x]
    BY <1>1, <1>7 DEF Committed, Same
  <2>3. \A x \in Objects : AwaitsPublication(x)' <=> AwaitsPublication(x) \/ x = o
    BY <1>3 DEF AwaitsPublication
  <2>4. Pending = {x \in Objects : Committed[x] # Absent /\ AwaitsPublication(x)}
    BY PendingOnes
  <2>5. Pending' = {x \in Objects : Committed'[x] # Absent /\ AwaitsPublication(x)'}
    BY PendingOnesNext
  <2>6. Committed'[o] # Absent
    BY <1>3, <2>1
  <2>. HIDE DEF o
  <2>. QED
    BY <1>1, <2>2, <2>3, <2>4, <2>5, <2>6
<1>. QED
  BY <1>1, <1>3, <1>4, <1>5, <1>6, <1>7, <1>8

\* The append of a removal leaves the registers alone.
LEMMA AppendStutters ==
  ASSUME Good, Good', NEW t \in Threads, AppendEvent(t), op[t].kind = "delete"
  PROVE  Committed' = Committed /\ Pending' = Pending /\ snap' = snap
<1>1. /\ mode = "up" /\ mode' = "up" /\ snap' = snap /\ op' = op
      /\ \A s \in Threads \ {t} : pc'[s] = pc[s]
  BY DEF AppendEvent, recovery, Good, TypeOK
<1>2. Committed' = Committed
  <2>1. \A x \in Objects \ {op[t].obj} : Latest(log'[TaskOf[x]], x) = Latest(log[TaskOf[x]], x)
    BY AppendJournals DEF Same
  <2>2. Latest(log'[TaskOf[op[t].obj]], op[t].obj) = Latest(log[TaskOf[op[t].obj]], op[t].obj)
    BY AppendRemoval
  <2>. QED
    BY <2>1, <2>2 DEF Committed
<1>3. \A x \in Objects : AwaitsPublication(x)' <=> AwaitsPublication(x)
  BY <1>1 DEF AwaitsPublication
<1>4. Pending' = {x \in Objects : Committed'[x] # Absent /\ AwaitsPublication(x)'}
  BY PendingOnesNext
<1>5. Pending = {x \in Objects : Committed[x] # Absent /\ AwaitsPublication(x)}
  BY PendingOnes
<1>. QED
  BY <1>1, <1>2, <1>3, <1>4, <1>5

\* The snapshot of a put publishes a register, that of a delete removes it.
LEMMA ApplyPublishes ==
  ASSUME Good, Good', NEW t \in Threads, ApplySnapshot(t)
  PROVE  LET o == op[t].obj IN
         /\ o \in Objects
         /\ Committed' = Committed
         /\ \/ /\ o \in Pending
               /\ snap' = [snap EXCEPT ![o] = Committed[o]]
               /\ Pending' = Pending \ {o}
            \/ /\ o \notin Pending
               /\ snap[o] = Committed[o]
               /\ snap' = [snap EXCEPT ![o] = Absent]
               /\ Pending' = Pending
<1>. DEFINE o == op[t].obj
<1>1. o \in Objects /\ op[t].kind \in {"put", "delete"}
  <2>1. pc[t] # "idle"
    BY DEF ApplySnapshot
  <2>. QED
    BY <2>1, EventIsLine DEF Good, Op
<1>2. /\ mode = "up" /\ mode' = "up" /\ log' = log /\ op' = op
      /\ pc[t] = "apply" /\ pc'[t] = "scan" /\ \A s \in Threads \ {t} : pc'[s] = pc[s]
  BY DEF ApplySnapshot, recovery, Good, TypeOK
<1>3. Committed' = Committed
  BY <1>2 DEF Committed
<1>4. ThreadInv(t)
  BY DEF Good, SoundInv
<1>5. CASE op[t].kind = "put"
  <2>1. Latest(log[TaskOf[o]], o) = [rev |-> op[t].rev, payload |-> op[t].payload]
    BY <1>2, <1>4, <1>5 DEF ThreadInv, Lines
  <2>2. HasCommit([rev |-> op[t].rev, payload |-> op[t].payload], log[TaskOf[o]], o)
    BY <1>2, <1>4, <1>5 DEF ThreadInv, Lines
  <2>3. o \in Pending
    BY <1>1, <1>2, <1>5, <2>2 DEF Pending, AwaitsPublication, HasCommit
  <2>4. snap' = [snap EXCEPT ![o] = Committed[o]]
    BY <1>1, <1>5, <2>1 DEF ApplySnapshot, Committed
  <2>5. \A x \in Objects : AwaitsPublication(x)' <=> AwaitsPublication(x) /\ x # o
    <3>1. ASSUME NEW s \in Threads \ {t}, pc[s] = "apply" PROVE op[s].obj # o
      BY <1>2, <3>1, OneHolder DEF Good, Locked, Journal
    <3>2. ASSUME NEW x \in Objects PROVE AwaitsPublication(x)' <=> AwaitsPublication(x) /\ x # o
      BY <1>2, <3>1 DEF AwaitsPublication
    <3>. QED
      BY <3>2
  <2>6. Pending' = Pending \ {o}
    BY <1>2, <2>5 DEF Pending
  <2>. QED
    BY <1>1, <1>3, <2>3, <2>4, <2>6
<1>6. CASE op[t].kind = "delete"
  <2>1. snap[o] = Committed[o]
    BY <1>1, <1>2, <1>4, <1>6 DEF ThreadInv, Lines, Committed
  <2>2. snap' = [snap EXCEPT ![o] = Absent]
    BY <1>6 DEF ApplySnapshot
  <2>3. o \notin Pending
    BY <1>2, <1>6, NotPending DEF Locked
  <2>4. \A x \in Objects : AwaitsPublication(x)' <=> AwaitsPublication(x)
    BY <1>2, <1>6 DEF AwaitsPublication
  <2>5. Pending' = Pending
    BY <1>2, <2>4 DEF Pending
  <2>. QED
    BY <1>1, <1>3, <2>1, <2>2, <2>3, <2>5
<1>. QED
  BY <1>1, <1>5, <1>6

\* A torn append adds nothing to the registers.
LEMMA CrashCommitted ==
  ASSUME Good, Crash
  PROVE  Committed' = Committed
<1>1. CASE log' = log
  BY <1>1 DEF Committed
<1>2. ASSUME NEW t \in Threads, pc[t] = "append",
             log' = [log EXCEPT ![Journal(t)] = AppendLine(@, [Event(t) EXCEPT !.type = "TORN"])]
      PROVE  Committed' = Committed
  <2>. DEFINE k == Journal(t)
              r == [Event(t) EXCEPT !.type = "TORN"]
  <2>1. k \in Tasks /\ r \in Line /\ r.type = "TORN"
    BY <1>2, EventIsLine DEF Good, Event
  <2>2. Clean(log[k]) /\ log[k] \in Seq(Line)
    BY <1>2, <2>1 DEF Good, SoundInv, JournalInv, LockInv, TypeOK
  <2>3. log'[k] = AppendLine(log[k], r) /\ \A j \in Tasks \ {k} : log'[j] = log[j]
    BY <1>2, <2>1 DEF Good, TypeOK
  <2>. HIDE DEF k, r
  <2>4. Grown(log[k], r, log'[k])
    BY <2>1, <2>2, <2>3, AppendLineFacts
  <2>5. ASSUME NEW o \in Objects PROVE Latest(log'[TaskOf[o]], o) = Latest(log[TaskOf[o]], o)
    <3>1. TaskOf[o] \in Tasks
      BY ConstAssumption
    <3>2. CASE TaskOf[o] # k
      BY <2>3, <3>1, <3>2
    <3>3. CASE TaskOf[o] = k
      <4>1. SameLines(log[k], log'[k], o)
        BY <2>1, <2>2, <2>4, GrownOther
      <4>2. Same(o)
        BY <2>4, <3>3, <4>1, SameLinesSame DEF Good, Grown
      <4>. QED
        BY <4>2 DEF Same
    <3>. QED
      BY <3>2, <3>3
  <2>. QED
    BY <2>5 DEF Committed
<1>. QED
  BY <1>1, <1>2 DEF Crash

\* A crash makes every register that has a commit await its publication again.
LEMMA CrashRestarts ==
  ASSUME Good, Good', Crash
  PROVE  Committed' = Committed /\ snap' = snap /\ Pending' = {o \in Objects : Committed[o] # Absent}
<1>1. Committed' = Committed
  BY CrashCommitted
<1>2. mode' = "down" /\ snap' = snap
  BY DEF Crash
<1>3. \A o \in Objects : AwaitsPublication(o)'
  BY <1>2 DEF AwaitsPublication
<1>4. Pending' = {o \in Objects : Committed'[o] # Absent /\ AwaitsPublication(o)'}
  BY PendingOnesNext
<1>. QED
  BY <1>1, <1>2, <1>3, <1>4

\* The recovery reads journals and completes without an effect on the registers.
LEMMA RecoveryStutters ==
  ASSUME Good, Good', Start \/ (\E k \in Tasks : RecoverJournal(k)) \/ FinishRecovery
  PROVE  Committed' = Committed /\ Pending' = Pending /\ snap' = snap
<1>1. \A t \in Threads : pc[t] # "apply" /\ pc'[t] # "apply"
  <2>1. mode # "up" /\ pc' = pc
    BY DEF Start, RecoverJournal, FinishRecovery, threads
  <2>. QED
    BY <2>1 DEF Good, LockInv
<1>2. snap' = snap
  BY DEF Start, RecoverJournal, FinishRecovery, files
<1>3. Committed' = Committed
  <2>1. CASE Start \/ FinishRecovery
    BY <2>1 DEF Start, FinishRecovery, files, Committed
  <2>2. ASSUME NEW k \in Tasks, RecoverJournal(k) PROVE Committed' = Committed
    <3>1. log' = [log EXCEPT ![k] = Trim(log[k])]
      BY <2>2 DEF RecoverJournal, Good, SoundInv, JournalInv
    <3>2. \A o \in Objects : Same(o)
      BY <3>1, TrimSame DEF Good
    <3>. QED
      BY <3>2, SameCommitted
  <2>. QED
    BY <2>1, <2>2
<1>4. ASSUME NEW o \in Objects, Committed[o] # Absent
      PROVE  AwaitsPublication(o)' <=> AwaitsPublication(o)
  <2>1. CASE Start
    BY <2>1 DEF Start, AwaitsPublication
  <2>2. ASSUME NEW k \in Tasks, RecoverJournal(k) PROVE AwaitsPublication(o)' <=> AwaitsPublication(o)
    <3>1. mode = "recovering" /\ mode' = mode /\ rebuilt' = rebuilt
      BY <2>2 DEF RecoverJournal, Good, SoundInv, JournalInv
    <3>. QED
      BY <3>1 DEF AwaitsPublication
  <2>3. CASE FinishRecovery
    <3>1. Commits(log[TaskOf[o]], o) # {}
      BY <1>4, CommittedOnes
    <3>2. mode = "recovering" /\ o \in rebuilt
      BY <2>3, <3>1 DEF FinishRecovery
    <3>3. mode' = "up"
      BY <2>3 DEF FinishRecovery, Good, SoundInv, JournalInv
    <3>. QED
      BY <1>1, <3>2, <3>3 DEF AwaitsPublication
  <2>. QED
    BY <2>1, <2>2, <2>3
<1>5. Pending' = {o \in Objects : Committed'[o] # Absent /\ AwaitsPublication(o)'}
  BY PendingOnesNext
<1>6. Pending = {o \in Objects : Committed[o] # Absent /\ AwaitsPublication(o)}
  BY PendingOnes
<1>7. Pending' = Pending
  BY <1>3, <1>4, <1>5, <1>6
<1>. QED
  BY <1>2, <1>3, <1>7

\* The recovery of a snapshot publishes the register.
LEMMA RecoverPublishes ==
  ASSUME Good, Good', NEW o \in Objects, RecoverSnapshot(o)
  PROVE  /\ o \in Pending
         /\ Committed' = Committed
         /\ snap' = [snap EXCEPT ![o] = Committed[o]]
         /\ Pending' = Pending \ {o}
<1>1. /\ mode = "recovering" /\ mode' = mode
      /\ snap' = [snap EXCEPT ![o] = Latest(Lines(o), o)]
      /\ rebuilt' = rebuilt \cup {o}
  BY RecoveredIsLatest
<1>2. log' = log /\ Commits(log[TaskOf[o]], o) # {} /\ o \notin rebuilt
  BY DEF RecoverSnapshot
<1>3. Committed' = Committed /\ Committed[o] = Latest(Lines(o), o)
  BY <1>2 DEF Committed, Lines
<1>4. o \in Pending
  BY <1>1, <1>2 DEF Pending, AwaitsPublication
<1>5. \A x \in Objects : AwaitsPublication(x)' <=> AwaitsPublication(x) /\ x # o
  BY <1>1, <1>2 DEF AwaitsPublication
<1>6. Pending' = Pending \ {o}
  BY <1>2, <1>5 DEF Pending
<1>. QED
  BY <1>1, <1>3, <1>4, <1>6

\* Every step of the repository is a step of the registers, or none.
LEMMA RegistersStep ==
  ASSUME Good, Good', [Next]_vars
  PROVE  \/ Committed' = Committed /\ Pending' = Pending /\ snap' = snap
         \/ \E o \in Objects, p \in Payloads :
              /\ o \notin Pending
              /\ snap[o] \in {Committed[o], Absent}
              /\ Committed' = [Committed EXCEPT ![o] = [rev |-> @.rev + 1, payload |-> p]]
              /\ Pending' = Pending \cup {o}
              /\ snap' = snap
         \/ \E o \in Objects :
              /\ o \in Pending
              /\ snap' = [snap EXCEPT ![o] = Committed[o]]
              /\ Pending' = Pending \ {o}
              /\ Committed' = Committed
         \/ \E o \in Objects :
              /\ o \notin Pending
              /\ snap[o] = Committed[o]
              /\ snap' = [snap EXCEPT ![o] = Absent]
              /\ Committed' = Committed /\ Pending' = Pending
         \/ /\ Pending' = {o \in Objects : Committed[o] # Absent}
            /\ Committed' = Committed /\ snap' = snap
<1>. DEFINE Stays == Committed' = Committed /\ Pending' = Pending /\ snap' = snap
            Commits0(o, p) ==
              /\ o \notin Pending
              /\ snap[o] \in {Committed[o], Absent}
              /\ Committed' = [Committed EXCEPT ![o] = [rev |-> @.rev + 1, payload |-> p]]
              /\ Pending' = Pending \cup {o}
              /\ snap' = snap
            Publishes(o) ==
              /\ o \in Pending
              /\ snap' = [snap EXCEPT ![o] = Committed[o]]
              /\ Pending' = Pending \ {o}
              /\ Committed' = Committed
            Removes(o) ==
              /\ o \notin Pending
              /\ snap[o] = Committed[o]
              /\ snap' = [snap EXCEPT ![o] = Absent]
              /\ Committed' = Committed /\ Pending' = Pending
            Restarts ==
              /\ Pending' = {o \in Objects : Committed[o] # Absent}
              /\ Committed' = Committed /\ snap' = snap
<1>. SUFFICES \/ Stays \/ Restarts
              \/ \E o \in Objects, p \in Payloads : Commits0(o, p)
              \/ \E o \in Objects : Publishes(o) \/ Removes(o)
  BY ZenonT(60)
<1>1. ASSUME NEW t \in Threads,
             Request(t) \/ LockTimeout(t) \/ Refuse(t) \/ PutChecked(t) \/ DeleteChecked(t)
             \/ ScanSnapshot(t) \/ WriteIndex(t)
      PROVE  Stays
  BY <1>1, ThreadStutters
<1>2. ASSUME NEW t \in Threads, AppendEvent(t)
      PROVE  Stays \/ \E o \in Objects, p \in Payloads : Commits0(o, p)
  <2>1. op[t].kind \in {"put", "delete"}
    BY <1>2, AppendJournals DEF Op
  <2>2. CASE op[t].kind = "put"
    <3>1. op[t].obj \in Objects /\ op[t].payload \in Payloads /\ Commits0(op[t].obj, op[t].payload)
      BY <1>2, <2>2, AppendCommits
    <3>. HIDE DEF Commits0
    <3>. QED
      BY <3>1
  <2>3. CASE op[t].kind = "delete"
    BY <1>2, <2>3, AppendStutters
  <2>. QED
    BY <2>1, <2>2, <2>3
<1>3. ASSUME NEW t \in Threads, ApplySnapshot(t)
      PROVE  \E o \in Objects : Publishes(o) \/ Removes(o)
  <2>1. op[t].obj \in Objects /\ (Publishes(op[t].obj) \/ Removes(op[t].obj))
    BY <1>3, ApplyPublishes
  <2>. HIDE DEF Publishes, Removes
  <2>. QED
    BY <2>1
<1>4. CASE Crash
  BY <1>4, CrashRestarts
<1>5. CASE Start \/ (\E k \in Tasks : RecoverJournal(k)) \/ FinishRecovery
  BY <1>5, RecoveryStutters
<1>6. ASSUME NEW o \in Objects, RecoverSnapshot(o) PROVE Publishes(o)
  BY <1>6, RecoverPublishes
<1>7. CASE UNCHANGED vars
  BY <1>7 DEF vars, recovery, files, threads, Committed, Pending, AwaitsPublication
<1>. HIDE DEF Stays, Commits0, Publishes, Removes, Restarts
<1>. QED
  BY <1>1, <1>2, <1>3, <1>4, <1>5, <1>6, <1>7 DEF Next, Progress, Recover

\* The repository implements the registers of RevisionedStore, for every number of
\* threads, directories and crashes, until a write fails under a living process.
THEOREM ImplementsRegistersAlways == IOSpec => ImplementsRegisters
<1>. DEFINE Step == ioErrors' = 0 => [Registers!Next]_(Registers!regs)
<1>1. Init => Registers!Init
  <2>. SUFFICES ASSUME Init PROVE Registers!Init
    OBVIOUS
  <2>1. \A o \in Objects : Commits(log[TaskOf[o]], o) = {}
    BY ConstAssumption DEF Init, Commits
  <2>2. \A o \in Objects : Latest(log[TaskOf[o]], o) = Absent
    BY <2>1 DEF Latest
  <2>. QED
    BY <2>1, <2>2 DEF Init, Registers!Init, Registers!Missing, Absent
<1>2. ASSUME IInv, IInv', [IONext]_vars PROVE Step
  <2>. SUFFICES ASSUME ioErrors' = 0 PROVE [Registers!Next]_(Registers!regs)
    OBVIOUS
  <2>1. ioErrors = 0 /\ [Next]_vars
    <3>1. ASSUME NEW t \in Threads, AppendFails(t) \/ ApplyFails(t) \/ IndexFails(t) PROVE FALSE
      <4>1. ioErrors' = ioErrors + 1
        BY <3>1 DEF AppendFails, ApplyFails, IndexFails, WriteError
      <4>. QED
        BY <1>2, <4>1 DEF IInv, TypeOK
    <3>2. [Next]_vars
      BY <1>2, <3>1 DEF IONext
    <3>3. ioErrors' = ioErrors
      BY <3>2 DEF Next, Request, Call, LockTimeout, Progress, Refuse, PutChecked, DeleteChecked,
                  AppendEvent, ApplySnapshot, ScanSnapshot, WriteIndex, Crash, Recover, Start,
                  RecoverJournal, RecoverSnapshot, FinishRecovery, budget, vars
    <3>. QED
      BY <3>2, <3>3
  <2>2. Good /\ Good'
    BY <1>2, <2>1 DEF IInv, Good
  <2>3. UNCHANGED <<Committed, snap, Pending>> => UNCHANGED Registers!regs
    BY DEF Registers!regs, Committed, Pending, AwaitsPublication
  <2>4. ASSUME NEW o \in Objects, NEW p \in Payloads,
               o \notin Pending,
               snap[o] \in {Committed[o], Absent},
               Committed' = [Committed EXCEPT ![o] = [rev |-> @.rev + 1, payload |-> p]],
               Pending' = Pending \cup {o},
               snap' = snap
        PROVE  Registers!Commit(o, p)
    BY <2>4 DEF Registers!Commit, Registers!Missing, Absent, Committed, Pending, AwaitsPublication
  <2>5. ASSUME NEW o \in Objects,
               o \in Pending,
               snap' = [snap EXCEPT ![o] = Committed[o]],
               Pending' = Pending \ {o},
               Committed' = Committed
        PROVE  Registers!Publish(o)
    BY <2>5 DEF Registers!Publish, Committed, Pending, AwaitsPublication
  <2>6. ASSUME NEW o \in Objects,
               o \notin Pending,
               snap[o] = Committed[o],
               snap' = [snap EXCEPT ![o] = Absent],
               Committed' = Committed, Pending' = Pending
        PROVE  Registers!Remove(o)
    BY <2>6 DEF Registers!Remove, Registers!Missing, Absent, Committed, Pending, AwaitsPublication
  <2>7. ASSUME Pending' = {o \in Objects : Committed[o] # Absent},
               Committed' = Committed, snap' = snap
        PROVE  Registers!Restart
    BY <2>7 DEF Registers!Restart, Registers!Missing, Absent, Committed, Pending, AwaitsPublication
  <2>8. \/ UNCHANGED <<Committed, snap, Pending>>
        \/ \E o \in Objects, p \in Payloads : Registers!Commit(o, p)
        \/ \E o \in Objects : Registers!Publish(o)
        \/ \E o \in Objects : Registers!Remove(o)
        \/ Registers!Restart
    BY <2>1, <2>2, <2>4, <2>5, <2>6, <2>7, RegistersStep
  <2>. QED
    BY <2>3, <2>8 DEF Registers!Next
<1>. QED
  BY <1>1, <1>2, InvAlways, PTL DEF IOSpec, ImplementsRegisters
=============================================================================

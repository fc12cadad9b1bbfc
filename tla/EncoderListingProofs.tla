------------------------ MODULE EncoderListingProofs ------------------------
(***************************************************************************)
(* Listings: no entry is lost and none is listed twice, for every choice of *)
(* names, hashes, metadata, sizes and bounds, any order among rows of equal *)
(* hash, and any layout of a table that is a permutation.  What knows of an  *)
(* entry changes with almost every call: an open file becomes an item, the  *)
(* items of a directory the rows of its table, a directory an item of the   *)
(* one around it.                                                          *)
(***************************************************************************)
EXTENDS EncoderContentsProofs

-----------------------------------------------------------------------------
(***************************************************************************)
(* A place is where the offset of a FILENAME is kept: in an item of a       *)
(* directory on the stack s, as the directory's own, in the open file f, or *)
(* in a row of one of the tables g.                                        *)
(***************************************************************************)
Places == {"item", "dir", "file", "row"} \X Nat \X Nat

ItemKeeps(s, p, x) ==
  /\ p[1] = "item"
  /\ p[2] \in 1..Len(s)
  /\ p[3] \in 1..Len(s[p[2]].items)
  /\ s[p[2]].items[p[3]].offset = x

DirKeeps(s, p, x) ==
  /\ p[1] = "dir"
  /\ p[2] \in 2..Len(s)
  /\ p[3] = 0
  /\ s[p[2]].file_offset = x

FileKeeps(f, p, x) ==
  /\ p[1] = "file"
  /\ p[2] = 0 /\ p[3] = 0
  /\ f.open
  /\ f.item.offset = x

RowKeeps(g, p, x) ==
  /\ p[1] = "row"
  /\ \E c \in g :
       /\ c.at = p[2]
       /\ p[3] \in 1..Len(c.item.rows)
       /\ c.item.rows[p[3]].offset = c.at - x

Keeps(s, f, g, p, x) ==
  \/ ItemKeeps(s, p, x)
  \/ DirKeeps(s, p, x)
  \/ FileKeeps(f, p, x)
  \/ RowKeeps(g, p, x)

TablesIn(s) == CellsOf(s, "GOODBYE")

(* No offset is kept in two places, and that of every FILENAME is in one.   *)
Once(s, f, a) ==
  /\ \A p, q \in Places : \A x \in Nat :
       Keeps(s, f, TablesIn(a), p, x) /\ Keeps(s, f, TablesIn(a), q, x)
         => p = q
  /\ \A c \in NamesIn(a) :
       \E p \in Places : Keeps(s, f, TablesIn(a), p, c.at)

(* What is kept is the offset of something that has been written.           *)
KeptBehind(s, f, a) ==
  \A p \in Places : \A x \in Nat :
    Keeps(s, f, TablesIn(a), p, x) => x < a.len

ListedOnce == Once(state, file, archive)

LInv ==
  /\ OInv
  /\ faults = {} => ListedOnce

-----------------------------------------------------------------------------
(***************************************************************************)
(* Three ways in which listings change: not at all, by one place that keeps *)
(* a new FILENAME, and by places that take over from others.               *)
(***************************************************************************)
SameKept(s, f, a, t, h, b) ==
  \A p \in Places : \A x \in Nat :
    Keeps(t, h, TablesIn(b), p, x) <=> Keeps(s, f, TablesIn(a), p, x)

OneMoreKept(s, f, a, t, h, b, q, y) ==
  \A p \in Places : \A x \in Nat :
    Keeps(t, h, TablesIn(b), p, x) <=>
      Keeps(s, f, TablesIn(a), p, x) \/ (p = q /\ x = y)

MakesPlace(s, f, a, t, h, b, y) ==
  \E q \in Places :
    /\ \A x \in Nat : ~Keeps(s, f, TablesIn(a), q, x)
    /\ OneMoreKept(s, f, a, t, h, b, q, y)

(* The new FILENAME, in a stream that had none at its end before.           *)
NameJoins(a, b) ==
  \A c \in NamesIn(b) : c \in NamesIn(a) \/ c.at = a.len

LEMMA SameIsOnce ==
  ASSUME NEW s, NEW f, NEW a, NEW t, NEW h, NEW b,
         Once(s, f, a), SameKept(s, f, a, t, h, b), Stream(a),
         NamesIn(b) = NamesIn(a)
  PROVE  Once(t, h, b)
<1>1. ASSUME NEW c \in NamesIn(a)
      PROVE  c.at \in Nat
  BY <1>1 DEF NamesIn, CellsOf, Stream
<1>2. \A p, q \in Places : \A x \in Nat :
        Keeps(t, h, TablesIn(b), p, x) /\ Keeps(t, h, TablesIn(b), q, x)
          => p = q
  BY DEF Once, SameKept
<1>3. \A c \in NamesIn(b) :
        \E p \in Places : Keeps(t, h, TablesIn(b), p, c.at)
  BY <1>1 DEF Once, SameKept
<1> QED BY <1>2, <1>3 DEF Once

LEMMA JoinIsOnce ==
  ASSUME NEW s, NEW f, NEW a, NEW t, NEW h, NEW b,
         Once(s, f, a), MakesPlace(s, f, a, t, h, b, a.len), Stream(a),
         KeptBehind(s, f, a), NameJoins(a, b)
  PROVE  Once(t, h, b)
<1> PICK q \in Places : OneMoreKept(s, f, a, t, h, b, q, a.len)
  BY DEF MakesPlace
<1>1. a.len \in Nat /\ \A c \in NamesIn(a) : c.at \in Nat
  BY DEF NamesIn, CellsOf, Stream
<1>2. ASSUME NEW p \in Places PROVE ~Keeps(s, f, TablesIn(a), p, a.len)
  BY <1>1, <1>2 DEF KeptBehind
<1>3. ASSUME NEW p \in Places, NEW r \in Places, NEW x \in Nat,
             Keeps(t, h, TablesIn(b), p, x), Keeps(t, h, TablesIn(b), r, x)
      PROVE  p = r
  <2>1. /\ Keeps(s, f, TablesIn(a), p, x) \/ (p = q /\ x = a.len)
        /\ Keeps(s, f, TablesIn(a), r, x) \/ (r = q /\ x = a.len)
    BY <1>3 DEF OneMoreKept
  <2> QED BY <1>2, <2>1 DEF Once
<1>4. ASSUME NEW c \in NamesIn(b)
      PROVE  \E p \in Places : Keeps(t, h, TablesIn(b), p, c.at)
  <2>1. CASE c \in NamesIn(a)
    BY <1>1, <2>1 DEF Once, OneMoreKept
  <2>2. CASE c.at = a.len
    BY <1>1, <2>2 DEF OneMoreKept
  <2> QED BY <1>4, <2>1, <2>2 DEF NameJoins
<1> QED BY <1>3, <1>4 DEF Once

(* One place has taken over from another: without both of them the same is  *)
(* kept, in u, e and c.                                                    *)
LEMMA ReplacedIsOnce ==
  ASSUME NEW s, NEW f, NEW a, NEW t, NEW h, NEW b, NEW u, NEW e, NEW c,
         NEW y \in Nat, Once(s, f, a), Stream(a), NamesIn(b) = NamesIn(a),
         MakesPlace(u, e, c, s, f, a, y), MakesPlace(u, e, c, t, h, b, y)
  PROVE  Once(t, h, b)
<1>1. PICK q \in Places : /\ ~Keeps(u, e, TablesIn(c), q, y)
                          /\ OneMoreKept(u, e, c, s, f, a, q, y)
  BY DEF MakesPlace
<1>2. PICK r \in Places : OneMoreKept(u, e, c, t, h, b, r, y)
  BY DEF MakesPlace
<1>3. \A d \in NamesIn(a) : d.at \in Nat
  BY DEF NamesIn, CellsOf, Stream
<1>4. ASSUME NEW p \in Places, Keeps(u, e, TablesIn(c), p, y)
      PROVE  FALSE
  <2>1. Keeps(s, f, TablesIn(a), p, y) /\ Keeps(s, f, TablesIn(a), q, y)
    BY <1>1, <1>4 DEF OneMoreKept
  <2> QED BY <1>1, <1>4, <2>1 DEF Once
<1>5. ASSUME NEW p \in Places, NEW o \in Places, NEW x \in Nat,
             Keeps(t, h, TablesIn(b), p, x), Keeps(t, h, TablesIn(b), o, x)
      PROVE  p = o
  <2>1. /\ Keeps(u, e, TablesIn(c), p, x) \/ (p = r /\ x = y)
        /\ Keeps(u, e, TablesIn(c), o, x) \/ (o = r /\ x = y)
    BY <1>2, <1>5 DEF OneMoreKept
  <2>2. CASE x = y
    BY <1>4, <2>1, <2>2
  <2>3. CASE x # y
    <3>1. Keeps(s, f, TablesIn(a), p, x) /\ Keeps(s, f, TablesIn(a), o, x)
      BY <1>1, <2>1, <2>3 DEF OneMoreKept
    <3> QED BY <3>1 DEF Once
  <2> QED BY <2>2, <2>3
<1>6. ASSUME NEW d \in NamesIn(b)
      PROVE  \E p \in Places : Keeps(t, h, TablesIn(b), p, d.at)
  <2>1. PICK p \in Places : Keeps(s, f, TablesIn(a), p, d.at)
    BY <1>6 DEF Once
  <2>2. Keeps(u, e, TablesIn(c), p, d.at) \/ d.at = y
    BY <1>1, <1>3, <1>6, <2>1 DEF OneMoreKept
  <2> QED BY <1>2, <1>3, <1>6, <2>2 DEF OneMoreKept
<1> QED BY <1>5, <1>6 DEF Once

(* "from" tells for each place which one it took over from.                 *)
TakesOver(s, f, a, t, h, b, from) ==
  /\ \A p \in Places : \A x \in Nat :
       Keeps(t, h, TablesIn(b), p, x) =>
         from[p] \in Places /\ Keeps(s, f, TablesIn(a), from[p], x)
  /\ \A p, q \in Places : \A x \in Nat :
       /\ Keeps(t, h, TablesIn(b), p, x)
       /\ Keeps(t, h, TablesIn(b), q, x)
       /\ from[p] = from[q]
       => p = q
  /\ \A p \in Places : \A x \in Nat :
       Keeps(s, f, TablesIn(a), p, x) =>
         \E q \in Places : Keeps(t, h, TablesIn(b), q, x)

LEMMA TakingOverIsOnce ==
  ASSUME NEW s, NEW f, NEW a, NEW t, NEW h, NEW b, NEW from,
         Once(s, f, a), Stream(a), NamesIn(b) = NamesIn(a),
         TakesOver(s, f, a, t, h, b, from)
  PROVE  Once(t, h, b)
<1>1. \A c \in NamesIn(a) : c.at \in Nat
  BY DEF NamesIn, CellsOf, Stream
<1>2. ASSUME NEW p \in Places, NEW r \in Places, NEW x \in Nat,
             Keeps(t, h, TablesIn(b), p, x), Keeps(t, h, TablesIn(b), r, x)
      PROVE  p = r
  <2>1. /\ from[p] \in Places /\ Keeps(s, f, TablesIn(a), from[p], x)
        /\ from[r] \in Places /\ Keeps(s, f, TablesIn(a), from[r], x)
    BY <1>2 DEF TakesOver
  <2>2. from[p] = from[r]
    BY <2>1 DEF Once
  <2> QED BY <1>2, <2>2 DEF TakesOver
<1>3. ASSUME NEW c \in NamesIn(b)
      PROVE  \E p \in Places : Keeps(t, h, TablesIn(b), p, c.at)
  <2>1. PICK p \in Places : Keeps(s, f, TablesIn(a), p, c.at)
    BY <1>3 DEF Once
  <2> QED BY <1>1, <1>3, <2>1 DEF TakesOver
<1> QED BY <1>2, <1>3 DEF Once

-----------------------------------------------------------------------------
(***************************************************************************)
(* What a call does to the stack, as far as listings are concerned.         *)
(***************************************************************************)
Like(st, u) == u.items = st.items /\ u.file_offset = st.file_offset

Alike(s, t) ==
  /\ Len(t) = Len(s)
  /\ \A d \in 1..Len(s) : Like(s[d], t[d])

(* The current directory lists one more item.                               *)
Lists(s, t, item) ==
  /\ Len(s) \in Nat \ {0} /\ Len(t) = Len(s)
  /\ \A d \in 1..Len(s) - 1 : Like(s[d], t[d])
  /\ s[Len(s)].items \in Seq(GoodbyeItem)
  /\ item \in GoodbyeItem
  /\ t[Len(s)].items = Append(s[Len(s)].items, item)
  /\ t[Len(s)].file_offset = s[Len(s)].file_offset

(* A directory is entered.                                                  *)
Pushes(s, t, offset) ==
  /\ Len(s) \in Nat \ {0} /\ Len(t) = Len(s) + 1
  /\ \A d \in 1..Len(s) : Like(s[d], t[d])
  /\ t[Len(t)].items = <<>>
  /\ t[Len(t)].file_offset = offset

SameFile(f, h) ==
  /\ h.open <=> f.open
  /\ h.open => h.item.offset = f.item.offset

LEMMA AlikeKeeps ==
  ASSUME NEW s, NEW f, NEW a, NEW t, NEW h, NEW b, Alike(s, t),
         SameFile(f, h), TablesIn(b) = TablesIn(a)
  PROVE  SameKept(s, f, a, t, h, b)
<1> SUFFICES ASSUME NEW p \in Places, NEW x \in Nat
             PROVE  Keeps(t, h, TablesIn(b), p, x)
                      <=> Keeps(s, f, TablesIn(a), p, x)
  BY DEF SameKept
<1>1. ItemKeeps(t, p, x) <=> ItemKeeps(s, p, x)
  BY DEF ItemKeeps, Alike, Like
<1>2. DirKeeps(t, p, x) <=> DirKeeps(s, p, x)
  <2>1. ASSUME p[2] \in 2..Len(s) PROVE p[2] \in 1..Len(s)
    BY <2>1
  <2> QED BY <2>1 DEF DirKeeps, Alike, Like
<1>3. FileKeeps(h, p, x) <=> FileKeeps(f, p, x)
  BY DEF FileKeeps, SameFile
<1> QED BY <1>1, <1>2, <1>3 DEF Keeps

LEMMA FileMakesPlace ==
  ASSUME NEW s, NEW f, NEW a, NEW t, NEW h, NEW b, Alike(s, t),
         ~f.open, h.open, TablesIn(b) = TablesIn(a)
  PROVE  MakesPlace(s, f, a, t, h, b, h.item.offset)
<1> DEFINE q == <<"file", 0, 0>>
<1>0. q \in Places /\ \A x : ~Keeps(s, f, TablesIn(a), q, x)
  BY DEF Places, Keeps, ItemKeeps, DirKeeps, FileKeeps, RowKeeps
<1> SUFFICES ASSUME NEW p \in Places, NEW x \in Nat
             PROVE  Keeps(t, h, TablesIn(b), p, x) <=>
                      \/ Keeps(s, f, TablesIn(a), p, x)
                      \/ p = q /\ x = h.item.offset
  BY <1>0 DEF OneMoreKept, MakesPlace
<1>1. ItemKeeps(t, p, x) <=> ItemKeeps(s, p, x)
  BY DEF ItemKeeps, Alike, Like
<1>2. DirKeeps(t, p, x) <=> DirKeeps(s, p, x)
  <2>1. ASSUME p[2] \in 2..Len(s) PROVE p[2] \in 1..Len(s)
    BY <2>1
  <2> QED BY <2>1 DEF DirKeeps, Alike, Like
<1>3. p = q <=> p[1] = "file" /\ p[2] = 0 /\ p[3] = 0
  BY DEF Places
<1>4. FileKeeps(h, p, x) <=> p = q /\ x = h.item.offset
  BY <1>3 DEF FileKeeps
<1>5. ~FileKeeps(f, p, x)
  BY DEF FileKeeps
<1> QED BY <1>1, <1>2, <1>4, <1>5 DEF Keeps

(* The items after a Listing.                                               *)
LEMMA ItemsListed ==
  ASSUME NEW s, NEW t, NEW item, Lists(s, t, item),
         NEW p \in Places, NEW x \in Nat
  PROVE  LET n == Len(s)
             q == <<"item", n, Len(s[n].items) + 1>>
         IN /\ q \in Places
            /\ ItemKeeps(t, p, x) <=>
                 ItemKeeps(s, p, x) \/ (p = q /\ x = item.offset)
            /\ DirKeeps(t, p, x) <=> DirKeeps(s, p, x)
            /\ ItemKeeps(s, p, x) => p # q
<1> DEFINE n == Len(s)
           k == Len(s[n].items)
           q == <<"item", n, k + 1>>
<1>1. /\ n \in Nat \ {0} /\ Len(t) = n /\ k \in Nat
      /\ t[n].items = Append(s[n].items, item)
      /\ s[n].items \in Seq(GoodbyeItem)
      /\ \A d \in 1..n - 1 : Like(s[d], t[d])
  BY DEF Lists
<1>2. /\ Len(t[n].items) = k + 1
      /\ t[n].items[k + 1] = item
      /\ \A i \in 1..k : t[n].items[i] = s[n].items[i]
  BY <1>1 DEF Lists
<1>3. q \in Places /\ (p = q <=> p[1] = "item" /\ p[2] = n /\ p[3] = k + 1)
  BY <1>1 DEF Places
<1>4. p[2] \in Nat /\ p[3] \in Nat
  BY DEF Places
<1>5. /\ ItemKeeps(t, p, x) <=>
           ItemKeeps(s, p, x) \/ (p = q /\ x = item.offset)
      /\ ItemKeeps(s, p, x) => p # q
  <2>1. CASE p[2] = n
    <3>1. p[2] \in 1..n
      BY <1>1, <2>1
    <3>2. p[3] \in 1..k + 1 <=> p[3] \in 1..k \/ p[3] = k + 1
      BY <1>1, <1>4
    <3>3. p[3] \in 1..k => p[3] # k + 1
      BY <1>1
    <3> HIDE DEF k, n, q
    <3> QED BY <1>1, <1>2, <1>3, <2>1, <3>1, <3>2, <3>3 DEF ItemKeeps, k, n
  <2>2. CASE p[2] # n
    <3>1. p[2] \in 1..n => p[2] \in 1..n - 1
      BY <1>1, <2>2
    <3> HIDE DEF k, q
    <3> QED BY <1>1, <1>3, <2>2, <3>1 DEF ItemKeeps, Like
  <2> QED BY <2>1, <2>2
<1>6. DirKeeps(t, p, x) <=> DirKeeps(s, p, x)
  <2>1. \A d \in 2..n : t[d].file_offset = s[d].file_offset
    <3> SUFFICES ASSUME NEW d \in 2..n
                 PROVE  t[d].file_offset = s[d].file_offset
      OBVIOUS
    <3>1. d = n \/ d \in 1..n - 1
      BY <1>1
    <3> QED BY <1>1, <3>1 DEF Lists, Like
  <2> QED BY <1>1, <2>1 DEF DirKeeps
<1> QED BY <1>3, <1>5, <1>6

LEMMA ItemMakesPlace ==
  ASSUME NEW s, NEW f, NEW a, NEW t, NEW h, NEW b, NEW item,
         Lists(s, t, item), SameFile(f, h), TablesIn(b) = TablesIn(a)
  PROVE  MakesPlace(s, f, a, t, h, b, item.offset)
<1> DEFINE q == <<"item", Len(s), Len(s[Len(s)].items) + 1>>
<1>1. q \in Places
  BY DEF Places, Lists
<1>2. ASSUME NEW p \in Places, NEW x \in Nat
      PROVE  Keeps(t, h, TablesIn(b), p, x) <=>
               Keeps(s, f, TablesIn(a), p, x) \/ (p = q /\ x = item.offset)
  <2>1. /\ ItemKeeps(t, p, x) <=>
             ItemKeeps(s, p, x) \/ (p = q /\ x = item.offset)
        /\ DirKeeps(t, p, x) <=> DirKeeps(s, p, x)
    BY ItemsListed
  <2>2. FileKeeps(h, p, x) <=> FileKeeps(f, p, x)
    BY DEF FileKeeps, SameFile
  <2> HIDE DEF q
  <2> QED BY <2>1, <2>2 DEF Keeps
<1>3. ASSUME NEW x \in Nat PROVE ~Keeps(s, f, TablesIn(a), q, x)
  <2>1. ~ItemKeeps(s, q, x)
    BY <1>1, ItemsListed
  <2> QED BY <2>1 DEF Keeps, DirKeeps, FileKeeps, RowKeeps
<1> QED BY <1>1, <1>2, <1>3 DEF OneMoreKept, MakesPlace

LEMMA DirMakesPlace ==
  ASSUME NEW s, NEW f, NEW a, NEW t, NEW h, NEW b, NEW offset,
         Pushes(s, t, offset), SameFile(f, h), TablesIn(b) = TablesIn(a)
  PROVE  MakesPlace(s, f, a, t, h, b, offset)
<1> DEFINE n == Len(s)
           q == <<"dir", n + 1, 0>>
<1>1. /\ n \in Nat \ {0} /\ Len(t) = n + 1
      /\ t[n + 1].items = <<>> /\ t[n + 1].file_offset = offset
      /\ \A d \in 1..n : Like(s[d], t[d])
  BY DEF Pushes
<1>2. q \in Places
  BY <1>1 DEF Places
<1>3. ASSUME NEW p \in Places, NEW x \in Nat
      PROVE  Keeps(t, h, TablesIn(b), p, x) <=>
               Keeps(s, f, TablesIn(a), p, x) \/ (p = q /\ x = offset)
  <2>1. p = q <=> p[1] = "dir" /\ p[2] = n + 1 /\ p[3] = 0
    BY <1>1 DEF Places
  <2>2. /\ p[2] \in 1..n + 1 <=> p[2] \in 1..n \/ p[2] = n + 1
        /\ p[2] \in 2..n + 1 <=> p[2] \in 2..n \/ p[2] = n + 1
        /\ p[2] \in 2..n => p[2] \in 1..n
        /\ p[2] \in 1..n => p[2] # n + 1
    BY <1>1 DEF Places
  <2>3. 1..Len(t[n + 1].items) = {}
    BY <1>1
  <2> HIDE DEF n, q
  <2>4. ItemKeeps(t, p, x) <=> ItemKeeps(s, p, x)
    BY <1>1, <2>2, <2>3 DEF ItemKeeps, Like, n
  <2>5. DirKeeps(t, p, x) <=> DirKeeps(s, p, x) \/ (p = q /\ x = offset)
    BY <1>1, <2>1, <2>2 DEF DirKeeps, Like, n
  <2>6. FileKeeps(h, p, x) <=> FileKeeps(f, p, x)
    BY DEF FileKeeps, SameFile
  <2> QED BY <2>4, <2>5, <2>6 DEF Keeps
<1>4. ASSUME NEW x \in Nat PROVE ~Keeps(s, f, TablesIn(a), q, x)
  BY <1>1 DEF Keeps, ItemKeeps, DirKeeps, FileKeeps, RowKeeps
<1> QED BY <1>2, <1>3, <1>4 DEF OneMoreKept, MakesPlace

(* The file that is dropped becomes an item of its directory.               *)
LEMMA FileIsListed ==
  ASSUME NEW s, NEW f, NEW a, NEW t, NEW h, Once(s, f, a), Stream(a),
         f.open, ~h.open, Lists(s, t, f.item)
  PROVE  Once(t, h, a)
<1>1. ~NoFile.open /\ SameFile(NoFile, h)
  BY DEF NoFile, SameFile
<1>2. Alike(s, s)
  BY DEF Alike, Like
<1>3. MakesPlace(s, NoFile, a, s, f, a, f.item.offset)
  BY <1>1, <1>2, FileMakesPlace
<1>4. MakesPlace(s, NoFile, a, t, h, a, f.item.offset)
  BY <1>1, ItemMakesPlace
<1>5. f.item.offset \in Nat
  BY DEF Lists, GoodbyeItem
<1> QED BY <1>3, <1>4, <1>5, ReplacedIsOnce

(* A directory is left whose items are in its table: it becomes an item of   *)
(* the one around it.                                                      *)
Pops(s, t, item) ==
  /\ Len(s) - 1 \in Nat \ {0} /\ Len(t) = Len(s) - 1
  /\ s[Len(s)].items = <<>>
  /\ s[Len(s)].file_offset = item.offset
  /\ \A d \in 1..Len(s) - 2 : Like(s[d], t[d])
  /\ s[Len(s) - 1].items \in Seq(GoodbyeItem)
  /\ item \in GoodbyeItem
  /\ t[Len(s) - 1].items = Append(s[Len(s) - 1].items, item)
  /\ t[Len(s) - 1].file_offset = s[Len(s) - 1].file_offset

LEMMA DirIsListed ==
  ASSUME NEW s, NEW f, NEW a, NEW t, Once(s, f, a), Stream(a),
         NEW item, Pops(s, t, item)
  PROVE  Once(t, f, a)
<1> DEFINE k == Len(s) - 1
           u == [d \in 1..k |-> s[d]]
<1>1. k \in Nat \ {0} /\ Len(s) = k + 1 /\ Len(s) - 2 = k - 1
  <2>1. ASSUME NEW m, m - 1 \in Nat \ {0}, m \in Nat
        PROVE  m = (m - 1) + 1 /\ m - 2 = (m - 1) - 1
    BY <2>1
  <2>2. Len(s) \in Nat
    OBVIOUS
  <2> QED BY <2>1, <2>2 DEF Pops
<1>2. Len(u) = k
  BY <1>1, LenOfFunction
<1>3. \A d \in 1..k : u[d] = s[d]
  OBVIOUS
<1> HIDE DEF u
<1>4. Pushes(u, s, item.offset)
  BY <1>1, <1>2, <1>3 DEF Pushes, Pops, Like
<1>5. Lists(u, t, item)
  <2>1. k \in 1..k /\ \A d \in 1..k - 1 : d \in 1..k
    BY <1>1
  <2> QED BY <1>1, <1>2, <1>3, <2>1 DEF Lists, Pops, Like
<1>6. SameFile(f, f)
  BY DEF SameFile
<1>7. /\ MakesPlace(u, f, a, s, f, a, item.offset)
      /\ MakesPlace(u, f, a, t, f, a, item.offset)
  BY <1>4, <1>5, <1>6, DirMakesPlace, ItemMakesPlace
<1>8. item.offset \in Nat
  BY DEF Pops, GoodbyeItem
<1> QED BY <1>7, <1>8, ReplacedIsOnce

(* The items of a directory go into its table, g, in the order "order" has   *)
(* them.                                                                   *)
Empties(s, t) ==
  /\ Len(s) \in Nat \ {0} /\ Len(t) = Len(s)
  /\ \A d \in 1..Len(s) - 1 : Like(s[d], t[d])
  /\ t[Len(s)].items = <<>>
  /\ t[Len(s)].file_offset = s[Len(s)].file_offset

Tabulates(items, order, a, g) ==
  /\ items \in Seq(GoodbyeItem)
  /\ order \in Injection(1..Len(items), 1..Len(items))
  /\ g.at = a.len
  /\ Len(g.item.rows) = Len(items)
  /\ \A i \in 1..Len(items) :
       /\ g.item.rows[i].offset = a.len - items[order[i]].offset
       /\ g.item.rows[i].size = items[order[i]].size

(* An injective order of n items leaves none out.                           *)
LEMMA OrdersAreOnto ==
  ASSUME NEW n \in Nat, NEW order \in Injection(1..n, 1..n)
  PROVE  \A k \in 1..n : \E i \in 1..n : order[i] = k
<1>1. IsFiniteSet(1..n)
  BY FS_Interval
<1>2. order \in Surjection(1..n, 1..n)
  BY <1>1, FS_Injection
<1> QED BY <1>2 DEF Surjection

LEMMA ItemsAreTabulated ==
  ASSUME NEW s, NEW f, NEW a, NEW t, NEW b, NEW order, NEW g,
         Once(s, f, a), Stream(a), NamesIn(b) = NamesIn(a),
         Empties(s, t), Tabulates(s[Len(s)].items, order, a, g),
         TablesIn(b) = TablesIn(a) \cup {g}
  PROVE  Once(t, f, b)
<1> DEFINE n == Len(s)
           items == s[n].items
           k == Len(items)
           from == [p \in Places |-> IF p[1] = "row" /\ p[2] = a.len
                                       THEN <<"item", n, order[p[3]]>>
                                       ELSE p]
<1>1. /\ n \in Nat \ {0} /\ n \in 1..n /\ Len(t) = n
      /\ items \in Seq(GoodbyeItem) /\ k \in Nat
      /\ order \in [1..k -> 1..k]
      /\ \A i, j \in 1..k : order[i] = order[j] => i = j
      /\ \A j \in 1..k : \E i \in 1..k : order[i] = j
      /\ a.len \in Nat
      /\ g.at = a.len /\ Len(g.item.rows) = k
      /\ \A i \in 1..k :
           g.item.rows[i].offset = a.len - items[order[i]].offset
      /\ s[n].items = items /\ Len(s[n].items) = k
  <2>1. Tabulates(items, order, a, g)
    OBVIOUS
  <2>2. n \in Nat \ {0} /\ n \in 1..n /\ Len(t) = n /\ a.len \in Nat
    BY DEF Empties, Stream
  <2> HIDE DEF items
  <2>3. /\ items \in Seq(GoodbyeItem) /\ k \in Nat
        /\ order \in Injection(1..k, 1..k)
        /\ g.at = a.len /\ Len(g.item.rows) = k
        /\ \A i \in 1..k :
             g.item.rows[i].offset = a.len - items[order[i]].offset
    BY <2>1 DEF Tabulates
  <2> HIDE DEF k
  <2>4. \A j \in 1..k : \E i \in 1..k : order[i] = j
    BY <2>3, OrdersAreOnto
  <2>5. /\ order \in [1..k -> 1..k]
        /\ \A i, j \in 1..k : order[i] = order[j] => i = j
    BY <2>3 DEF Injection, IsInjective
  <2> QED BY <2>2, <2>3, <2>4, <2>5 DEF items, k
<1> HIDE DEF items, k
<1>2. \A c \in TablesIn(a) : c.at \in Nat /\ c.at # a.len
  <2> SUFFICES ASSUME NEW c \in TablesIn(a) PROVE c.at \in Nat /\ c.at # a.len
    OBVIOUS
  <2>1. /\ c.at \in Nat /\ c.item.size \in Nat /\ c.item.size >= HeaderSize
        /\ c.at + c.item.size <= a.len
    BY DEF TablesIn, CellsOf, Stream, ItemOK
  <2> QED BY <1>1, <2>1 DEF HeaderSize
<1>3. ASSUME NEW p \in Places, NEW x \in Nat
      PROVE  /\ ItemKeeps(t, p, x) <=> ItemKeeps(s, p, x) /\ p[2] # n
             /\ DirKeeps(t, p, x) <=> DirKeeps(s, p, x)
  <2>1. p[2] \in 1..n /\ p[2] # n <=> p[2] \in 1..n - 1
    BY <1>1 DEF Places
  <2>2. 1..Len(t[n].items) = {}
    BY DEF Empties
  <2>3. ItemKeeps(t, p, x) <=> ItemKeeps(s, p, x) /\ p[2] # n
    <3>1. CASE p[2] = n
      BY <2>2, <3>1 DEF ItemKeeps
    <3>2. CASE p[2] # n
      BY <1>1, <2>1, <3>2 DEF ItemKeeps, Empties, Like
    <3> QED BY <3>1, <3>2
  <2>4. \A d \in 2..n : t[d].file_offset = s[d].file_offset
    <3> SUFFICES ASSUME NEW d \in 2..n
                 PROVE  t[d].file_offset = s[d].file_offset
      OBVIOUS
    <3>1. d = n \/ d \in 1..n - 1
      BY <1>1
    <3> QED BY <3>1 DEF Empties, Like
  <2>5. DirKeeps(t, p, x) <=> DirKeeps(s, p, x)
    BY <1>1, <2>4 DEF DirKeeps
  <2> QED BY <2>3, <2>5
(* The rows of the new table and the items they were made of.               *)
<1>4. ASSUME NEW p \in Places, NEW x \in Nat, p[1] = "row", p[2] = a.len
      PROVE  RowKeeps(TablesIn(b), p, x) <=>
               p[3] \in 1..k /\ items[order[p[3]]].offset = x
  <2>1. RowKeeps(TablesIn(b), p, x) <=>
          p[3] \in 1..k /\ g.item.rows[p[3]].offset = a.len - x
    BY <1>1, <1>2, <1>4 DEF RowKeeps
  <2>2. ASSUME p[3] \in 1..k
        PROVE  /\ items[order[p[3]]].offset \in Nat
               /\ g.item.rows[p[3]].offset
                    = a.len - items[order[p[3]]].offset
    <3>1. order[p[3]] \in 1..k
      BY <1>1, <2>2
    <3>2. items[order[p[3]]] \in GoodbyeItem
      BY <1>1, <3>1
    <3> QED BY <1>1, <2>2, <3>2 DEF GoodbyeItem
  <2>3. ASSUME NEW y \in Nat
        PROVE  a.len - y = a.len - x <=> y = x
    BY <1>1
  <2> QED BY <2>1, <2>2, <2>3
<1>5. ASSUME NEW p \in Places, NEW x \in Nat, p[2] # a.len
      PROVE  RowKeeps(TablesIn(b), p, x) <=> RowKeeps(TablesIn(a), p, x)
  BY <1>1, <1>5 DEF RowKeeps
<1>6. ASSUME NEW p \in Places, NEW x \in Nat, p[2] = a.len
      PROVE  ~RowKeeps(TablesIn(a), p, x)
  BY <1>2, <1>6 DEF RowKeeps
<1> HIDE DEF n
<1>10. ASSUME NEW p \in Places
       PROVE  IF p[1] = "row" /\ p[2] = a.len
                THEN /\ from[p][1] = "item" /\ from[p][2] = n
                     /\ from[p][3] = order[p[3]]
                     /\ from[p] = <<"item", n, order[p[3]]>>
                ELSE from[p] = p
  BY <1>10
<1> HIDE DEF from
<1>7. ASSUME NEW p \in Places, NEW x \in Nat,
             Keeps(t, f, TablesIn(b), p, x)
      PROVE  from[p] \in Places /\ Keeps(s, f, TablesIn(a), from[p], x)
  <2>1. CASE p[1] = "row" /\ p[2] = a.len
    <3>1. p[3] \in 1..k /\ items[order[p[3]]].offset = x
      BY <1>4, <1>7, <2>1 DEF Keeps, ItemKeeps, DirKeeps, FileKeeps
    <3>2. order[p[3]] \in 1..k /\ order[p[3]] \in Nat
      BY <1>1, <3>1
    <3>3. /\ from[p] = <<"item", n, order[p[3]]>>
          /\ from[p][1] = "item" /\ from[p][2] = n
          /\ from[p][3] = order[p[3]]
      BY <1>10, <2>1
    <3>4. from[p] \in Places
      BY <1>1, <3>2, <3>3 DEF Places
    <3>5. s[n].items[from[p][3]].offset = x
      BY <1>1, <3>1, <3>3
    <3>6. from[p][3] \in 1..Len(s[n].items) /\ n \in 1..Len(s)
      BY <1>1, <3>2, <3>3 DEF n
    <3>7. ItemKeeps(s, from[p], x)
      BY <3>3, <3>5, <3>6 DEF ItemKeeps
    <3> QED BY <3>4, <3>7 DEF Keeps
  <2>2. CASE ~(p[1] = "row" /\ p[2] = a.len)
    <3>1. from[p] = p
      BY <1>10, <2>2
    <3>2. RowKeeps(TablesIn(b), p, x) => RowKeeps(TablesIn(a), p, x)
      BY <1>5, <2>2 DEF RowKeeps
    <3> QED BY <1>3, <1>7, <3>1, <3>2 DEF Keeps
  <2> QED BY <2>1, <2>2
<1>8. ASSUME NEW p \in Places, NEW q \in Places, NEW x \in Nat,
             Keeps(t, f, TablesIn(b), p, x), Keeps(t, f, TablesIn(b), q, x),
             from[p] = from[q]
      PROVE  p = q
  <2>1. ASSUME NEW r \in Places, Keeps(t, f, TablesIn(b), r, x),
               r[1] = "row", r[2] = a.len
        PROVE  /\ r[3] \in 1..k
               /\ from[r][1] = "item" /\ from[r][2] = n
               /\ from[r][3] = order[r[3]]
    BY <1>4, <1>10, <2>1 DEF Keeps, ItemKeeps, DirKeeps, FileKeeps
  <2>2. ASSUME NEW r \in Places, Keeps(t, f, TablesIn(b), r, x),
               ~(r[1] = "row" /\ r[2] = a.len)
        PROVE  from[r] = r /\ ~(r[1] = "item" /\ r[2] = n)
    <3>1. from[r] = r
      BY <1>10, <2>2
    <3>2. ~(r[1] = "item" /\ r[2] = n)
      BY <1>3, <2>2 DEF Keeps, ItemKeeps, DirKeeps, FileKeeps, RowKeeps
    <3> QED BY <3>1, <3>2
  <2>3. CASE /\ p[1] = "row" /\ p[2] = a.len
             /\ q[1] = "row" /\ q[2] = a.len
    <3>1. p[3] \in 1..k /\ from[p][3] = order[p[3]]
      BY <1>8, <2>1, <2>3
    <3>2. q[3] \in 1..k /\ from[q][3] = order[q[3]]
      BY <1>8, <2>1, <2>3
    <3>3. p[3] = q[3]
      <4>1. order[p[3]] = order[q[3]]
        BY <1>8, <3>1, <3>2
      <4>2. \A i, j \in 1..k : order[i] = order[j] => i = j
        BY <1>1
      <4> QED BY <3>1, <3>2, <4>1, <4>2, Zenon
    <3> QED BY <2>3, <3>3 DEF Places
  <2>4. CASE /\ p[1] = "row" /\ p[2] = a.len
             /\ ~(q[1] = "row" /\ q[2] = a.len)
    BY <1>8, <2>1, <2>2, <2>4
  <2>5. CASE /\ ~(p[1] = "row" /\ p[2] = a.len)
             /\ q[1] = "row" /\ q[2] = a.len
    BY <1>8, <2>1, <2>2, <2>5
  <2>6. CASE /\ ~(p[1] = "row" /\ p[2] = a.len)
             /\ ~(q[1] = "row" /\ q[2] = a.len)
    BY <1>8, <2>2, <2>6
  <2> QED BY <2>3, <2>4, <2>5, <2>6
<1>9. ASSUME NEW p \in Places, NEW x \in Nat,
             Keeps(s, f, TablesIn(a), p, x)
      PROVE  \E q \in Places : Keeps(t, f, TablesIn(b), q, x)
  <2>1. CASE ItemKeeps(s, p, x) /\ p[2] = n
    <3>1. p[3] \in 1..k /\ items[p[3]].offset = x
      BY <1>1, <2>1 DEF ItemKeeps
    <3>2. PICK i \in 1..k : order[i] = p[3]
      BY <1>1, <3>1
    <3> DEFINE q == <<"row", a.len, i>>
    <3>3. q \in Places /\ q[1] = "row" /\ q[2] = a.len /\ q[3] = i
      <4>1. i \in Nat /\ a.len \in Nat
        BY <1>1
      <4> QED BY <4>1 DEF Places
    <3> HIDE DEF q
    <3>4. RowKeeps(TablesIn(b), q, x)
      BY <1>4, <3>1, <3>2, <3>3
    <3> QED BY <3>3, <3>4 DEF Keeps
  <2>2. CASE ~(ItemKeeps(s, p, x) /\ p[2] = n)
    <3>1. RowKeeps(TablesIn(a), p, x) => RowKeeps(TablesIn(b), p, x)
      BY <1>5, <1>6
    <3> QED BY <1>3, <1>9, <2>2, <3>1 DEF Keeps
  <2> QED BY <2>1, <2>2
<1>11. TakesOver(s, f, a, t, f, b, from)
  BY <1>7, <1>8, <1>9 DEF TakesOver
<1> QED BY <1>11, TakingOverIsOnce

-----------------------------------------------------------------------------
(***************************************************************************)
(* What is written.                                                        *)
(***************************************************************************)
Quiet(a, b) == NamesIn(b) = NamesIn(a) /\ TablesIn(b) = TablesIn(a)

NameAdded(a, b) == NameJoins(a, b) /\ TablesIn(b) = TablesIn(a)

LEMMA OthersAreQuiet ==
  ASSUME NEW a, NEW item, item.htype \notin {"FILENAME", "GOODBYE"}
  PROVE  Quiet(a, Append1(a, item))
<1> DEFINE new == [at |-> a.len, item |-> item]
<1>1. /\ Append1(a, item).cells = a.cells \cup {new} /\ new.item = item
  BY DEF Append1
<1> HIDE DEF new
<1> QED BY <1>1 DEF Quiet, NamesIn, TablesIn, CellsOf

LEMMA DataIsQuiet ==
  ASSUME NEW w, NEW k
  PROVE  Quiet(w.out, SeqWriteData(w, k).out)
<1>1. Quiet(w.out, Append1(w.out, Data(k))) /\ Quiet(w.out, w.out)
  BY OthersAreQuiet DEF Data, Quiet
<1> QED BY <1>1, WriterOut DEF SeqWriteData

LEMMA NameIsWritten ==
  ASSUME NEW a, NEW n
  PROVE  NameAdded(a, Append1(a, Filename(n)))
<1> DEFINE item == Filename(n)
           new == [at |-> a.len, item |-> item]
<1>1. /\ Append1(a, item).cells = a.cells \cup {new}
      /\ new.item = item /\ new.at = a.len /\ item.htype = "FILENAME"
  BY DEF Append1, Filename
<1> HIDE DEF new, item
<1> QED BY <1>1 DEF NameAdded, NameJoins, NamesIn, TablesIn, CellsOf, item

LEMMA StartFileNames ==
  ASSUME NEW n, NEW meta
  PROVE  NameAdded(archive, StartFile(n, meta).out)
<1> DEFINE named == Append1(archive, Filename(n))
<1>1. StartFile(n, meta).out = Append1(named, Entry(meta))
  BY WriterOut DEF StartFile, ArchiveWriter
<1>2. NameAdded(archive, named)
  BY NameIsWritten
<1> HIDE DEF named
<1>3. Quiet(named, Append1(named, Entry(meta)))
  BY OthersAreQuiet DEF Entry
<1> QED BY <1>1, <1>2, <1>3 DEF NameAdded, Quiet, NameJoins

LEMMA FileArchiveNames ==
  ASSUME NEW n, NEW meta, NEW size
  PROVE  NameAdded(archive, FileArchive(n, meta, size).out)
<1> DEFINE s == StartFile(n, meta)
           ref == PayloadRef(Top.payload_write_position, size)
           item == IF Split THEN ref ELSE Payload(size)
<1>1. NameAdded(archive, s.out)
  BY StartFileNames
<1>2. item.htype \notin {"FILENAME", "GOODBYE"}
  BY DEF PayloadRef, Payload
<1>3. FileArchive(n, meta, size) = SeqWrite(s, item)
  BY DEF FileArchive
<1> HIDE DEF s, item
<1>4. Quiet(s.out, SeqWrite(s, item).out)
  BY <1>2, WriterOut, OthersAreQuiet
<1> QED BY <1>1, <1>3, <1>4 DEF NameAdded, Quiet, NameJoins

-----------------------------------------------------------------------------
(***************************************************************************)
(* The calls.                                                              *)
(***************************************************************************)
LEMMA KeptIsBehind ==
  ASSUME OInv, "finish" \notin faults
  PROVE  KeptBehind(state, file, archive)
<1>1. /\ Stream(archive) /\ archive.len \in Nat
      /\ StackLeads(archive.cells, state)
      /\ OpenFileLeads
      /\ \A c \in archive.cells : CellLeads(archive.cells, c)
  BY DEF OInv, OffsetsLead, IInv, TypeOK, Stream
<1>2. ASSUME NEW x, NEW hash, NameLeads(archive.cells, x, hash)
      PROVE  x < archive.len
  <2>1. PICK c \in archive.cells : c.at = x /\ c.item.htype = "FILENAME"
    BY <1>2 DEF NameLeads
  <2>2. /\ c.at \in Nat /\ c.item.size \in Nat /\ c.item.size >= HeaderSize
        /\ c.at + c.item.size <= archive.len
    BY <1>1, <2>1 DEF Stream, ItemOK
  <2> QED BY <1>1, <2>1, <2>2 DEF HeaderSize
<1> SUFFICES ASSUME NEW p \in Places, NEW x \in Nat,
                    Keeps(state, file, TablesIn(archive), p, x)
             PROVE  x < archive.len
  BY DEF KeptBehind
<1>3. CASE ItemKeeps(state, p, x)
  BY <1>1, <1>2, <1>3 DEF ItemKeeps, StackLeads, DirLeads, ItemsLead
<1>4. CASE DirKeeps(state, p, x)
  <2>1. p[2] \in 1..Len(state) /\ p[2] > 1
    BY <1>4 DEF DirKeeps
  <2> QED BY <1>1, <1>2, <1>4, <2>1 DEF DirKeeps, StackLeads, DirLeads
<1>5. CASE FileKeeps(file, p, x)
  BY <1>1, <1>2, <1>5 DEF FileKeeps, OpenFileLeads
<1>6. CASE RowKeeps(TablesIn(archive), p, x)
  <2>1. PICK c \in TablesIn(archive) :
          /\ p[3] \in 1..Len(c.item.rows)
          /\ c.item.rows[p[3]].offset = c.at - x
    BY <1>6 DEF RowKeeps
  <2>2. /\ c.at \in Nat /\ c.item.htype = "GOODBYE" /\ c \in archive.cells
    BY <1>1 DEF TablesIn, CellsOf, Stream
  <2>3. NameLeads(archive.cells, c.at - c.item.rows[p[3]].offset,
                  c.item.rows[p[3]].hash)
    BY <1>1, <2>1, <2>2 DEF CellLeads, RowsLead
  <2>4. c.at - (c.at - x) = x
    BY <2>2
  <2> QED BY <1>2, <2>1, <2>3, <2>4
<1> QED BY <1>3, <1>4, <1>5, <1>6 DEF Keeps

(* A call that writes a FILENAME leaves its offset in one place.            *)
LEMMA NameIsKept ==
  ASSUME OInv, faults = {}, ListedOnce, NameAdded(archive, archive'),
         MakesPlace(state, file, archive, state', file', archive',
                    archive.len)
  PROVE  ListedOnce'
<1>1. KeptBehind(state, file, archive) /\ Stream(archive)
  BY KeptIsBehind DEF OInv, IInv, TypeOK
<1> QED BY <1>1, JoinIsOnce DEF NameAdded, ListedOnce

(* A call within the current directory that lists nothing.                  *)
LEMMA TopIsAlike ==
  ASSUME IInv, IInv', state # <<>>, NEW t, SetTop(t),
         t.items = Top.items, t.file_offset = Top.file_offset
  PROVE  Alike(state, state')
<1>1. /\ Depth \in Nat \ {0} /\ Depth' = Depth /\ Top' = t
  BY TopIsReplaced
<1>2. Depth = Len(state) /\ Len(state') = Len(state)
  BY <1>1 DEF Depth
<1>3. \A d \in 1..Len(state) - 1 : state'[d] = state[d]
  BY <1>1, <1>2 DEF SetTop, IInv, TypeOK
<1>4. state'[Len(state)] = t /\ state[Len(state)] = Top
  BY <1>1, <1>2 DEF Top
<1> SUFFICES ASSUME NEW d \in 1..Len(state)
             PROVE  Like(state[d], state'[d])
  BY <1>2 DEF Alike
<1>5. d \in 1..Len(state) - 1 \/ d = Len(state)
  BY <1>1, <1>2
<1> QED BY <1>3, <1>4, <1>5 DEF Like

LEMMA TopLists ==
  ASSUME IInv, IInv', state # <<>>, NEW t, SetTop(t),
         NEW item \in GoodbyeItem, t.items = Append(Top.items, item),
         t.file_offset = Top.file_offset
  PROVE  Lists(state, state', item)
<1>1. /\ Depth \in Nat \ {0} /\ Depth' = Depth /\ Top' = t
  BY TopIsReplaced
<1>2. Depth = Len(state) /\ Len(state') = Len(state)
  BY <1>1 DEF Depth
<1>3. \A d \in 1..Len(state) - 1 : state'[d] = state[d]
  BY <1>1, <1>2 DEF SetTop, IInv, TypeOK
<1>4. state'[Len(state)] = t /\ state[Len(state)] = Top
  BY <1>1, <1>2 DEF Top
<1>5. Top.items \in Seq(GoodbyeItem)
  BY TopOK DEF DirOK, EncoderStates
<1> QED BY <1>1, <1>2, <1>3, <1>4, <1>5 DEF Lists, Like

LEMMA CreateFileLists ==
  ASSUME OInv, IInv', faults = {}, ListedOnce,
         NEW n \in Names, NEW meta \in Metas, NEW size \in FileSizes,
         CreateFile(n, meta, size)
  PROVE  ListedOnce'
<1> DEFINE a == FileArchive(n, meta, size)
           p == FilePayload(size)
           t == PayloadAt(At(Top, a.position), p.position)
<1>1. /\ state # <<>> /\ ~file.open /\ archive' = a.out /\ SetTop(t)
      /\ file' = [open |-> TRUE, remaining_size |-> size,
                  item |-> FileItem(n, meta, size)]
  BY DEF CreateFile, CanCreateFile, Check, Usable
<1>2. file'.open /\ file'.item.offset = archive.len
  BY <1>1, FileWritersOK, TopLeads DEF OInv
<1>3. t.items = Top.items /\ t.file_offset = Top.file_offset
  BY <1>1, TopOK, MovedFields DEF DirOK, OInv
<1> HIDE DEF t
<1>4. Alike(state, state')
  BY <1>1, <1>3, TopIsAlike DEF OInv
<1>5. NameAdded(archive, archive')
  BY <1>1, FileArchiveNames
<1>6. MakesPlace(state, file, archive, state', file', archive', archive.len)
  BY <1>1, <1>2, <1>4, <1>5, FileMakesPlace DEF NameAdded
<1> QED BY <1>5, <1>6, NameIsKept

(* A call that changes positions and writes neither a FILENAME nor a table. *)
LEMMA QuietStepLists ==
  ASSUME OInv, IInv', ListedOnce, state # <<>>, NEW t, SetTop(t),
         t.items = Top.items, t.file_offset = Top.file_offset,
         SameFile(file, file'), Quiet(archive, archive')
  PROVE  ListedOnce'
<1>1. Alike(state, state')
  BY TopIsAlike DEF OInv
<1>2. SameKept(state, file, archive, state', file', archive')
  BY <1>1, AlikeKeeps DEF Quiet
<1>3. Stream(archive)
  BY DEF OInv, IInv, TypeOK
<1> QED BY <1>2, <1>3, SameIsOnce DEF ListedOnce, Quiet

LEMMA WriteLists ==
  ASSUME OInv, IInv', ListedOnce, NEW k \in WriteSizes,
         Write(k) \/ PollWrite(k)
  PROVE  ListedOnce'
<1>1. /\ file.open /\ state # <<>>
      /\ PutToArchive(k) \/ PutToPayload(k)
      /\ file' = [file EXCEPT !.remaining_size = @ - k]
  BY DEF Write, PollWrite, PutContent, OInv, IInv, TypeOK
<1>2. SameFile(file, file')
  BY <1>1 DEF SameFile, OInv, IInv, TypeOK
<1>3. Top \in EncoderStates
  BY <1>1, TopOK DEF DirOK, OInv
<1>4. CASE PutToArchive(k)
  <2> DEFINE w == SeqWriteData(ArchiveWriter, k)
             t == At(Top, w.position)
  <2>1. archive' = w.out /\ SetTop(t)
    BY <1>4 DEF PutToArchive
  <2>2. Quiet(archive, archive')
    BY <2>1, DataIsQuiet DEF ArchiveWriter
  <2>3. t.items = Top.items /\ t.file_offset = Top.file_offset
    BY <1>3, AtFields
  <2> HIDE DEF t
  <2> QED BY <1>1, <1>2, <2>1, <2>2, <2>3, QuietStepLists
<1>5. CASE PutToPayload(k)
  <2> DEFINE w == SeqWriteData(PayloadWriter, k)
             t == PayloadAt(Top, w.position)
  <2>1. archive' = archive /\ SetTop(t)
    BY <1>5 DEF PutToPayload
  <2>2. Quiet(archive, archive')
    BY <2>1 DEF Quiet
  <2>3. t.items = Top.items /\ t.file_offset = Top.file_offset
    BY <1>3, PayloadAtFields
  <2> HIDE DEF t
  <2> QED BY <1>1, <1>2, <2>1, <2>2, <2>3, QuietStepLists
<1> QED BY <1>1, <1>4, <1>5

LEMMA AdvanceLists ==
  ASSUME OInv, IInv', ListedOnce, Advance
  PROVE  ListedOnce'
<1> DEFINE w == SeqWriteData(SeqWrite(PayloadWriter,
                                      Payload(promised[1].content)),
                             promised[1].content)
           t == PayloadAt(Top, w.position)
<1>1. state # <<>> /\ archive' = archive /\ file' = file /\ SetTop(t)
  BY DEF Advance, Usable
<1>2. Quiet(archive, archive') /\ SameFile(file, file')
  BY <1>1 DEF Quiet, SameFile
<1>3. t.items = Top.items /\ t.file_offset = Top.file_offset
  BY <1>1, TopOK, PayloadAtFields DEF DirOK, OInv
<1> HIDE DEF t
<1> QED BY <1>1, <1>2, <1>3, QuietStepLists

LEMMA DropFileLists ==
  ASSUME OInv, IInv', ListedOnce, DropFile
  PROVE  ListedOnce'
<1> DEFINE t == DropInto(Top, file.item, file.remaining_size)
<1>1. /\ file.open /\ SetTop(t) /\ file' = NoFile /\ archive' = archive
      /\ state # <<>> /\ file.item \in GoodbyeItem /\ Stream(archive)
  BY DEF DropFile, OInv, IInv, TypeOK
<1>2. /\ t.items = Append(Top.items, file.item)
      /\ t.file_offset = Top.file_offset
  BY <1>1, TopOK, DropIntoFields DEF OInv
<1> HIDE DEF t
<1>3. Lists(state, state', file.item)
  BY <1>1, <1>2, TopLists DEF OInv
<1>4. ~file'.open
  BY <1>1 DEF NoFile
<1>5. Once(state', file', archive)
  BY <1>1, <1>3, <1>4, FileIsListed DEF ListedOnce
<1> QED BY <1>1, <1>5 DEF ListedOnce

(* A call that adds an entry as a whole.                                    *)
LEMMA ItemStepLists ==
  ASSUME OInv, IInv', faults = {}, ListedOnce, state # <<>>,
         NEW t, SetTop(t), NEW item \in GoodbyeItem,
         t.items = Append(Top.items, item), t.file_offset = Top.file_offset,
         item.offset = archive.len, file' = file,
         NameAdded(archive, archive')
  PROVE  ListedOnce'
<1>1. Lists(state, state', item)
  BY TopLists DEF OInv
<1>2. SameFile(file, file')
  BY DEF SameFile
<1>3. MakesPlace(state, file, archive, state', file', archive', item.offset)
  BY <1>1, <1>2, ItemMakesPlace DEF NameAdded
<1> QED BY <1>3, NameIsKept

LEMMA AddFileLists ==
  ASSUME OInv, IInv', faults = {}, ListedOnce,
         NEW n \in Names, NEW meta \in Metas,
         NEW size \in FileSizes, NEW got \in 0..size,
         NEW returned \in BOOLEAN, AddFile(n, meta, size, got, returned)
  PROVE  ListedOnce'
<1> DEFINE a == FileArchive(n, meta, size)
           p == FilePayload(size)
           a2 == IF Split THEN a ELSE SeqWriteData(a, got)
           p2 == IF Split THEN SeqWriteData(p, got) ELSE p
           written == PayloadAt(At(Top, a2.position), p2.position)
           item == FileItem(n, meta, size)
           t == DropInto(written, item, size - got)
<1>1. /\ state # <<>> /\ ~file.open
      /\ archive' = a2.out /\ SetTop(t) /\ file' = file
  BY DEF AddFile, CanCreateFile, Check, Usable
<1>2. /\ Extends(ArchiveWriter, a) /\ Extends(PayloadWriter, p)
      /\ item \in GoodbyeItem
      /\ item.offset = Top.write_position
      /\ IsWriter(ArchiveWriter) /\ IsWriter(PayloadWriter)
      /\ IsWriter(a) /\ IsWriter(p)
      /\ Top \in EncoderStates
      /\ Top.write_position = archive.len /\ got \in Nat
  BY <1>1, FileWritersOK, TopOK, TopLeads, EncoderAssumption
     DEF Extends, DirOK, OInv
<1>3. NameAdded(archive, a.out)
  BY FileArchiveNames
<1>4. Quiet(a.out, a2.out)
  BY DataIsQuiet DEF Quiet
<1>5. /\ Extends(a, a2) /\ Extends(p, p2)
  <2>1. Extends(a, SeqWriteData(a, got)) /\ Extends(p, SeqWriteData(p, got))
    BY <1>2, SeqWriteDataExtends
  <2>2. Extends(a, a) /\ Extends(p, p)
    BY <1>2, ExtendsReflexive
  <2> QED BY <2>1, <2>2
<1> HIDE DEF a, p, a2, p2, item
<1>6. Extends(ArchiveWriter, a2) /\ Extends(PayloadWriter, p2)
  BY <1>2, <1>5, ExtendsTransitive
<1>7. /\ DirOK(written) /\ written.items = Top.items
      /\ written.file_offset = Top.file_offset
  BY <1>1, <1>2, <1>6, MovedOnOK, MovedFields DEF OInv
<1> HIDE DEF written
<1>8. t.items = Append(Top.items, item) /\ t.file_offset = Top.file_offset
  BY <1>7, DropIntoFields
<1> HIDE DEF t
<1>9. NameAdded(archive, archive')
  BY <1>1, <1>3, <1>4 DEF NameAdded, NameJoins, Quiet
<1> QED BY <1>1, <1>2, <1>8, <1>9, ItemStepLists

LEMMA EntryLists ==
  ASSUME OInv, IInv', faults = {}, ListedOnce, state # <<>>,
         NEW n \in Names, NEW full, EntryAdded(n, full),
         Extends(ArchiveWriter, full), NameAdded(archive, full.out),
         file' = file
  PROVE  ListedOnce'
<1> DEFINE item == [hash   |-> HashOf[n],
                    offset |-> Top.write_position,
                    size   |-> full.position - Top.write_position]
           moved == At(Top, full.position)
           t == Listing(moved, item)
<1>1. archive' = full.out /\ SetTop(t)
  BY DEF EntryAdded
<1>2. /\ full.position \in Nat /\ Top.write_position \in Nat
      /\ Top.write_position <= full.position
      /\ Top.write_position = archive.len
      /\ HashOf[n] \in Nat /\ DirOK(Top) /\ Top \in EncoderStates
  BY TopOK, TopLeads, NamesAssumption
     DEF Extends, IsWriter, ArchiveWriter, OInv, DirOK
<1>3. item \in GoodbyeItem /\ item.offset = archive.len
  BY <1>2 DEF GoodbyeItem
<1>4. /\ moved \in EncoderStates /\ moved.items = Top.items
      /\ moved.file_offset = Top.file_offset
  BY <1>2, AtOK, AtFields DEF DirOK
<1> HIDE DEF item, moved
<1>5. t.items = Append(Top.items, item) /\ t.file_offset = Top.file_offset
  BY <1>4, ListingFields
<1> HIDE DEF t
<1> QED BY <1>1, <1>3, <1>5, ItemStepLists

(* The calls that share add_file_entry, each a FILENAME and then other items. *)
OtherEntryCalls(n) ==
  \/ \E meta \in Metas :
       \/ \E len \in TargetLens : AddSymlink(n, meta, len)
       \/ AddDevice(n, meta)
       \/ AddFifo(n, meta)
       \/ AddSocket(n, meta)
       \/ \E ref \in KnownPayloads \cup NextPayloads :
            AddPayloadRef(n, meta, ref)
  \/ \E len \in TargetLens, target \in links : AddHardlink(n, len, target)

WritesEntry(n, full) ==
  /\ EntryAdded(n, full)
  /\ Extends(ArchiveWriter, full)
  /\ NameAdded(archive, full.out)

LEMMA OneItemMore ==
  ASSUME NEW w, Extends(ArchiveWriter, w), IsWriter(ArchiveWriter),
         NameAdded(archive, w.out), NEW item, ItemOK(item),
         item.htype \notin {"FILENAME", "GOODBYE"}
  PROVE  /\ Extends(ArchiveWriter, SeqWrite(w, item))
         /\ NameAdded(archive, SeqWrite(w, item).out)
<1> DEFINE full == SeqWrite(w, item)
<1>1. IsWriter(w) /\ Extends(w, full)
  BY SeqWriteExtends DEF Extends
<1>2. Quiet(w.out, full.out)
  BY WriterOut, OthersAreQuiet
<1>3. Extends(ArchiveWriter, full)
  BY <1>1, ExtendsTransitive
<1> HIDE DEF full
<1>4. NameAdded(archive, full.out)
  BY <1>2 DEF NameAdded, NameJoins, Quiet
<1> QED BY <1>3, <1>4 DEF full

LEMMA OtherCallsWrite ==
  ASSUME OInv, faults = {}, faults' = {}, NEW n \in Names, OtherEntryCalls(n)
  PROVE  /\ \E full : WritesEntry(n, full)
         /\ state # <<>> /\ ~file.open
         /\ file' = file /\ result' = result
<1>1. IInv /\ \A full : ~CallFails(full)
  BY FaultsStay DEF CallFails, OInv
<1>2. ASSUME NEW full, AddFileEntry(n, full)
      PROVE  /\ EntryAdded(n, full)
             /\ state # <<>> /\ ~file.open
             /\ file' = file /\ result' = result
  BY <1>1, <1>2 DEF AddFileEntry, Check, Usable
<1>3. ASSUME NEW meta \in Metas, state # <<>>
      PROVE  LET start == StartFile(n, meta) IN
             /\ Extends(ArchiveWriter, start) /\ IsWriter(ArchiveWriter)
             /\ NameAdded(archive, start.out)
  BY <1>1, <1>3, StartFileOK, StartFileNames, TopOK
<1>4. ASSUME NEW meta \in Metas, NEW len \in TargetLens,
             AddSymlink(n, meta, len)
      PROVE  /\ \E full : WritesEntry(n, full)
             /\ state # <<>> /\ ~file.open
             /\ file' = file /\ result' = result
  <2>1. ItemOK(Symlink(len)) /\ Symlink(len).htype = "SYMLINK"
    BY EncoderAssumption, SizedItemsOK DEF Symlink
  <2> DEFINE full == SeqWrite(StartFile(n, meta), Symlink(len))
  <2>2. /\ EntryAdded(n, full) /\ state # <<>> /\ ~file.open
        /\ file' = file /\ result' = result
    BY <1>2, <1>4 DEF AddSymlink
  <2>3. WritesEntry(n, full)
    BY <1>3, <2>1, <2>2, OneItemMore DEF WritesEntry
  <2> QED BY <2>2, <2>3
<1>5. ASSUME NEW meta \in Metas, AddDevice(n, meta)
      PROVE  /\ \E full : WritesEntry(n, full)
             /\ state # <<>> /\ ~file.open
             /\ file' = file /\ result' = result
  <2>1. ItemOK(Device) /\ Device.htype = "DEVICE"
    BY FixedItemsOK DEF Device
  <2> DEFINE full == SeqWrite(StartFile(n, meta), Device)
  <2>2. /\ EntryAdded(n, full) /\ state # <<>> /\ ~file.open
        /\ file' = file /\ result' = result
    BY <1>2, <1>5 DEF AddDevice
  <2>3. WritesEntry(n, full)
    BY <1>3, <2>1, <2>2, OneItemMore DEF WritesEntry
  <2> QED BY <2>2, <2>3
<1>6. ASSUME NEW meta \in Metas, AddFifo(n, meta) \/ AddSocket(n, meta)
      PROVE  /\ \E full : WritesEntry(n, full)
             /\ state # <<>> /\ ~file.open
             /\ file' = file /\ result' = result
  <2>1. /\ EntryAdded(n, StartFile(n, meta)) /\ state # <<>> /\ ~file.open
        /\ file' = file /\ result' = result
    BY <1>2, <1>6 DEF AddFifo, AddSocket
  <2>2. WritesEntry(n, StartFile(n, meta))
    BY <1>3, <2>1 DEF WritesEntry
  <2> QED BY <2>1, <2>2
<1>7. ASSUME NEW meta \in Metas, NEW ref \in KnownPayloads \cup NextPayloads,
             AddPayloadRef(n, meta, ref)
      PROVE  /\ \E full : WritesEntry(n, full)
             /\ state # <<>> /\ ~file.open
             /\ file' = file /\ result' = result
  <2> DEFINE item == PayloadRef(ref.offset, ref.content)
             full == SeqWrite(StartFile(n, meta), item)
  <2>1. /\ EntryAdded(n, full) /\ state # <<>> /\ ~file.open
        /\ file' = file /\ result' = result
    BY <1>1, <1>7 DEF AddPayloadRef, Check, Usable
  <2>2. ItemOK(item) /\ item.htype = "PAYLOAD_REF"
    BY <1>7, RefIsNext DEF PayloadRef
  <2>3. WritesEntry(n, full)
    BY <1>3, <2>1, <2>2, OneItemMore DEF WritesEntry
  <2> QED BY <2>1, <2>3
<1>8. ASSUME NEW len \in TargetLens, NEW target \in links,
             AddHardlink(n, len, target)
      PROVE  /\ \E full : WritesEntry(n, full)
             /\ state # <<>> /\ ~file.open
             /\ file' = file /\ result' = result
  <2> DEFINE named == SeqWrite(ArchiveWriter, Filename(n))
             item == Hardlink(Top.write_position - target, target, len)
             full == SeqWrite(named, item)
  <2>1. /\ EntryAdded(n, full) /\ state # <<>> /\ ~file.open
        /\ file' = file /\ result' = result
        /\ Top.write_position > target
    BY <1>2, <1>8 DEF AddHardlink
  <2>2. target \in Nat /\ len \in Nat /\ Top.write_position \in Nat
    BY <1>1, <2>1, TopOK, EncoderAssumption DEF IInv, TypeOK
  <2>3. ItemOK(item) /\ item.htype = "HARDLINK"
    <3>1. Top.write_position - target \in Nat
      BY <2>1, <2>2
    <3> QED BY <2>2, <3>1, SizedItemsOK DEF Hardlink
  <2>4. Extends(ArchiveWriter, named) /\ IsWriter(ArchiveWriter)
    BY <1>1, <2>1, TopOK, FilenameOK, SeqWriteExtends DEF Extends
  <2>5. NameAdded(archive, named.out)
    BY NameIsWritten, WriterOut DEF ArchiveWriter
  <2> HIDE DEF named, item
  <2>6. WritesEntry(n, full)
    BY <2>1, <2>3, <2>4, <2>5, OneItemMore DEF WritesEntry
  <2> QED BY <2>1, <2>6
<1> QED BY <1>4, <1>5, <1>6, <1>7, <1>8 DEF OtherEntryCalls

LEMMA OtherEntriesList ==
  ASSUME OInv, IInv', faults = {}, faults' = {}, ListedOnce,
         NEW n \in Names, OtherEntryCalls(n)
  PROVE  ListedOnce'
<1>1. /\ state # <<>> /\ file' = file
      /\ \E full : WritesEntry(n, full)
  BY OtherCallsWrite
<1> QED BY <1>1, EntryLists DEF WritesEntry

LEMMA CreateDirectoryLists ==
  ASSUME OInv, IInv', faults = {}, faults' = {}, ListedOnce,
         NEW n \in Names, NEW meta \in Metas, CreateDirectory(n, meta)
  PROVE  ListedOnce'
<1>1. /\ state # <<>> /\ IInv /\ file' = file
      /\ ~CallFails(StartFile(n, meta))
  BY FaultsStay DEF CreateDirectory, CallFails, Check, Usable, OInv
<1>2. /\ Depth \in Nat \ {0} /\ Depth' = Depth + 1
      /\ archive' = StartFile(n, meta).out
      /\ Top'.items = <<>> /\ Top'.file_offset = Top.write_position
      /\ \A d \in 1..Depth - 1 : state'[d] = state[d]
      /\ state'[Depth].items = Top.items
      /\ state'[Depth].file_offset = Top.file_offset
  BY <1>1, DirectoryOpens
<1>3. Top.write_position = archive.len
  BY <1>1, TopLeads
<1>4. NameAdded(archive, archive')
  BY <1>2, StartFileNames
<1>5. \A d \in 1..Depth : Like(state[d], state'[d])
  <2> SUFFICES ASSUME NEW d \in 1..Depth PROVE Like(state[d], state'[d])
    OBVIOUS
  <2>1. d \in 1..Depth - 1 \/ d = Depth
    BY <1>2
  <2> QED BY <1>2, <2>1 DEF Like, Top
<1>6. Pushes(state, state', archive.len)
  BY <1>2, <1>3, <1>5 DEF Pushes, Depth, Top
<1>7. SameFile(file, file')
  BY <1>1 DEF SameFile
<1>8. MakesPlace(state, file, archive, state', file', archive', archive.len)
  BY <1>4, <1>6, <1>7, DirMakesPlace DEF NameAdded
<1> QED BY <1>4, <1>8, NameIsKept

(* The order in which a table has the items of a directory.                 *)
LEMMA TableIsOrdered ==
  ASSUME OInv, "finish" \notin faults, state # <<>>,
         NEW p \in SortedOrders(Top.items)
  PROVE  \E order :
           Tabulates(Top.items, order, archive,
                     [at |-> archive.len, item |-> GoodbyeTable(Top, p)])
<1> DEFINE items == Top.items
           k == Len(items)
           order == [i \in 1..k |-> p[Layout[k][i]]]
           rows == GoodbyeRows(Top, p)
           g == [at |-> archive.len, item |-> GoodbyeTable(Top, p)]
<1>1. /\ items \in Seq(GoodbyeItem) /\ k \in Nat /\ k \in 0..MaxItems
      /\ Top.write_position = archive.len /\ archive.len \in Nat
  BY TopLeads, EncoderAssumption
<1>2. /\ p \in [1..k -> 1..k]
      /\ \A i, j \in 1..k : i < j => p[i] # p[j]
  BY DEF SortedOrders
<1>3. \A i, j \in 1..k : p[i] = p[j] => i = j
  BY <1>1, <1>2
<1>4. /\ Layout[k] \in [1..k -> 1..k]
      /\ \A i, j \in 1..k : Layout[k][i] = Layout[k][j] => i = j
  BY <1>1, LayoutAssumption
<1>5. rows = [i \in 1..k |->
                [items[p[Layout[k][i]]] EXCEPT
                   !.offset = Top.write_position - @]]
  BY DEF GoodbyeRows
<1>6. g.at = archive.len /\ g.item.rows = rows
  BY DEF GoodbyeTable, Goodbye
<1> HIDE DEF items, k, rows, g
<1>7. order \in Injection(1..k, 1..k)
  <2>1. order \in [1..k -> 1..k]
    BY <1>2, <1>4
  <2>2. ASSUME NEW i \in 1..k, NEW j \in 1..k, order[i] = order[j]
        PROVE  i = j
    <3>1. Layout[k][i] \in 1..k /\ Layout[k][j] \in 1..k
      BY <1>4
    <3>2. p[Layout[k][i]] = p[Layout[k][j]]
      BY <2>2
    <3>3. Layout[k][i] = Layout[k][j]
      BY <1>3, <3>1, <3>2
    <3> QED BY <1>4, <3>3
  <2> QED BY <2>1, <2>2 DEF Injection, IsInjective
<1>8. Len(rows) = k
  <2>1. rows = [i \in 1..k |-> rows[i]]
    BY <1>5
  <2> QED BY <1>1, <2>1, LenOfFunction
<1>9. ASSUME NEW i \in 1..k
      PROVE  /\ rows[i].offset = archive.len - items[order[i]].offset
             /\ rows[i].size = items[order[i]].size
  <2> DEFINE item == items[p[Layout[k][i]]]
  <2>1. p[Layout[k][i]] \in 1..k /\ order[i] = p[Layout[k][i]]
    BY <1>2, <1>4
  <2>2. item \in GoodbyeItem
    BY <1>1, <2>1 DEF k
  <2>3. rows[i] = [item EXCEPT !.offset = Top.write_position - @]
    BY <1>5
  <2> HIDE DEF item
  <2>4. /\ rows[i].offset = Top.write_position - item.offset
        /\ rows[i].size = item.size
    BY <2>2, <2>3 DEF GoodbyeItem
  <2> QED BY <1>1, <2>1, <2>4 DEF item
<1> HIDE DEF order
<1>10. Tabulates(items, order, archive, g)
  BY <1>1, <1>6, <1>7, <1>8, <1>9 DEF Tabulates, k
<1> QED BY <1>10 DEF items, g

LEMMA FinishLists ==
  ASSUME OInv, IInv', faults = {}, ListedOnce, Finish
  PROVE  ListedOnce'
<1>1. /\ state # <<>> /\ IInv /\ file' = file /\ "finish" \notin faults
      /\ Stream(archive) /\ Stream(archive')
  BY DEF Finish, Usable, OInv, IInv, TypeOK
<1>2. PICK p \in SortedOrders(Top.items) :
        LET w == SeqWrite(ArchiveWriter, GoodbyeTable(Top, p)) IN
        /\ archive' = w.out
        /\ Depth = 1 => state' = <<>>
        /\ Depth # 1 =>
             /\ Depth - 1 \in Nat \ {0}
             /\ Depth' = Depth - 1
             /\ \A d \in 1..Depth - 2 : state'[d] = state[d]
             /\ state[Depth - 1] \in EncoderStates
             /\ DirectoryItem(Top, w.position) \in GoodbyeItem
             /\ state'[Depth - 1] = Top'
             /\ Top'.items = Append(state[Depth - 1].items,
                                    DirectoryItem(Top, w.position))
             /\ Top'.file_offset = state[Depth - 1].file_offset
  BY <1>1, DirectoryCloses
<1> DEFINE w == SeqWrite(ArchiveWriter, GoodbyeTable(Top, p))
           item == DirectoryItem(Top, w.position)
           g == [at |-> archive.len, item |-> GoodbyeTable(Top, p)]
           emptied == [Top EXCEPT !.items = <<>>]
           u == [state EXCEPT ![Depth] = emptied]
<1>3. PICK order : Tabulates(Top.items, order, archive, g)
  BY <1>1, TableIsOrdered
<1>4. /\ Depth \in Nat \ {0} /\ Depth = Len(state)
      /\ Top \in EncoderStates /\ state \in Seq(EncoderStates)
  BY <1>1, TopOK DEF DirOK, IInv, TypeOK
<1>5. /\ emptied \in EncoderStates /\ emptied.items = <<>>
      /\ emptied.file_offset = Top.file_offset
  <2>1. <<>> \in Seq(GoodbyeItem)
    OBVIOUS
  <2> QED BY <1>4, <2>1 DEF EncoderStates
<1> HIDE DEF emptied
<1>6. /\ Len(u) = Depth /\ u[Depth] = emptied
      /\ \A d \in 1..Depth - 1 : u[d] = state[d]
  BY <1>4, <1>5
<1> HIDE DEF u
<1>7. Empties(state, u)
  BY <1>4, <1>5, <1>6 DEF Empties, Like, Top
<1>8. archive'.cells = archive.cells \cup {g} /\ g.item.htype = "GOODBYE"
  BY <1>2, SeqWriteCells DEF ArchiveWriter, GoodbyeTable, Goodbye
<1>9. /\ NamesIn(archive') = NamesIn(archive)
      /\ TablesIn(archive') = TablesIn(archive) \cup {g}
  <2> HIDE DEF g
  <2> QED BY <1>8 DEF NamesIn, TablesIn, CellsOf
<1>10. item.offset = Top.file_offset
  BY DEF DirectoryItem
<1> HIDE DEF g
<1>11. Once(u, file, archive')
  BY <1>1, <1>3, <1>4, <1>7, <1>9, ItemsAreTabulated DEF ListedOnce, Top
<1>12. CASE Depth = 1
  <2>1. state' = <<>> /\ Len(state') = 0
    BY <1>2, <1>12
  <2>2. ASSUME NEW q \in Places, NEW x \in Nat
        PROVE  ~ItemKeeps(u, q, x) /\ ~DirKeeps(u, q, x)
    <3>1. Len(u[1].items) = 0 /\ Len(u) = 1
      BY <1>5, <1>6, <1>12
    <3>2. 1..Len(u[1].items) = {} /\ 1..Len(u) = {1} /\ 2..Len(u) = {}
      BY <3>1
    <3> QED BY <3>2 DEF ItemKeeps, DirKeeps
  <2>3. ASSUME NEW q \in Places, NEW x \in Nat
        PROVE  ~ItemKeeps(state', q, x) /\ ~DirKeeps(state', q, x)
    <3>1. 1..Len(state') = {} /\ 2..Len(state') = {}
      BY <2>1
    <3> QED BY <3>1 DEF ItemKeeps, DirKeeps
  <2>4. SameKept(u, file, archive', state', file', archive')
    BY <1>1, <2>2, <2>3 DEF SameKept, Keeps
  <2> QED BY <1>1, <1>11, <2>4, SameIsOnce DEF ListedOnce
<1>13. CASE Depth # 1
  <2>1. /\ Depth - 1 \in Nat \ {0} /\ Len(state') = Depth - 1
        /\ \A d \in 1..Depth - 2 : state'[d] = state[d]
        /\ state[Depth - 1].items \in Seq(GoodbyeItem)
        /\ item \in GoodbyeItem
        /\ state'[Depth - 1].items = Append(state[Depth - 1].items, item)
        /\ state'[Depth - 1].file_offset = state[Depth - 1].file_offset
    BY <1>2, <1>13 DEF EncoderStates, Depth
  <2> HIDE DEF item, w
  <2>2. /\ u[Depth - 1] = state[Depth - 1]
        /\ \A d \in 1..Depth - 2 : u[d] = state[d]
    BY <1>6, <2>1
  <2>3. Pops(u, state', item)
    BY <1>5, <1>6, <1>10, <2>1, <2>2 DEF Pops, Like
  <2>4. Once(state', file, archive')
    BY <1>1, <1>11, <2>3, DirIsListed
  <2> QED BY <1>1, <2>4 DEF ListedOnce
<1> QED BY <1>12, <1>13

(* Before the first entry there is nothing to list.                         *)
LEMMA NothingIsOnce ==
  ASSUME NEW s, NEW f, NEW a, NamesIn(a) = {}, TablesIn(a) = {}, ~f.open,
         \/ Len(s) = 0
         \/ Len(s) = 1 /\ s[1].items = <<>>
  PROVE  Once(s, f, a)
<1>1. 2..Len(s) = {} /\ (1..Len(s) = {} \/ 1..Len(s) = {1})
  OBVIOUS
<1>2. Len(s) = 1 => 1..Len(s[1].items) = {}
  OBVIOUS
<1>3. 1..Len(s) = {1} => Len(s) = 1
  OBVIOUS
<1>4. ASSUME NEW p \in Places, NEW x \in Nat
      PROVE  ~Keeps(s, f, TablesIn(a), p, x)
  BY <1>1, <1>2, <1>3
     DEF Keeps, ItemKeeps, DirKeeps, FileKeeps, RowKeeps
<1> QED BY <1>4 DEF Once

LEMMA NewLists ==
  ASSUME IInv, NEW meta \in Metas, NEW prelude \in Preludes,
         New(meta, prelude)
  PROVE  ListedOnce'
<1>1. Bare(archive') /\ Depth' = 1 /\ Top'.items = <<>>
  BY NewIsBare
<1>2. NamesIn(archive') = {} /\ TablesIn(archive') = {}
  BY <1>1 DEF Bare, NamesIn, TablesIn, CellsOf
<1>3. file' = file /\ ~file.open
  BY DEF New, IInv, TypeOK
<1>4. Len(state') = 1 /\ state'[1].items = <<>>
  BY <1>1 DEF Depth, Top
<1> QED BY <1>2, <1>3, <1>4, NothingIsOnce DEF ListedOnce

LEMMA NextLists ==
  ASSUME OInv, IInv', faults' = {}, ListedOnce, [Next]_vars
  PROVE  ListedOnce'
<1>1. faults = {} /\ IInv /\ \A kind : ~Fail(kind)
  BY FaultsGrow, FaultsStay DEF OInv
<1>2. ASSUME NEW meta \in Metas, NEW prelude \in Preludes, New(meta, prelude)
      PROVE  ListedOnce'
  BY <1>1, <1>2, NewLists
<1>3. \A kind : MetasOf(kind) \subseteq Metas
  BY DEF MetasOf
<1>4. CASE FileCalls
  <2>1. ASSUME NEW n \in Names, NEW meta \in Metas, NEW size \in FileSizes
        PROVE  ~CreateFileFails(n, meta, size)
    BY <1>1 DEF CreateFileFails
  <2> QED BY <1>1, <1>3, <1>4, <2>1, CreateFileLists, AddFileLists
          DEF FileCalls
<1>5. CASE WriteCalls
  <2>1. ASSUME NEW k \in WriteSizes PROVE ~WriteAllFails(k)
    BY <1>1 DEF WriteAllFails
  <2> QED BY <1>5, <2>1, WriteLists, DropFileLists DEF WriteCalls
<1>12. ASSUME NEW n \in Names, OtherEntryCalls(n)
       PROVE  ListedOnce'
  BY <1>1, <1>12, OtherEntriesList
<1>6. CASE RefCalls
  BY <1>1, <1>3, <1>6, <1>12, AdvanceLists DEF RefCalls, OtherEntryCalls
<1>7. CASE EntryCalls
  BY <1>1, <1>3, <1>7, <1>12, CreateDirectoryLists
     DEF EntryCalls, OtherEntryCalls
<1>8. CASE Finish
  BY <1>1, <1>8, FinishLists
<1>9. CASE FinishFails
  BY <1>1, <1>9 DEF FinishFails
<1>10. CASE UNCHANGED <<archive, state, file>>
  BY <1>10 DEF ListedOnce
<1>11. CASE Close
  BY <1>10, <1>11 DEF Close
<1> QED BY <1>2, <1>4, <1>5, <1>6, <1>7, <1>8, <1>9, <1>10, <1>11
        DEF Next, Terminated, vars

-----------------------------------------------------------------------------
(***************************************************************************)
(* The theorem.                                                            *)
(***************************************************************************)

(* Owners names the directory of an item and leaves out which item it is.    *)
OwnerAt(p) == IF p[1] = "item" THEN <<"item", p[2], 0>> ELSE p

LEMMA OwnersArePlaces ==
  ASSUME TypeOK, NEW x \in Nat
  PROVE  /\ \A p \in Places :
              Keeps(state, file, TablesIn(archive), p, x) =>
                OwnerAt(p) \in Owners(x)
         /\ \A o \in Owners(x) : \E p \in Places :
              /\ Keeps(state, file, TablesIn(archive), p, x)
              /\ o = OwnerAt(p)
<1> DEFINE items == {<<"item", d, i>> : d \in {y \in 1..Depth :
                        \E j \in 1..Len(state[y].items) :
                          state[y].items[j].offset = x},
                      i \in {0}}
           dirs == {<<"dir", d, 0>> : d \in {y \in 2..Depth :
                                     state[y].file_offset = x}}
           files == IF file.open /\ file.item.offset = x
                      THEN {<<"file", 0, 0>>} ELSE {}
           rows == UNION {{<<"row", g.at, i>> :
                            i \in {j \in 1..Len(g.item.rows) :
                                     g.item.rows[j].offset = g.at - x}} :
                          g \in CellsOf(archive, "GOODBYE")}
<1>1. Owners(x) = items \cup dirs \cup files \cup rows
  BY DEF Owners
<1>2. /\ Depth = Len(state) /\ Depth \in Nat
      /\ \A g \in CellsOf(archive, "GOODBYE") : g.at \in Nat
  BY DEF TypeOK, Depth, CellsOf, Stream
<1>3. ASSUME NEW p \in Places, ItemKeeps(state, p, x)
      PROVE  OwnerAt(p) \in items
  BY <1>2, <1>3 DEF ItemKeeps, OwnerAt
<1>4. ASSUME NEW p \in Places, DirKeeps(state, p, x)
      PROVE  OwnerAt(p) \in dirs
  <2>1. p = <<"dir", p[2], 0>> /\ OwnerAt(p) = p
    BY <1>4 DEF DirKeeps, Places, OwnerAt
  <2> QED BY <1>2, <1>4, <2>1 DEF DirKeeps
<1>5. ASSUME NEW p \in Places, FileKeeps(file, p, x)
      PROVE  OwnerAt(p) \in files
  <2>1. p = <<"file", 0, 0>> /\ OwnerAt(p) = p
    BY <1>5 DEF FileKeeps, Places, OwnerAt
  <2> QED BY <1>5, <2>1 DEF FileKeeps
<1>6. ASSUME NEW p \in Places, RowKeeps(TablesIn(archive), p, x)
      PROVE  OwnerAt(p) \in rows
  <2>1. PICK g \in CellsOf(archive, "GOODBYE") :
          /\ g.at = p[2] /\ p[3] \in 1..Len(g.item.rows)
          /\ g.item.rows[p[3]].offset = g.at - x
    BY <1>6 DEF RowKeeps, TablesIn
  <2>2. p = <<"row", g.at, p[3]>> /\ OwnerAt(p) = p
    BY <1>6, <2>1 DEF RowKeeps, Places, OwnerAt
  <2> QED BY <2>1, <2>2
<1>7. ASSUME NEW o \in items
      PROVE  \E p \in Places : ItemKeeps(state, p, x) /\ o = OwnerAt(p)
  <2>1. PICK d \in 1..Depth : \E j \in 1..Len(state[d].items) :
          state[d].items[j].offset = x /\ o = <<"item", d, 0>>
    BY <1>7
  <2>2. PICK j \in 1..Len(state[d].items) :
          state[d].items[j].offset = x /\ o = <<"item", d, 0>>
    BY <2>1
  <2> DEFINE p == <<"item", d, j>>
  <2>3. d \in Nat /\ j \in Nat
    BY <1>2
  <2>4. /\ p \in Places /\ p[1] = "item" /\ p[2] = d /\ p[3] = j
    BY <2>3 DEF Places
  <2> HIDE DEF p
  <2>5. ItemKeeps(state, p, x) /\ o = OwnerAt(p)
    BY <1>2, <2>2, <2>4 DEF ItemKeeps, OwnerAt
  <2> QED BY <2>4, <2>5
<1>8. ASSUME NEW o \in dirs
      PROVE  \E p \in Places : DirKeeps(state, p, x) /\ o = OwnerAt(p)
  <2>1. PICK d \in 2..Depth : state[d].file_offset = x /\ o = <<"dir", d, 0>>
    BY <1>8
  <2>2. d \in Nat
    BY <1>2
  <2>3. o \in Places /\ o[1] = "dir" /\ o[2] = d /\ o[3] = 0
    BY <2>1, <2>2 DEF Places
  <2>4. DirKeeps(state, o, x) /\ o = OwnerAt(o)
    BY <1>2, <2>1, <2>3 DEF DirKeeps, OwnerAt
  <2> QED BY <2>3, <2>4
<1>9. ASSUME NEW o \in files
      PROVE  \E p \in Places : FileKeeps(file, p, x) /\ o = OwnerAt(p)
  <2>1. file.open /\ file.item.offset = x /\ o = <<"file", 0, 0>>
    BY <1>9
  <2>2. /\ o \in Places /\ o[1] = "file" /\ o[2] = 0 /\ o[3] = 0
    BY <2>1 DEF Places
  <2> QED BY <2>1, <2>2 DEF FileKeeps, OwnerAt
<1>10. ASSUME NEW o \in rows
       PROVE  \E p \in Places :
                RowKeeps(TablesIn(archive), p, x) /\ o = OwnerAt(p)
  <2>1. PICK g \in CellsOf(archive, "GOODBYE") :
          \E j \in 1..Len(g.item.rows) :
            g.item.rows[j].offset = g.at - x /\ o = <<"row", g.at, j>>
    BY <1>10
  <2>2. PICK j \in 1..Len(g.item.rows) :
          g.item.rows[j].offset = g.at - x /\ o = <<"row", g.at, j>>
    BY <2>1
  <2>3. g.at \in Nat /\ j \in Nat
    BY <1>2
  <2>4. o \in Places /\ o[1] = "row" /\ o[2] = g.at /\ o[3] = j
    BY <2>2, <2>3 DEF Places
  <2>5. RowKeeps(TablesIn(archive), o, x) /\ o = OwnerAt(o)
    BY <2>2, <2>4 DEF RowKeeps, OwnerAt, TablesIn
  <2> QED BY <2>4, <2>5
<1> HIDE DEF items, dirs, files, rows
<1>11. ASSUME NEW p \in Places, Keeps(state, file, TablesIn(archive), p, x)
       PROVE  OwnerAt(p) \in Owners(x)
  BY <1>1, <1>3, <1>4, <1>5, <1>6, <1>11 DEF Keeps
<1>12. ASSUME NEW o \in Owners(x)
       PROVE  \E p \in Places :
                /\ Keeps(state, file, TablesIn(archive), p, x)
                /\ o = OwnerAt(p)
  BY <1>1, <1>7, <1>8, <1>9, <1>10, <1>12 DEF Keeps
<1> QED BY <1>11, <1>12

(* However entries are added, dropped, nested and finished, as long as no   *)
(* call failed: each FILENAME in the archive is accounted for in exactly one*)
(* place, and once all directories are finished that is one row of one      *)
(* table.                                                                   *)
THEOREM NamesAreListedOnce == Spec => []EveryNameListedOnce
<1>1. Init => LInv
  <2> SUFFICES ASSUME Init PROVE LInv
    OBVIOUS
  <2>1. /\ archive.cells = {} /\ state = <<>> /\ file = NoFile
    BY DEF Init, EmptyStream
  <2>2. NamesIn(archive) = {} /\ TablesIn(archive) = {}
    BY <2>1 DEF NamesIn, TablesIn, CellsOf
  <2>3. ~file.open /\ Len(state) = 0
    BY <2>1 DEF NoFile
  <2> QED BY <2>2, <2>3, InitLeads, NothingIsOnce DEF LInv, ListedOnce
<1>2. LInv /\ [Next]_vars => LInv'
  <2> SUFFICES ASSUME LInv, [Next]_vars
               PROVE  LInv'
    OBVIOUS
  <2>1. OInv /\ OInv' /\ IInv'
    BY NextKeeps, NextLeads DEF LInv, OInv
  <2>2. ASSUME faults' = {}
        PROVE  ListedOnce'
    <3>1. ListedOnce
      BY <2>2, FaultsGrow DEF LInv
    <3> QED BY <2>1, <2>2, <3>1, NextLists
  <2> QED BY <2>1, <2>2 DEF LInv
<1>3. LInv => EveryNameListedOnce
  <2> SUFFICES ASSUME LInv, faults = {},
                      NEW c \in CellsOf(archive, "FILENAME")
               PROVE  Cardinality(Owners(c.at)) = 1
    BY DEF EveryNameListedOnce
  <2>1. TypeOK /\ ListedOnce /\ c.at \in Nat
    BY DEF LInv, OInv, IInv, TypeOK, CellsOf, Stream
  <2>2. PICK p \in Places : Keeps(state, file, TablesIn(archive), p, c.at)
    BY <2>1 DEF ListedOnce, Once, NamesIn
  <2>3. OwnerAt(p) \in Owners(c.at)
    BY <2>1, <2>2, OwnersArePlaces
  <2>4. ASSUME NEW o \in Owners(c.at)
        PROVE  o = OwnerAt(p)
    <3>1. PICK q \in Places :
            /\ Keeps(state, file, TablesIn(archive), q, c.at)
            /\ o = OwnerAt(q)
      BY <2>1, OwnersArePlaces
    <3>2. q = p
      BY <2>1, <2>2, <3>1 DEF ListedOnce, Once
    <3> QED BY <3>1, <3>2
  <2>5. Owners(c.at) = {OwnerAt(p)}
    BY <2>3, <2>4
  <2> QED BY <2>5, FS_Singleton
<1> QED BY <1>1, <1>2, <1>3, PTL DEF Spec
=============================================================================

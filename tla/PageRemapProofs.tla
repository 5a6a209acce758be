---------------------------- MODULE PageRemapProofs ----------------------------
(***************************************************************************)
(* What remap_permissions reaches, for every page size and every routine.  *)
(***************************************************************************)
EXTENDS PageRemap, TLAPS

\* The page and the offset of an address.
LEMMA DivMod ==
    ASSUME NEW a \in Nat
    PROVE  /\ PageOf(a) \in Nat
           /\ a % PageSize \in 0 .. PageSize - 1
           /\ a = (PageSize * PageOf(a)) + (a % PageSize)
<1>1. PageOf(a) \in Nat
  BY PageSizeAssumption, SMT DEF PageOf
<1>2. a % PageSize \in 0 .. PageSize - 1
  BY PageSizeAssumption, SMT
<1>3. a = (PageSize * PageOf(a)) + (a % PageSize)
  BY PageSizeAssumption, SMT DEF PageOf
<1> QED BY <1>1, <1>2, <1>3

\* An address between the ends of page q lies on page q.
LEMMA PageUnique ==
    ASSUME NEW a \in Nat, NEW q \in Nat,
           PageSize * q <= a, a < (PageSize * q) + PageSize
    PROVE  PageOf(a) = q
BY PageSizeAssumption, SMT DEF PageOf

\* Higher addresses are on the same page or on later ones.
LEMMA PageMonotone ==
    ASSUME NEW a \in Nat, NEW b \in Nat, a <= b
    PROVE  PageOf(a) <= PageOf(b)
BY PageSizeAssumption, SMT DEF PageOf

\* One remap reaches exactly the pages from that of base to that of base + len.
LEMMA RemapSpan ==
    ASSUME NEW base \in Nat, NEW len \in Nat
    PROVE  RemapPages(base, len) = PageOf(base) .. PageOf(base + len)
<1> DEFINE p == PageOf(base)
           q == PageOf(base + len)
<1>1. p \in Nat /\ q \in Nat /\ PageSize \in Nat /\ PageSize >= 1
  <2>1. base + len \in Nat
    OBVIOUS
  <2>2. p \in Nat /\ q \in Nat
    BY <2>1, DivMod
  <2> QED BY <2>2, PageSizeAssumption
<1>2. PageSize * p \in Nat /\ PageSize * q \in Nat
  BY <1>1
<1>3. RemapBase(base) = PageSize * p
  <2>1. base = (PageSize * p) + (base % PageSize) /\ base % PageSize \in Int
    BY DivMod
  <2> QED BY <1>2, <2>1 DEF RemapBase, Align
<1>4. Align(base + len) = PageSize * q
  <2>1. /\ base + len = (PageSize * q) + ((base + len) % PageSize)
        /\ (base + len) % PageSize \in Int
    BY DivMod
  <2> QED BY <1>2, <2>1 DEF Align
<1>5. PageOf(RemapBase(base)) = p
  BY <1>1, <1>2, <1>3, PageUnique
<1>6. RemapBase(base) + RemapLength(base, len) - 1 = (PageSize * q) + PageSize - 1
  BY <1>1, <1>2, <1>3, <1>4 DEF RemapLength, RemapBase
<1>7. PageOf((PageSize * q) + PageSize - 1) = q
  BY <1>1, <1>2, PageUnique
<1> QED BY <1>5, <1>6, <1>7 DEF RemapPages

\* image_load makes the whole body writable before it blanks it.
THEOREM LoadCoversEverywhere ==
    ASSUME NEW base \in Nat, NEW len \in Nat
    PROVE  LoadRemapCovers(base, len)
<1>1. SUFFICES ASSUME SizeCp(len) >= 1
               PROVE  BodyPages(base, SizeCp(len)) \subseteq RemapPages(base, len)
  BY DEF LoadRemapCovers
<1>2. /\ BodyFirst(base) \in Nat
      /\ BodyLast(base, SizeCp(len)) = base + len - 1
      /\ base + len - 1 \in Nat
  BY <1>1 DEF BodyFirst, BodyLast, SizeCp, MAGIC_OFFSET
<1>3. PageOf(base) <= PageOf(BodyFirst(base))
  BY <1>2, PageMonotone DEF BodyFirst, MAGIC_OFFSET
<1>4. PageOf(base + len - 1) <= PageOf(base + len)
  BY <1>2, PageMonotone
<1>5. /\ PageOf(base) \in Nat /\ PageOf(BodyFirst(base)) \in Nat
      /\ PageOf(base + len - 1) \in Nat /\ PageOf(base + len) \in Nat
  BY <1>2, DivMod
<1>6. RemapPages(base, len) = PageOf(base) .. PageOf(base + len)
  BY RemapSpan
<1>7. BodyPages(base, SizeCp(len)) = PageOf(BodyFirst(base)) .. PageOf(base + len - 1)
  BY <1>2 DEF BodyPages
<1> QED BY <1>3, <1>4, <1>5, <1>6, <1>7

\* MAGIC_OFFSET - 1 bytes further on is another page exactly where they do not
\* fit behind the offset.
LEMMA NextPage ==
    ASSUME NEW x \in Nat
    PROVE  PageOf(x + MAGIC_OFFSET - 1) > PageOf(x)
              <=> (x % PageSize) + MAGIC_OFFSET > PageSize
<1>1. PICK P \in Nat : P = PageSize /\ P >= 1
  BY PageSizeAssumption
<1>2. PICK q \in Nat : q = PageOf(x)
  BY DivMod
<1>3. PICK m \in 0 .. P - 1 : m = x % PageSize
  BY <1>1, DivMod
<1>4. PICK w \in Nat : w = P * q
  BY <1>1
<1>5. x = w + m
  BY <1>1, <1>2, <1>3, <1>4, DivMod
<1>6. x + MAGIC_OFFSET - 1 = x + 13 /\ x + 13 \in Nat
  BY DEF MAGIC_OFFSET
<1>7. CASE m + 14 <= P
  <2>1. w <= x + 13 /\ x + 13 < w + P
    BY <1>3, <1>5, <1>7
  <2>2. PageOf(x + 13) = q
    BY <1>1, <1>4, <1>6, <2>1, PageUnique
  <2> QED BY <1>1, <1>2, <1>3, <1>6, <1>7, <2>2 DEF MAGIC_OFFSET
<1>8. CASE ~(m + 14 <= P)
  <2>1. P * (q + 1) = w + P /\ w + P \in Nat /\ w + P <= x + 13
    BY <1>3, <1>4, <1>5, <1>8
  <2>2. PageOf(w + P) = q + 1
    BY <1>1, <2>1, PageUnique
  <2>3. PageOf(w + P) <= PageOf(x + 13)
    BY <1>6, <2>1, PageMonotone
  <2>4. PageOf(x + 13) \in Nat
    BY <1>6, DivMod
  <2>5. PageOf(x + 13) > PageOf(x)
    BY <1>2, <2>2, <2>3, <2>4
  <2> QED BY <1>1, <1>3, <1>6, <1>8, <2>5 DEF MAGIC_OFFSET
<1> QED BY <1>7, <1>8

\* probe_copy_aux and probe_blank_aux make the whole body writable except where
\* addr + size_cp is one of the last MAGIC_OFFSET - 1 bytes of a page.
THEOREM AuxCoversEverywhere ==
    ASSUME NEW base \in Nat, NEW size_cp \in Nat
    PROVE  AuxRemapCovers(base, size_cp)
<1>1. SUFFICES ASSUME size_cp >= 1
               PROVE  BodyPages(base, size_cp) \subseteq RemapPages(base, size_cp)
                         <=> ~TailCrosses(base, size_cp)
  BY DEF AuxRemapCovers
<1> DEFINE bf == BodyFirst(base)
           bl == BodyLast(base, size_cp)
<1>2. /\ bf \in Nat /\ bl \in Nat /\ base <= bf /\ bf <= bl
      /\ bl = base + size_cp + MAGIC_OFFSET - 1
  BY <1>1 DEF BodyFirst, BodyLast, MAGIC_OFFSET
<1>3. /\ PageOf(base) \in Nat /\ PageOf(bf) \in Nat /\ PageOf(bl) \in Nat
      /\ PageOf(base + size_cp) \in Nat
  BY <1>2, DivMod
<1>4. PageOf(base) <= PageOf(bf) /\ PageOf(bf) <= PageOf(bl)
  BY <1>2, PageMonotone
<1>5. RemapPages(base, size_cp) = PageOf(base) .. PageOf(base + size_cp)
  BY RemapSpan
<1>6. BodyPages(base, size_cp) = PageOf(bf) .. PageOf(bl)
  BY DEF BodyPages
<1>7. TailCrosses(base, size_cp) <=> PageOf(bl) > PageOf(base + size_cp)
  BY <1>2, NextPage DEF TailCrosses
<1> HIDE DEF bf, bl
<1>8. CASE PageOf(bl) > PageOf(base + size_cp)
  <2>1. PageOf(bl) \in PageOf(bf) .. PageOf(bl)
    BY <1>3, <1>4
  <2>2. PageOf(bl) \notin PageOf(base) .. PageOf(base + size_cp)
    BY <1>3, <1>8
  <2> QED BY <2>1, <2>2, <1>5, <1>6, <1>7, <1>8
<1>9. CASE ~(PageOf(bl) > PageOf(base + size_cp))
  BY <1>3, <1>4, <1>5, <1>6, <1>7, <1>9
<1> QED BY <1>8, <1>9

\* A remap reaches the pages of base .. base + len: its bytes, and the one behind.
LEMMA RemapExact ==
    ASSUME NEW base \in Nat, NEW len \in Nat
    PROVE  RemapPages(base, len) = {PageOf(a) : a \in base .. base + len}
<1> DEFINE p == PageOf(base)
           q == PageOf(base + len)
<1>1. base + len \in Nat /\ \A a \in base .. base + len : a \in Nat
  OBVIOUS
<1>2. p \in Nat /\ q \in Nat /\ \A a \in base .. base + len : PageOf(a) \in Nat
  BY <1>1, DivMod
<1>3. \A a \in base .. base + len : p <= PageOf(a) /\ PageOf(a) <= q
  <2> SUFFICES ASSUME NEW a \in base .. base + len PROVE p <= PageOf(a) /\ PageOf(a) <= q
    OBVIOUS
  <2>1. a \in Nat /\ base <= a /\ a <= base + len
    OBVIOUS
  <2> QED BY <1>1, <2>1, PageMonotone
<1>4. ASSUME NEW k \in p .. q
      PROVE  \E a \in base .. base + len : PageOf(a) = k
  <2>1. CASE k = p
    <3>1. base \in base .. base + len
      OBVIOUS
    <3> QED BY <2>1, <3>1
  <2>2. CASE k # p
    <3>1. PICK n \in Nat : n = p
      BY <1>2
    <3>2. PICK m \in Nat : m = q
      BY <1>2
    <3>3. k \in Nat /\ n + 1 <= k /\ k <= m
      BY <2>2, <3>1, <3>2
    <3>4. PICK z \in Nat : z = PageSize /\ z >= 1
      BY PageSizeAssumption
    <3>5. /\ base < (z * n) + z
          /\ z * m <= base + len
      <4>1. /\ base = (z * n) + (base % z) /\ base % z \in 0 .. z - 1
            /\ base + len = (z * m) + ((base + len) % z) /\ (base + len) % z \in 0 .. z - 1
        BY <1>1, <3>1, <3>2, <3>4, DivMod
      <4>2. z * n \in Nat /\ z * m \in Nat
        BY <3>4
      <4> QED BY <4>1, <4>2
    <3>6. z * k \in Nat /\ (z * n) + z <= z * k /\ z * k <= z * m
      <4>1. \A x \in Nat, y \in Nat : x <= y => z * x <= z * y /\ z * (x + 1) = (z * x) + z
        BY <3>4, SMT
      <4>2. z * k \in Nat
        BY <3>3, <3>4
      <4>3. n + 1 \in Nat
        OBVIOUS
      <4>4. n <= k
        BY <3>3
      <4> QED BY <3>3, <4>1, <4>2, <4>3, <4>4
    <3>7. z * k \in base .. base + len
      <4>1. z * n \in Nat /\ z * m \in Nat
        BY <3>4
      <4> QED BY <3>5, <3>6, <4>1
    <3>8. PageOf(z * k) = k
      <4>1. PageSize * k <= z * k /\ z * k < (PageSize * k) + PageSize
        BY <3>4, <3>6
      <4> QED BY <3>3, <3>6, <4>1, PageUnique
    <3> QED BY <3>7, <3>8
  <2> QED BY <2>1, <2>2
<1>5. RemapPages(base, len) = p .. q
  BY RemapSpan
<1> HIDE DEF p, q
<1>6. \A a \in base .. base + len : PageOf(a) \in p .. q
  BY <1>2, <1>3
<1> QED BY <1>4, <1>5, <1>6
================================================================================

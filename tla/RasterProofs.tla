---------------------------- MODULE RasterProofs ----------------------------
(***************************************************************************)
(* Proofs about how a picture becomes a file: what the dithering computes, *)
(* and what a reader of the file finds in it, for pictures of any size.    *)
(***************************************************************************)
EXTENDS Panel, FiniteSetTheorems, WellFoundedInduction, TLAPS

IsPicture(p) ==
    p.width \in Nat \ {0} /\ p.height \in Nat \ {0} /\ p \in Like(p)

-----------------------------------------------------------------------------
(* Induction, in a form whose hypothesis is a set. *)
LEMMA SetInduction ==
    ASSUME NEW T, \A n \in Nat : (\A m \in Nat : m < n => m \in T) => n \in T
    PROVE  Nat \subseteq T
<1> DEFINE Missing == Nat \ T
<1>1. SUFFICES ASSUME Missing # {} PROVE FALSE
    OBVIOUS
<1>2. PICK n \in Missing : \A m \in Missing : <<m, n>> \notin OpToRel(<, Nat)
    BY <1>1, NatLessThanWellFounded, WFMin
<1>3. \A m \in Nat : m < n => m \in T
    BY <1>2 DEF OpToRel
<1> QED BY <1>2, <1>3

(* What a recursive function on 0..N needs to exist: N steps of A. *)
Steps(A, N) == [0..(N - 1) -> [A -> A]]

IsRun(f, A, x, N, step) ==
    /\ f \in [0..N -> A] /\ f[0] = x
    /\ \A k \in 1..N : f[k] = step[k - 1][f[k - 1]]

LEMMA Iterates ==
    ASSUME NEW A, NEW x \in A, NEW N \in Nat, NEW step \in Steps(A, N)
    PROVE  \E f : IsRun(f, A, x, N, step)
<1> DEFINE Upto(n) == {f \in [0..n -> A] :
                          f[0] = x /\ \A k \in 1..n : f[k] = step[k - 1][f[k - 1]]}
           T == {n \in Nat : n <= N => Upto(n) # {}}
<1>0. step \in [0..(N - 1) -> [A -> A]]
    BY DEF Steps
<1>1. ASSUME NEW n \in Nat, \A m \in Nat : m < n => m \in T
      PROVE  n \in T
    <2>1. CASE n = 0
        <3> DEFINE g == [k \in 0..0 |-> x]
        <3>1. g \in [0..0 -> A] /\ g[0] = x
            OBVIOUS
        <3>2. 1..0 = {}
            OBVIOUS
        <3> HIDE DEF g
        <3>3. g \in Upto(0)
            BY <3>1, <3>2
        <3> QED BY <2>1, <3>3
    <2>2. CASE n > 0 /\ n <= N
        <3>1. n - 1 \in Nat /\ n - 1 <= N /\ Upto(n - 1) # {}
            <4>1. n - 1 \in Nat /\ n - 1 < n /\ n - 1 <= N
                BY <2>2
            <4>2. n - 1 \in T
                <5> HIDE DEF T
                <5> QED BY <1>1, <4>1
            <4> HIDE DEF Upto
            <4> QED BY <4>1, <4>2
        <3>2. PICK f \in [0..(n - 1) -> A] :
                  f[0] = x /\ \A k \in 1..(n - 1) : f[k] = step[k - 1][f[k - 1]]
            BY <3>1
        <3> DEFINE g == [k \in 0..n |-> IF k < n THEN f[k] ELSE step[n - 1][f[n - 1]]]
        <3>3. step[n - 1] \in [A -> A] /\ f[n - 1] \in A
            BY <1>0, <2>2, <3>1
        <3>4. g \in [0..n -> A]
            <4>1. ASSUME NEW k \in 0..n
                  PROVE  (IF k < n THEN f[k] ELSE step[n - 1][f[n - 1]]) \in A
                <5>1. CASE k < n
                    <6>1. k \in 0..(n - 1)
                        BY <2>2, <5>1
                    <6> QED BY <3>2, <5>1, <6>1
                <5>2. CASE ~(k < n)
                    <6>1. step[n - 1][f[n - 1]] \in A
                        BY <3>3
                    <6> QED BY <5>2, <6>1
                <5> QED BY <5>1, <5>2
            <4> QED BY <4>1
        <3>5. g[0] = x
            BY <2>2, <3>2
        <3>6. \A k \in 1..n : g[k] = step[k - 1][g[k - 1]]
            BY <2>2, <3>2
        <3>7. g \in Upto(n)
            <4> HIDE DEF g
            <4> QED BY <3>4, <3>5, <3>6
        <3> QED BY <2>2, <3>7
    <2>3. CASE n > N
        BY <2>3
    <2> QED BY <2>1, <2>2, <2>3
<1>2. Nat \subseteq T
    <2> HIDE DEF T
    <2> QED BY <1>1, SetInduction
<1>3. PICK f \in Upto(N) : TRUE
    <2>1. N \in T
        <3> HIDE DEF T
        <3> QED BY <1>2
    <2> HIDE DEF Upto
    <2> QED BY <2>1
<1> QED BY <1>3 DEF IsRun

(* A recursive function that follows typed steps is typed. *)
LEMMA RunFrom ==
    ASSUME NEW A, NEW x \in A, NEW N \in Nat, NEW step \in Steps(A, N), NEW g,
           g = [k \in 0..N |-> g[k]], g[0] = x,
           \A k \in 1..N : g[k - 1] \in A => g[k] = step[k - 1][g[k - 1]]
    PROVE  IsRun(g, A, x, N, step)
<1> DEFINE T == {n \in Nat : n <= N => g[n] \in A}
<1>1. ASSUME NEW n \in Nat, \A m \in Nat : m < n => m \in T
      PROVE  n \in T
    <2>1. CASE n = 0
        BY <2>1
    <2>2. CASE n # 0 /\ n <= N
        <3> DEFINE m == n - 1
        <3>1. m \in Nat /\ m < n /\ m <= N /\ m \in 0..(N - 1) /\ n \in 1..N
            BY <2>2
        <3>2. g[m] \in A
            BY <1>1, <3>1
        <3>3. g[n] = step[m][g[m]]
            BY <3>1, <3>2
        <3>4. step[m] \in [A -> A]
            BY <3>1 DEF Steps
        <3> HIDE DEF m
        <3> QED BY <3>2, <3>3, <3>4
    <2>3. CASE ~(n <= N)
        BY <2>3
    <2> QED BY <2>1, <2>2, <2>3
<1>2. Nat \subseteq T
    <2> HIDE DEF T
    <2> QED BY <1>1, SetInduction
<1>3. \A k \in 0..N : g[k] \in A
    BY <1>2
<1>4. g \in [0..N -> A]
    BY <1>3
<1>5. ASSUME NEW k \in 1..N
      PROVE  g[k] = step[k - 1][g[k - 1]]
    <2>1. k - 1 \in 0..N
        OBVIOUS
    <2> QED BY <1>3, <2>1, Zenon
<1> QED BY <1>4, <1>5, Zenon DEF IsRun

-----------------------------------------------------------------------------
(* Where the pixels are. *)
LEMMA Division ==
    ASSUME NEW w \in Nat, w > 0, NEW h \in Nat, h > 0, NEW i \in 0..(w * h - 1)
    PROVE  /\ i % w \in 0..(w - 1)
           /\ i \div w \in 0..(h - 1)
           /\ i = (i \div w) * w + (i % w)
<1> DEFINE x == i % w
           y == i \div w
<1>1. w * h \in Nat
    OBVIOUS
<1>2. i \in Nat /\ i < w * h
    BY <1>1
<1>3. x \in 0..(w - 1) /\ y \in Nat /\ i = y * w + x
    BY <1>2
<1>4. y < h
    <2>1. SUFFICES ASSUME y >= h PROVE FALSE
        BY <1>3
    <2> HIDE DEF x, y
    <2>2. y * w >= h * w
        BY <1>3, <2>1
    <2>3. h * w = w * h
        OBVIOUS
    <2> QED BY <1>1, <1>2, <1>3, <2>2, <2>3
<1> HIDE DEF x, y
<1>5. y \in 0..(h - 1)
    BY <1>3, <1>4
<1> QED BY <1>3, <1>5, Zenon DEF x, y

LEMMA Coordinates ==
    ASSUME NEW p, IsPicture(p), NEW i \in Area(p)
    PROVE  /\ i % p.width \in 0..(p.width - 1)
           /\ i \div p.width \in 0..(p.height - 1)
           /\ i = (i \div p.width) * p.width + (i % p.width)
<1>1. p.width \in Nat /\ p.width > 0 /\ p.height \in Nat /\ p.height > 0
    BY DEF IsPicture
<1>2. i \in 0..(p.width * p.height - 1)
    BY DEF Area
<1> QED BY <1>1, <1>2, Division, Zenon

LEMMA PixelAt ==
    ASSUME NEW p, IsPicture(p), NEW x \in 0..(p.width - 1), NEW y \in 0..(p.height - 1)
    PROVE  /\ y * p.width + x \in Area(p)
           /\ (y * p.width + x) % p.width = x
           /\ (y * p.width + x) \div p.width = y
<1> DEFINE w == p.width
           h == p.height
<1>1. w \in Nat /\ w > 0 /\ h \in Nat /\ h > 0 /\ x \in Nat /\ x < w /\ y \in Nat /\ y < h
    BY DEF IsPicture
<1> HIDE DEF w, h
<1>2. (y * w + x) % w = x /\ (y * w + x) \div w = y
    BY <1>1, SMT
<1>3. y * w + x \in 0..(w * h - 1)
    <2>1. y * w + w <= w * h
        <3>1. y + 1 <= h
            BY <1>1
        <3>2. (y + 1) * w <= h * w
            BY <1>1, <3>1
        <3>3. (y + 1) * w = y * w + w /\ h * w = w * h
            BY <1>1
        <3> QED BY <3>2, <3>3
    <2>2. y * w \in Nat /\ w * h \in Nat
        BY <1>1
    <2> QED BY <1>1, <2>1, <2>2
<1> QED BY <1>2, <1>3 DEF w, h, Area

-----------------------------------------------------------------------------
(* Buffers, and the neighbours that a pixel passes its error to. *)
Values(p) == [Area(p) -> Int]

(* Pixel j is dx columns right of and dy rows below pixel n. *)
Ahead(p, n, j, dx, dy) ==
    j % p.width = (n % p.width) + dx /\ j \div p.width = (n \div p.width) + dy

Has(p, j, dx, dy) ==
    dx <= j % p.width /\ (j % p.width) - dx < p.width /\ dy <= j \div p.width

Neighbour(p, j, dx, dy) == ((j \div p.width) - dy) * p.width + ((j % p.width) - dx)

LEMMA NeighbourInArea ==
    ASSUME NEW p, IsPicture(p), NEW j \in Area(p), NEW dx \in Int, NEW dy \in Nat,
           Has(p, j, dx, dy)
    PROVE  /\ Neighbour(p, j, dx, dy) \in Area(p)
           /\ Neighbour(p, j, dx, dy) % p.width = (j % p.width) - dx
           /\ Neighbour(p, j, dx, dy) \div p.width = (j \div p.width) - dy
<1> DEFINE x == (j % p.width) - dx
           y == (j \div p.width) - dy
<1>1. x \in 0..(p.width - 1) /\ y \in 0..(p.height - 1)
    <2>1. /\ p.width \in Nat /\ p.height \in Nat
          /\ j % p.width \in 0..(p.width - 1) /\ j \div p.width \in 0..(p.height - 1)
        BY Coordinates DEF IsPicture
    <2> DEFINE w == p.width
               h == p.height
               r == j % p.width
               q == j \div p.width
    <2>2. w \in Nat /\ h \in Nat /\ r \in 0..(w - 1) /\ q \in 0..(h - 1)
          /\ dx <= r /\ r - dx < w /\ dy <= q
        BY <2>1 DEF Has
    <2> HIDE DEF w, h, r, q
    <2>3. r - dx \in 0..(w - 1) /\ q - dy \in 0..(h - 1)
        BY <2>2
    <2> QED BY <2>3, Zenon DEF w, h, r, q
<1>2. Neighbour(p, j, dx, dy) = y * p.width + x
    BY DEF Neighbour
<1> HIDE DEF x, y
<1>3. /\ y * p.width + x \in Area(p)
      /\ (y * p.width + x) % p.width = x
      /\ (y * p.width + x) \div p.width = y
    BY <1>1, PixelAt
<1> QED BY <1>2, <1>3, Zenon DEF x, y

LEMMA Neighbours ==
    ASSUME NEW p, IsPicture(p), NEW n \in Area(p), NEW j \in Area(p),
           NEW dx \in Int, NEW dy \in Nat
    PROVE  Ahead(p, n, j, dx, dy) <=> Has(p, j, dx, dy) /\ Neighbour(p, j, dx, dy) = n
<1> DEFINE w == p.width
           r == j % p.width
           q == j \div p.width
           u == n % p.width
           v == n \div p.width
<1>1. /\ w \in Nat /\ r \in Int /\ q \in Int /\ u \in Int /\ v \in Int
      /\ 0 <= u /\ u < w /\ 0 <= v /\ n = v * w + u
    <2>1. p.width \in Nat /\ p.height \in Nat
        BY DEF IsPicture
    <2>2. /\ j % p.width \in 0..(p.width - 1) /\ j \div p.width \in 0..(p.height - 1)
          /\ n % p.width \in 0..(p.width - 1) /\ n \div p.width \in 0..(p.height - 1)
          /\ n = (n \div p.width) * p.width + (n % p.width)
        BY Coordinates
    <2>3. w \in Nat /\ p.height \in Nat /\ r \in 0..(w - 1) /\ q \in 0..(p.height - 1)
          /\ u \in 0..(w - 1) /\ v \in 0..(p.height - 1) /\ n = v * w + u
        BY <2>1, <2>2, Zenon
    <2> HIDE DEF w, r, q, u, v
    <2> QED BY <2>3
<1>2. Ahead(p, n, j, dx, dy) <=> r = u + dx /\ q = v + dy
    BY Zenon DEF Ahead
<1>3. Has(p, j, dx, dy) <=> dx <= r /\ r - dx < w /\ dy <= q
    BY Zenon DEF Has
<1>4. Neighbour(p, j, dx, dy) = (q - dy) * w + (r - dx)
    BY Zenon DEF Neighbour
<1>5. ASSUME Has(p, j, dx, dy), Neighbour(p, j, dx, dy) = n
      PROVE  u = r - dx /\ v = q - dy
    <2>1. n % p.width = (j % p.width) - dx /\ n \div p.width = (j \div p.width) - dy
        BY <1>5, NeighbourInArea, Zenon
    <2> QED BY <2>1, Zenon
<1> HIDE DEF w, r, q, u, v
<1>6. ASSUME r = u + dx, q = v + dy
      PROVE  Has(p, j, dx, dy) /\ Neighbour(p, j, dx, dy) = n
    <2>1. q - dy = v /\ r - dx = u /\ dx <= r /\ dy <= q
        BY <1>1, <1>6
    <2> QED BY <1>1, <1>3, <1>4, <2>1
<1>7. ASSUME Has(p, j, dx, dy), Neighbour(p, j, dx, dy) = n
      PROVE  r = u + dx /\ q = v + dy
    BY <1>1, <1>5, <1>7
<1> QED BY <1>2, <1>6, <1>7

(* diffuse adds to one pixel, if the picture has it. *)
LEMMA DiffuseAdds ==
    ASSUME NEW p, IsPicture(p), NEW buf \in Values(p), NEW x \in Int, NEW y \in Int,
           NEW delta \in Int
    PROVE  /\ diffuse(buf, p, x, y, delta) \in Values(p)
           /\ \A j \in Area(p) :
                 diffuse(buf, p, x, y, delta)[j] =
                     buf[j] + (IF j % p.width = x /\ j \div p.width = y THEN delta ELSE 0)
<1> DEFINE outside == x < 0 \/ x >= p.width \/ y < 0 \/ y >= p.height
<1>0. p.width \in Nat /\ p.height \in Nat /\ buf \in [Area(p) -> Int]
    BY DEF IsPicture, Values
<1>1. CASE outside
    <2>1. diffuse(buf, p, x, y, delta) = buf
        BY <1>1 DEF diffuse
    <2>2. ASSUME NEW j \in Area(p)
          PROVE  ~(j % p.width = x /\ j \div p.width = y)
        <3>1. j % p.width \in 0..(p.width - 1) /\ j \div p.width \in 0..(p.height - 1)
            BY Coordinates, Zenon
        <3>2. x \in 0..(p.width - 1) /\ y \in 0..(p.height - 1) => ~outside
            BY <1>0
        <3> QED BY <1>1, <3>1, <3>2, Zenon
    <2>3. ASSUME NEW j \in Area(p)
          PROVE  buf[j] = buf[j] + (IF j % p.width = x /\ j \div p.width = y
                                    THEN delta ELSE 0)
        <3>1. (IF j % p.width = x /\ j \div p.width = y THEN delta ELSE 0) = 0
            BY <2>2, Zenon
        <3>2. buf[j] = buf[j] + 0
            BY <1>0
        <3> QED BY <3>1, <3>2, Zenon
    <2> QED BY <2>1, <2>3
<1>2. CASE ~outside
    <2> DEFINE k == y * p.width + x
    <2>1. x \in 0..(p.width - 1) /\ y \in 0..(p.height - 1)
        BY <1>0, <1>2
    <2>2. k \in Area(p) /\ k % p.width = x /\ k \div p.width = y
        BY <2>1, PixelAt
    <2>3. \A j \in Area(p) : j % p.width = x /\ j \div p.width = y <=> j = k
        <3> TAKE j \in Area(p)
        <3>1. j = (j \div p.width) * p.width + (j % p.width)
            BY Coordinates, Zenon
        <3> QED BY <2>2, <3>1, Zenon
    <2>4. diffuse(buf, p, x, y, delta) = [buf EXCEPT ![k] = @ + delta]
        BY <1>2 DEF diffuse
    <2> HIDE DEF k
    <2>5. ASSUME NEW j \in Area(p)
          PROVE  [buf EXCEPT ![k] = @ + delta][j] = buf[j] + (IF j = k THEN delta ELSE 0)
        BY <1>0, <2>2
    <2>6. [buf EXCEPT ![k] = @ + delta] \in Values(p)
        BY <1>0, <2>2 DEF Values
    <2>7. ASSUME NEW j \in Area(p)
          PROVE  (IF j = k THEN delta ELSE 0)
                 = (IF j % p.width = x /\ j \div p.width = y THEN delta ELSE 0)
        BY <2>3, Zenon
    <2> QED BY <2>4, <2>5, <2>6, <2>7, Zenon
<1> QED BY <1>1, <1>2

ErrorOf(v) == v - (IF v >= Middle THEN White ELSE 0)

LEMMA ErrorOfTyped ==
    ASSUME NEW v \in Int
    PROVE  ErrorOf(v) \in Int /\ ErrorOf(v) = (IF v >= Middle THEN v - White ELSE v)
BY RasterAssumption DEF ErrorOf, White, Middle

(* A visited pixel passes its error to four others. *)
Passes(p, n, j, dx, dy, share) == IF Ahead(p, n, j, dx, dy) THEN share ELSE 0

LEMMA DiffuseFromAdds ==
    ASSUME NEW p, IsPicture(p), NEW buf \in Values(p), NEW n \in Area(p)
    PROVE  /\ DiffuseFrom(p, buf, n) \in Values(p)
           /\ \A j \in Area(p) :
                 DiffuseFrom(p, buf, n)[j] =
                     buf[j] + Passes(p, n, j, 1, 0, (ErrorOf(buf[n]) * 7) \div 16)
                            + Passes(p, n, j, -1, 1, (ErrorOf(buf[n]) * 3) \div 16)
                            + Passes(p, n, j, 0, 1, (ErrorOf(buf[n]) * 5) \div 16)
                            + Passes(p, n, j, 1, 1, ErrorOf(buf[n]) \div 16)
<1> DEFINE x   == n % p.width
           y   == n \div p.width
           err == ErrorOf(buf[n])
           d1  == (err * 7) \div 16
           d2  == (err * 3) \div 16
           d3  == (err * 5) \div 16
           d4  == err \div 16
           b1  == diffuse(buf, p, x + 1, y,     d1)
           b2  == diffuse(b1,  p, x - 1, y + 1, d2)
           b3  == diffuse(b2,  p, x,     y + 1, d3)
           b4  == diffuse(b3,  p, x + 1, y + 1, d4)
<1>1. DiffuseFrom(p, buf, n) = b4
    BY Zenon DEF DiffuseFrom, ErrorOf
<1>2. x \in Int /\ y \in Int
    <2>1. p.width \in Nat /\ p.height \in Nat
        BY DEF IsPicture
    <2>2. x \in 0..(p.width - 1) /\ y \in 0..(p.height - 1)
        BY Coordinates, Zenon
    <2> HIDE DEF x, y
    <2> QED BY <2>1, <2>2
<1>3. err \in Int
    <2>1. buf[n] \in Int
        BY DEF Values
    <2> QED BY <2>1, ErrorOfTyped, Zenon
<1>4. d1 \in Int /\ d2 \in Int /\ d3 \in Int /\ d4 \in Int
    <2> HIDE DEF err
    <2> QED BY <1>3
<1>5. \A j \in Area(p) :
          /\ Passes(p, n, j, 1, 0, d1) = (IF j % p.width = x + 1 /\ j \div p.width = y THEN d1 ELSE 0)
          /\ Passes(p, n, j, -1, 1, d2) = (IF j % p.width = x - 1 /\ j \div p.width = y + 1 THEN d2 ELSE 0)
          /\ Passes(p, n, j, 0, 1, d3) = (IF j % p.width = x /\ j \div p.width = y + 1 THEN d3 ELSE 0)
          /\ Passes(p, n, j, 1, 1, d4) = (IF j % p.width = x + 1 /\ j \div p.width = y + 1 THEN d4 ELSE 0)
    <2> TAKE j \in Area(p)
    <2> DEFINE r == j % p.width
               q == j \div p.width
    <2>1. y + 0 = y /\ x + (-1) = x - 1 /\ x + 0 = x
        <3> HIDE DEF x, y
        <3> QED BY <1>2
    <2>2. /\ Ahead(p, n, j, 1, 0) <=> r = x + 1 /\ q = y + 0
          /\ Ahead(p, n, j, -1, 1) <=> r = x + (-1) /\ q = y + 1
          /\ Ahead(p, n, j, 0, 1) <=> r = x + 0 /\ q = y + 1
          /\ Ahead(p, n, j, 1, 1) <=> r = x + 1 /\ q = y + 1
        BY Zenon DEF Ahead
    <2> HIDE DEF r, q, x, y, d1, d2, d3, d4
    <2>3. /\ Passes(p, n, j, 1, 0, d1) = (IF r = x + 1 /\ q = y THEN d1 ELSE 0)
          /\ Passes(p, n, j, -1, 1, d2) = (IF r = x - 1 /\ q = y + 1 THEN d2 ELSE 0)
          /\ Passes(p, n, j, 0, 1, d3) = (IF r = x /\ q = y + 1 THEN d3 ELSE 0)
          /\ Passes(p, n, j, 1, 1, d4) = (IF r = x + 1 /\ q = y + 1 THEN d4 ELSE 0)
        BY <2>1, <2>2 DEF Passes
    <2> QED BY <2>3, Zenon DEF r, q
<1> HIDE DEF x, y, err, d1, d2, d3, d4
<1>6. x + 1 \in Int /\ x - 1 \in Int /\ y + 1 \in Int
    BY <1>2
<1>7. b1 \in Values(p) /\ \A j \in Area(p) :
          b1[j] = buf[j] + (IF j % p.width = x + 1 /\ j \div p.width = y THEN d1 ELSE 0)
    BY <1>2, <1>4, <1>6, DiffuseAdds
<1> HIDE DEF b1
<1>8. b2 \in Values(p) /\ \A j \in Area(p) :
          b2[j] = b1[j] + (IF j % p.width = x - 1 /\ j \div p.width = y + 1 THEN d2 ELSE 0)
    BY <1>2, <1>4, <1>6, <1>7, DiffuseAdds
<1> HIDE DEF b2
<1>9. b3 \in Values(p) /\ \A j \in Area(p) :
          b3[j] = b2[j] + (IF j % p.width = x /\ j \div p.width = y + 1 THEN d3 ELSE 0)
    BY <1>2, <1>4, <1>6, <1>8, DiffuseAdds
<1> HIDE DEF b3
<1>10. b4 \in Values(p) /\ \A j \in Area(p) :
          b4[j] = b3[j] + (IF j % p.width = x + 1 /\ j \div p.width = y + 1 THEN d4 ELSE 0)
    BY <1>2, <1>4, <1>6, <1>9, DiffuseAdds
<1> HIDE DEF b4
<1>11. ASSUME NEW j \in Area(p)
       PROVE  b4[j] = buf[j] + Passes(p, n, j, 1, 0, d1) + Passes(p, n, j, -1, 1, d2)
                             + Passes(p, n, j, 0, 1, d3) + Passes(p, n, j, 1, 1, d4)
    <2>1. b4[j] = b3[j] + Passes(p, n, j, 1, 1, d4)
        BY <1>5, <1>10, Zenon
    <2>2. b3[j] = b2[j] + Passes(p, n, j, 0, 1, d3)
        BY <1>5, <1>9, Zenon
    <2>3. b2[j] = b1[j] + Passes(p, n, j, -1, 1, d2)
        BY <1>5, <1>8, Zenon
    <2>4. b1[j] = buf[j] + Passes(p, n, j, 1, 0, d1)
        BY <1>5, <1>7, Zenon
    <2> QED BY <2>1, <2>2, <2>3, <2>4, Zenon
<1> QED BY <1>1, <1>10, <1>11, Zenon DEF d1, d2, d3, d4, err

-----------------------------------------------------------------------------
(* The buffer once n pixels have been visited: pixel j has received the    *)
(* shares of the neighbours among them.                                    *)
Share(p, e, j, n, dx, dy, weight) ==
    IF Has(p, j, dx, dy) /\ Neighbour(p, j, dx, dy) < n
    THEN (weight * e[Neighbour(p, j, dx, dy)]) \div 16 ELSE 0

Received(p, e, j, n) ==
    luma8(p, j) + Share(p, e, j, n, 1, 0, 7) + Share(p, e, j, n, -1, 1, 3)
                + Share(p, e, j, n, 0, 1, 5) + Share(p, e, j, n, 1, 1, 1)

LEMMA AreaIsNat ==
    ASSUME NEW p, IsPicture(p)
    PROVE  p.width * p.height \in Nat /\ Area(p) = {n \in Nat : n < p.width * p.height}
<1> DEFINE w == p.width
           h == p.height
<1>1. w \in Nat /\ h \in Nat
    BY DEF IsPicture
<1> HIDE DEF w, h
<1>2. w * h \in Nat
    BY <1>1
<1>3. 0..(w * h - 1) = {n \in Nat : n < w * h}
    BY <1>2
<1> QED BY <1>2, <1>3 DEF w, h, Area

LEMMA ShareTyped ==
    ASSUME NEW p, IsPicture(p), NEW e \in Values(p), NEW j \in Area(p), NEW n \in Nat,
           NEW dx \in Int, NEW dy \in Nat, NEW weight \in Nat
    PROVE  Share(p, e, j, n, dx, dy, weight) \in Int
<1>1. CASE Has(p, j, dx, dy)
    <2> DEFINE k == Neighbour(p, j, dx, dy)
    <2>1. e[k] \in Int
        BY <1>1, NeighbourInArea DEF Values
    <2> HIDE DEF k
    <2>2. (weight * e[k]) \div 16 \in Int
        BY <2>1
    <2> QED BY <2>2 DEF Share, k
<1>2. CASE ~Has(p, j, dx, dy)
    BY <1>2 DEF Share
<1> QED BY <1>1, <1>2

LEMMA SharesTyped ==
    ASSUME NEW p, IsPicture(p), NEW e \in Values(p), NEW j \in Area(p), NEW n \in Nat
    PROVE  /\ Share(p, e, j, n, 1, 0, 7) \in Int /\ Share(p, e, j, n, -1, 1, 3) \in Int
           /\ Share(p, e, j, n, 0, 1, 5) \in Int /\ Share(p, e, j, n, 1, 1, 1) \in Int
<1>1. Share(p, e, j, n, 1, 0, 7) \in Int
    BY ShareTyped
<1>2. Share(p, e, j, n, -1, 1, 3) \in Int
    BY ShareTyped
<1>3. Share(p, e, j, n, 0, 1, 5) \in Int
    BY ShareTyped
<1>4. Share(p, e, j, n, 1, 1, 1) \in Int
    BY ShareTyped
<1> QED BY <1>1, <1>2, <1>3, <1>4

LEMMA ShareStarts ==
    ASSUME NEW p, IsPicture(p), NEW e \in Values(p), NEW j \in Area(p),
           NEW dx \in Int, NEW dy \in Nat, NEW weight \in Nat
    PROVE  Share(p, e, j, 0, dx, dy, weight) = 0
<1>1. Has(p, j, dx, dy) => Neighbour(p, j, dx, dy) \in Nat
    BY NeighbourInArea, AreaIsNat
<1> QED BY <1>1 DEF Share

LEMMA ShareGrows ==
    ASSUME NEW p, IsPicture(p), NEW e \in Values(p), NEW j \in Area(p), NEW n \in Area(p),
           NEW dx \in Int, NEW dy \in Nat, NEW weight \in Nat
    PROVE  Share(p, e, j, n + 1, dx, dy, weight) =
               Share(p, e, j, n, dx, dy, weight)
               + Passes(p, n, j, dx, dy, (weight * e[n]) \div 16)
<1> DEFINE k == Neighbour(p, j, dx, dy)
           s(i) == (weight * e[i]) \div 16
<1>1. Has(p, j, dx, dy) => k \in Nat /\ s(k) \in Int
    <2>1. Has(p, j, dx, dy) => k \in Area(p) /\ e[k] \in Int
        BY NeighbourInArea DEF Values
    <2> HIDE DEF k
    <2> QED BY <2>1, AreaIsNat
<1>2. n \in Nat /\ s(n) \in Int
    <2>1. e[n] \in Int /\ n \in Nat
        BY AreaIsNat DEF Values
    <2> QED BY <2>1
<1>3. Passes(p, n, j, dx, dy, s(n)) = IF Has(p, j, dx, dy) /\ k = n THEN s(n) ELSE 0
    <2>1. Ahead(p, n, j, dx, dy) <=> Has(p, j, dx, dy) /\ k = n
        BY Neighbours
    <2> HIDE DEF k, s
    <2> QED BY <2>1 DEF Passes
<1>4. \A m : Share(p, e, j, m, dx, dy, weight) =
                 IF Has(p, j, dx, dy) /\ k < m THEN s(k) ELSE 0
    BY DEF Share
<1> HIDE DEF k, s
<1>5. Share(p, e, j, n + 1, dx, dy, weight) =
          Share(p, e, j, n, dx, dy, weight) + Passes(p, n, j, dx, dy, s(n))
    <2> DEFINE now  == Share(p, e, j, n, dx, dy, weight)
               next == Share(p, e, j, n + 1, dx, dy, weight)
               more == Passes(p, n, j, dx, dy, s(n))
               has  == Has(p, j, dx, dy)
    <2>1. /\ now = IF has /\ k < n THEN s(k) ELSE 0
          /\ next = IF has /\ k < n + 1 THEN s(k) ELSE 0
          /\ more = IF has /\ k = n THEN s(n) ELSE 0
        BY <1>3, <1>4
    <2>2. has => k \in Nat /\ s(k) \in Int
        BY <1>1
    <2> HIDE DEF now, next, more, has
    <2>3. next = now + more
        <3>1. CASE has /\ k < n
            BY <1>2, <2>1, <2>2, <3>1
        <3>2. CASE has /\ k = n
            BY <1>2, <2>1, <2>2, <3>2
        <3>3. CASE ~has \/ (has /\ k > n)
            BY <1>2, <2>1, <2>2, <3>3
        <3> QED BY <1>2, <2>2, <3>1, <3>2, <3>3
    <2> QED BY <2>3 DEF now, next, more
<1> QED BY <1>5, Zenon DEF s

LEMMA LuminanceTyped ==
    ASSUME NEW p, IsPicture(p), NEW j \in Area(p)
    PROVE  luma8(p, j) \in Int
<1>1. p.gray \in [Area(p) -> 0..255]
    BY DEF IsPicture, Like
<1>2. p.gray[j] \in Int
    BY <1>1
<1> QED BY <1>2, RasterAssumption DEF luma8

LEMMA ReceivedStarts ==
    ASSUME NEW p, IsPicture(p), NEW e \in Values(p), NEW j \in Area(p)
    PROVE  Received(p, e, j, 0) = luma8(p, j)
<1>1. /\ Share(p, e, j, 0, 1, 0, 7) = 0 /\ Share(p, e, j, 0, -1, 1, 3) = 0
      /\ Share(p, e, j, 0, 0, 1, 5) = 0 /\ Share(p, e, j, 0, 1, 1, 1) = 0
    BY ShareStarts
<1> QED BY <1>1, LuminanceTyped DEF Received

LEMMA ReceivedGrows ==
    ASSUME NEW p, IsPicture(p), NEW e \in Values(p), NEW j \in Area(p), NEW n \in Area(p)
    PROVE  Received(p, e, j, n + 1) =
               Received(p, e, j, n) + Passes(p, n, j, 1, 0, (e[n] * 7) \div 16)
                                    + Passes(p, n, j, -1, 1, (e[n] * 3) \div 16)
                                    + Passes(p, n, j, 0, 1, (e[n] * 5) \div 16)
                                    + Passes(p, n, j, 1, 1, e[n] \div 16)
<1> DEFINE S(m, dx, dy, weight) == Share(p, e, j, m, dx, dy, weight)
           M(dx, dy, weight) == Passes(p, n, j, dx, dy, (weight * e[n]) \div 16)
<1>1. e[n] \in Int /\ n \in Nat
    BY AreaIsNat DEF Values
<1>2. /\ 7 * e[n] = e[n] * 7 /\ 3 * e[n] = e[n] * 3
      /\ 5 * e[n] = e[n] * 5 /\ 1 * e[n] = e[n]
    BY <1>1
<1>3. /\ S(n + 1, 1, 0, 7) = S(n, 1, 0, 7) + M(1, 0, 7)
      /\ S(n + 1, -1, 1, 3) = S(n, -1, 1, 3) + M(-1, 1, 3)
      /\ S(n + 1, 0, 1, 5) = S(n, 0, 1, 5) + M(0, 1, 5)
      /\ S(n + 1, 1, 1, 1) = S(n, 1, 1, 1) + M(1, 1, 1)
    BY ShareGrows
<1>4. /\ S(n, 1, 0, 7) \in Int /\ S(n, -1, 1, 3) \in Int
      /\ S(n, 0, 1, 5) \in Int /\ S(n, 1, 1, 1) \in Int
    BY <1>1, SharesTyped
<1>5. M(1, 0, 7) \in Int /\ M(-1, 1, 3) \in Int /\ M(0, 1, 5) \in Int /\ M(1, 1, 1) \in Int
    BY <1>1 DEF Passes
<1>6. luma8(p, j) \in Int
    BY LuminanceTyped
<1>7. \A m : Received(p, e, j, m) = luma8(p, j) + S(m, 1, 0, 7) + S(m, -1, 1, 3)
                                    + S(m, 0, 1, 5) + S(m, 1, 1, 1)
    BY DEF Received
<1>8. /\ M(1, 0, 7) = Passes(p, n, j, 1, 0, (e[n] * 7) \div 16)
      /\ M(-1, 1, 3) = Passes(p, n, j, -1, 1, (e[n] * 3) \div 16)
      /\ M(0, 1, 5) = Passes(p, n, j, 0, 1, (e[n] * 5) \div 16)
      /\ M(1, 1, 1) = Passes(p, n, j, 1, 1, e[n] \div 16)
    BY <1>2, Zenon
<1> HIDE DEF S, M
<1>9. Received(p, e, j, n + 1) = Received(p, e, j, n) + M(1, 0, 7) + M(-1, 1, 3)
                                 + M(0, 1, 5) + M(1, 1, 1)
    BY <1>3, <1>4, <1>5, <1>6, <1>7
<1> QED BY <1>8, <1>9, Zenon

LEMMA ReceivedTyped ==
    ASSUME NEW p, IsPicture(p), NEW e \in Values(p), NEW j \in Area(p), NEW n \in Nat
    PROVE  Received(p, e, j, n) \in Int
<1>1. /\ Share(p, e, j, n, 1, 0, 7) \in Int /\ Share(p, e, j, n, -1, 1, 3) \in Int
      /\ Share(p, e, j, n, 0, 1, 5) \in Int /\ Share(p, e, j, n, 1, 1, 1) \in Int
    BY SharesTyped
<1> QED BY <1>1, LuminanceTyped DEF Received

(* The neighbours that a pixel gathers from, which all come before it. *)
LEMMA GathersFrom ==
    ASSUME NEW p, IsPicture(p), NEW e, NEW j \in Area(p)
    PROVE  /\ Gathers(p, e, j) =
                 luma8(p, j)
                 + (IF Has(p, j, 1, 0) THEN (7 * e[Neighbour(p, j, 1, 0)]) \div 16 ELSE 0)
                 + (IF Has(p, j, -1, 1) THEN (3 * e[Neighbour(p, j, -1, 1)]) \div 16 ELSE 0)
                 + (IF Has(p, j, 0, 1) THEN (5 * e[Neighbour(p, j, 0, 1)]) \div 16 ELSE 0)
                 + (IF Has(p, j, 1, 1) THEN e[Neighbour(p, j, 1, 1)] \div 16 ELSE 0)
           /\ Neighbour(p, j, 1, 0) < j
           /\ Has(p, j, -1, 1) => Neighbour(p, j, -1, 1) < j
           /\ Neighbour(p, j, 0, 1) < j
           /\ Neighbour(p, j, 1, 1) < j
<1> DEFINE w == p.width
           x == j % p.width
           y == j \div p.width
           at(u, v) == v * w + u
<1>1. w \in Nat /\ w > 0 /\ x \in Int /\ 0 <= x /\ x < w /\ y \in Int /\ 0 <= y /\ j = y * w + x
    <2>1. p.width \in Nat /\ p.height \in Nat /\ p.width > 0
        BY DEF IsPicture
    <2>2. /\ j % p.width \in 0..(p.width - 1) /\ j \div p.width \in 0..(p.height - 1)
          /\ j = (j \div p.width) * p.width + (j % p.width)
        BY Coordinates, Zenon
    <2>3. w \in Nat /\ w > 0 /\ p.height \in Nat /\ x \in 0..(w - 1)
          /\ y \in 0..(p.height - 1) /\ j = y * w + x
        BY <2>1, <2>2, Zenon
    <2> HIDE DEF w, x, y
    <2> QED BY <2>3
<1>2. \A dx, dy : /\ Has(p, j, dx, dy) <=> dx <= x /\ x - dx < w /\ dy <= y
                  /\ Neighbour(p, j, dx, dy) = at(x - dx, y - dy)
    BY Zenon DEF Has, Neighbour
<1>3. Gathers(p, e, j) =
          luma8(p, j)
          + (IF x > 0 THEN (7 * e[at(x - 1, y)]) \div 16 ELSE 0)
          + (IF y > 0 /\ x + 1 < w THEN (3 * e[at(x + 1, y - 1)]) \div 16 ELSE 0)
          + (IF y > 0 THEN (5 * e[at(x, y - 1)]) \div 16 ELSE 0)
          + (IF y > 0 /\ x > 0 THEN e[at(x - 1, y - 1)] \div 16 ELSE 0)
    BY Zenon DEF Gathers
<1> HIDE DEF w, x, y
<1>4. /\ x - 0 = x /\ y - 0 = y /\ x - (-1) = x + 1
    BY <1>1
<1>5. /\ at(x - 1, y) < j
      /\ x + 1 < w => at(x + 1, y - 1) < j
      /\ at(x, y - 1) < j
      /\ at(x - 1, y - 1) < j
    <2>1. (y - 1) * w = y * w - w
        BY <1>1
    <2>2. y * w \in Int
        BY <1>1
    <2> QED BY <1>1, <2>1, <2>2
<1>6. /\ Has(p, j, 1, 0) <=> x > 0
      /\ Has(p, j, -1, 1) <=> y > 0 /\ x + 1 < w
      /\ Has(p, j, 0, 1) <=> y > 0
      /\ Has(p, j, 1, 1) <=> y > 0 /\ x > 0
    BY <1>1, <1>2
<1>7. /\ Neighbour(p, j, 1, 0) = at(x - 1, y)
      /\ Neighbour(p, j, -1, 1) = at(x + 1, y - 1)
      /\ Neighbour(p, j, 0, 1) = at(x, y - 1)
      /\ Neighbour(p, j, 1, 1) = at(x - 1, y - 1)
    BY <1>2, <1>4, Zenon
<1> HIDE DEF at
<1> QED BY <1>3, <1>5, <1>6, <1>7, Zenon

LEMMA GathersReceived ==
    ASSUME NEW p, IsPicture(p), NEW e \in Values(p), NEW j \in Area(p)
    PROVE  Gathers(p, e, j) = Received(p, e, j, j)
<1> DEFINE k == Neighbour(p, j, 1, 1)
<1>1. Has(p, j, 1, 1) => e[k] \in Int
    BY NeighbourInArea DEF Values
<1>2. /\ Share(p, e, j, j, 1, 0, 7) =
             IF Has(p, j, 1, 0) THEN (7 * e[Neighbour(p, j, 1, 0)]) \div 16 ELSE 0
      /\ Share(p, e, j, j, -1, 1, 3) =
             IF Has(p, j, -1, 1) THEN (3 * e[Neighbour(p, j, -1, 1)]) \div 16 ELSE 0
      /\ Share(p, e, j, j, 0, 1, 5) =
             IF Has(p, j, 0, 1) THEN (5 * e[Neighbour(p, j, 0, 1)]) \div 16 ELSE 0
      /\ Share(p, e, j, j, 1, 1, 1) =
             IF Has(p, j, 1, 1) THEN (1 * e[k]) \div 16 ELSE 0
    BY GathersFrom, Zenon DEF Share
<1> HIDE DEF k
<1>3. Share(p, e, j, j, 1, 1, 1) = IF Has(p, j, 1, 1) THEN e[k] \div 16 ELSE 0
    BY <1>1, <1>2
<1> QED BY <1>2, <1>3, GathersFrom, Zenon DEF Received, k

-----------------------------------------------------------------------------
(* The recursive definition of Buffers has a solution, and Buffers is one. *)
LEMMA BuffersExist ==
    ASSUME NEW p, IsPicture(p)
    PROVE  /\ Buffers(p) \in [0..(p.width * p.height) -> Values(p)]
           /\ Buffers(p)[0] = [i \in Area(p) |-> luma8(p, i)]
           /\ \A n \in Area(p) : Buffers(p)[n + 1] = DiffuseFrom(p, Buffers(p)[n], n)
<1> DEFINE N == p.width * p.height
           first == [i \in Area(p) |-> luma8(p, i)]
           step == [n \in 0..(N - 1) |-> [buf \in Values(p) |-> DiffuseFrom(p, buf, n)]]
<1>1. N \in Nat /\ Area(p) = 0..(N - 1) /\ Area(p) = {n \in Nat : n < N}
    BY AreaIsNat DEF Area
<1>2. first \in Values(p)
    BY LuminanceTyped DEF Values
<1>3. step \in [0..(N - 1) -> [Values(p) -> Values(p)]]
    <2>1. \A n \in 0..(N - 1) : \A buf \in Values(p) : DiffuseFrom(p, buf, n) \in Values(p)
        BY <1>1, DiffuseFromAdds
    <2> QED BY <2>1
<1> HIDE DEF N, first, step
<1>4. PICK f : IsRun(f, Values(p), first, N, step)
    <2>1. N \in Nat /\ step \in Steps(Values(p), N)
        BY <1>1, <1>3 DEF Steps
    <2> QED BY <1>2, <2>1, Iterates
<1>5. /\ f \in [0..N -> Values(p)] /\ f[0] = first
      /\ \A k \in 1..N : f[k] = step[k - 1][f[k - 1]]
    BY <1>4 DEF IsRun
<1>6. ASSUME NEW n \in 0..N
      PROVE  f[n] = (IF n = 0 THEN first ELSE DiffuseFrom(p, f[n - 1], n - 1))
    <2>1. CASE n = 0
        BY <1>5, <2>1
    <2>2. CASE n # 0
        <3>1. n - 1 \in 0..(N - 1) /\ n - 1 \in 0..N
            BY <1>1, <2>2
        <3>2. f[n - 1] \in Values(p)
            BY <1>5, <3>1
        <3>3. step[n - 1] = [buf \in Values(p) |-> DiffuseFrom(p, buf, n - 1)]
            BY <3>1 DEF step
        <3>4. step[n - 1][f[n - 1]] = DiffuseFrom(p, f[n - 1], n - 1)
            BY <3>2, <3>3
        <3>5. n \in 1..N
            BY <1>1, <2>2
        <3> QED BY <1>5, <2>2, <3>4, <3>5
    <2> QED BY <2>1, <2>2
<1>7. f = [n \in 0..N |-> IF n = 0 THEN first ELSE DiffuseFrom(p, f[n - 1], n - 1)]
    BY <1>5, <1>6
<1> DEFINE Solves(g) ==
        g = [n \in 0..N |-> IF n = 0 THEN first ELSE DiffuseFrom(p, g[n - 1], n - 1)]
<1>8. Buffers(p) = CHOOSE g : Solves(g)
    BY DEF Buffers, N, first
<1>9. Solves(Buffers(p))
    <2>1. Solves(f)
        BY <1>7
    <2> HIDE DEF Solves
    <2> QED BY <1>8, <2>1
<1> DEFINE b == Buffers(p)
<1>10. b = [n \in 0..N |-> IF n = 0 THEN first ELSE DiffuseFrom(p, b[n - 1], n - 1)]
    BY <1>9, Zenon
<1> HIDE DEF b, Solves
<1>11. b[0] = first
    BY <1>1, <1>10
<1>12. ASSUME NEW n \in Area(p)
       PROVE  b[n + 1] = DiffuseFrom(p, b[n], n)
    <2>1. n + 1 \in 0..N /\ n + 1 # 0 /\ (n + 1) - 1 = n
        BY <1>1
    <2>2. b[n + 1] = IF n + 1 = 0 THEN first ELSE DiffuseFrom(p, b[(n + 1) - 1], (n + 1) - 1)
        BY <1>10, <2>1, Zenon
    <2> QED BY <2>1, <2>2, Zenon
<1>13. ASSUME NEW n \in 1..N, b[n - 1] \in Values(p)
       PROVE  b[n] = step[n - 1][b[n - 1]]
    <2>1. n - 1 \in Area(p) /\ n - 1 \in 0..(N - 1) /\ (n - 1) + 1 = n
        BY <1>1
    <2>2. b[n] = DiffuseFrom(p, b[n - 1], n - 1)
        BY <1>12, <2>1
    <2>3. step[n - 1] = [buf \in Values(p) |-> DiffuseFrom(p, buf, n - 1)]
        BY <2>1 DEF step
    <2> QED BY <1>13, <2>2, <2>3
<1>14. b = [n \in 0..N |-> b[n]]
    BY <1>10
<1>15. IsRun(b, Values(p), first, N, step)
    <2>1. N \in Nat /\ step \in Steps(Values(p), N)
        BY <1>1, <1>3 DEF Steps
    <2> QED BY <1>2, <1>11, <1>13, <1>14, <2>1, RunFrom
<1>16. b \in [0..N -> Values(p)]
    BY <1>15 DEF IsRun
<1> QED BY <1>11, <1>12, <1>16 DEF b, N, first

(* What a pixel is decided on, and the error it then has. *)
Pushed(p) == [i \in Area(p) |-> ErrorOf(Buffers(p)[i][i])]

LEMMA PushedTyped ==
    ASSUME NEW p, IsPicture(p)
    PROVE  Pushed(p) \in Values(p)
<1>1. ASSUME NEW i \in Area(p)
      PROVE  ErrorOf(Buffers(p)[i][i]) \in Int
    <2>1. i \in 0..(p.width * p.height)
        BY AreaIsNat
    <2>2. Buffers(p)[i] \in Values(p)
        BY <2>1, BuffersExist
    <2>3. Buffers(p)[i][i] \in Int
        BY <2>2 DEF Values
    <2> QED BY <2>3, ErrorOfTyped
<1> QED BY <1>1 DEF Pushed, Values

LEMMA BuffersReceive ==
    ASSUME NEW p, IsPicture(p), NEW j \in Area(p)
    PROVE  Buffers(p)[j][j] = Gathers(p, Pushed(p), j)
<1> DEFINE N == p.width * p.height
           b == Buffers(p)
           e == Pushed(p)
           T == {n \in Nat : \A i \in Area(p) : n <= i => b[n][i] = Received(p, e, i, n)}
<1>1. N \in Nat /\ Area(p) = {n \in Nat : n < N}
    BY AreaIsNat
<1>2. e \in Values(p)
    BY PushedTyped
<1>3. /\ b \in [0..N -> Values(p)]
      /\ b[0] = [i \in Area(p) |-> luma8(p, i)]
      /\ \A n \in Area(p) : b[n + 1] = DiffuseFrom(p, b[n], n)
    BY BuffersExist
<1>4. \A n \in Area(p) : e[n] = ErrorOf(b[n][n])
    BY DEF Pushed
<1> HIDE DEF N, b, e
<1>5. ASSUME NEW n \in Nat, \A m \in Nat : m < n => m \in T
      PROVE  n \in T
    <2>1. SUFFICES ASSUME NEW i \in Area(p), n <= i
                   PROVE  b[n][i] = Received(p, e, i, n)
        OBVIOUS
    <2>2. CASE n = 0
        BY <1>2, <1>3, <2>2, ReceivedStarts
    <2>3. CASE n # 0
        <3> DEFINE m == n - 1
        <3>1. m \in Area(p) /\ m \in 0..N /\ m \in Nat /\ m < n /\ m <= i /\ n = m + 1
            BY <1>1, <2>1, <2>3
        <3>2. b[m][i] = Received(p, e, i, m)
            BY <1>5, <3>1
        <3>3. b[m] \in Values(p) /\ b[n] = DiffuseFrom(p, b[m], m) /\ e[m] = ErrorOf(b[m][m])
            BY <1>3, <1>4, <3>1
        <3> HIDE DEF m
        <3>4. b[n][i] = b[m][i] + Passes(p, m, i, 1, 0, (e[m] * 7) \div 16)
                                + Passes(p, m, i, -1, 1, (e[m] * 3) \div 16)
                                + Passes(p, m, i, 0, 1, (e[m] * 5) \div 16)
                                + Passes(p, m, i, 1, 1, e[m] \div 16)
            <4> DEFINE err == ErrorOf(b[m][m])
            <4>1. DiffuseFrom(p, b[m], m)[i] =
                      b[m][i] + Passes(p, m, i, 1, 0, (err * 7) \div 16)
                              + Passes(p, m, i, -1, 1, (err * 3) \div 16)
                              + Passes(p, m, i, 0, 1, (err * 5) \div 16)
                              + Passes(p, m, i, 1, 1, err \div 16)
                BY <2>1, <3>1, <3>3, DiffuseFromAdds
            <4>2. err = e[m]
                BY <3>3, Zenon
            <4> HIDE DEF err
            <4> QED BY <3>3, <4>1, <4>2, Zenon
        <3>5. Received(p, e, i, m + 1) =
                  Received(p, e, i, m) + Passes(p, m, i, 1, 0, (e[m] * 7) \div 16)
                                       + Passes(p, m, i, -1, 1, (e[m] * 3) \div 16)
                                       + Passes(p, m, i, 0, 1, (e[m] * 5) \div 16)
                                       + Passes(p, m, i, 1, 1, e[m] \div 16)
            BY <1>2, <2>1, <3>1, ReceivedGrows, Zenon
        <3> QED BY <3>1, <3>2, <3>4, <3>5, Zenon
    <2> QED BY <2>2, <2>3
<1>6. Nat \subseteq T
    <2> HIDE DEF T
    <2> QED BY <1>5, SetInduction
<1>7. b[j][j] = Received(p, e, j, j)
    BY <1>1, <1>6
<1>8. Gathers(p, e, j) = Received(p, e, j, j)
    BY <1>2, GathersReceived
<1> QED BY <1>7, <1>8, Zenon DEF b, e

(* What a pixel gathers depends on the pixels before it alone. *)
LEMMA GathersEarlier ==
    ASSUME NEW p, IsPicture(p), NEW e, NEW f, NEW j \in Area(p),
           \A i \in Area(p) : i < j => e[i] = f[i]
    PROVE  Gathers(p, e, j) = Gathers(p, f, j)
<1>1. ASSUME NEW dx \in Int, NEW dy \in Nat, Has(p, j, dx, dy), Neighbour(p, j, dx, dy) < j
      PROVE  e[Neighbour(p, j, dx, dy)] = f[Neighbour(p, j, dx, dy)]
    BY <1>1, NeighbourInArea, Zenon
<1>2. /\ Has(p, j, 1, 0) => e[Neighbour(p, j, 1, 0)] = f[Neighbour(p, j, 1, 0)]
      /\ Has(p, j, -1, 1) => e[Neighbour(p, j, -1, 1)] = f[Neighbour(p, j, -1, 1)]
      /\ Has(p, j, 0, 1) => e[Neighbour(p, j, 0, 1)] = f[Neighbour(p, j, 0, 1)]
      /\ Has(p, j, 1, 1) => e[Neighbour(p, j, 1, 1)] = f[Neighbour(p, j, 1, 1)]
    BY <1>1, GathersFrom
<1> QED BY <1>2, GathersFrom, ZenonT(30)

LEMMA GathersTyped ==
    ASSUME NEW p, IsPicture(p), NEW e \in Values(p), NEW j \in Area(p)
    PROVE  Gathers(p, e, j) \in Int
BY GathersReceived, ReceivedTyped, AreaIsNat

(* The recursive definition of Errors has one solution: the errors that    *)
(* the loop has pushed.                                                    *)
ErrorsSolve(p, e) ==
    e = [i \in Area(p) |-> LET v == Gathers(p, e, i)
                           IN  IF v >= Middle THEN v - White ELSE v]

LEMMA PushedSolves ==
    ASSUME NEW p, IsPicture(p)
    PROVE  ErrorsSolve(p, Pushed(p))
<1>1. ASSUME NEW i \in Area(p)
      PROVE  Pushed(p)[i] = LET v == Gathers(p, Pushed(p), i)
                            IN  IF v >= Middle THEN v - White ELSE v
    <2> DEFINE v == Gathers(p, Pushed(p), i)
    <2>1. v \in Int
        BY PushedTyped, GathersTyped
    <2>2. Pushed(p)[i] = ErrorOf(Buffers(p)[i][i])
        BY DEF Pushed
    <2>3. Pushed(p)[i] = ErrorOf(v)
        BY <2>2, BuffersReceive, Zenon
    <2> HIDE DEF v
    <2>4. Pushed(p)[i] = IF v >= Middle THEN v - White ELSE v
        BY <2>1, <2>3, ErrorOfTyped, Zenon
    <2> QED BY <2>4, Zenon DEF v
<1>2. DOMAIN Pushed(p) = Area(p) /\ Pushed(p) = [i \in Area(p) |-> Pushed(p)[i]]
    BY DEF Pushed
<1>3. Pushed(p) = [i \in Area(p) |-> LET v == Gathers(p, Pushed(p), i)
                                     IN  IF v >= Middle THEN v - White ELSE v]
    BY <1>1, <1>2
<1> QED BY <1>3, Zenon DEF ErrorsSolve

LEMMA ErrorsArePushed ==
    ASSUME NEW p, IsPicture(p)
    PROVE  Errors(p) = Pushed(p)
<1> DEFINE e == Errors(p)
           f == Pushed(p)
<1>1. Errors(p) = CHOOSE g : ErrorsSolve(p, g)
    BY DEF Errors, ErrorsSolve
<1>2. ErrorsSolve(p, e)
    BY <1>1, PushedSolves, Zenon
<1>3. ErrorsSolve(p, f)
    BY PushedSolves, Zenon
<1> HIDE DEF e, f
<1> DEFINE error(g, i) == LET v == Gathers(p, g, i) IN IF v >= Middle THEN v - White ELSE v
<1>4. e = [i \in Area(p) |-> error(e, i)] /\ f = [i \in Area(p) |-> error(f, i)]
    BY <1>2, <1>3, Zenon DEF ErrorsSolve
<1> DEFINE T == {n \in Nat : n \in Area(p) => e[n] = f[n]}
<1>5. ASSUME NEW n \in Nat, \A m \in Nat : m < n => m \in T
      PROVE  n \in T
    <2>1. SUFFICES ASSUME n \in Area(p) PROVE e[n] = f[n]
        OBVIOUS
    <2>2. \A m \in Area(p) : m < n => e[m] = f[m]
        BY <1>5, AreaIsNat
    <2>3. Gathers(p, e, n) = Gathers(p, f, n)
        <3> HIDE DEF T
        <3> QED BY <2>1, <2>2, GathersEarlier
    <2>4. e[n] = error(e, n) /\ f[n] = error(f, n)
        BY <1>4, <2>1, Zenon
    <2> QED BY <2>3, <2>4
<1>6. Nat \subseteq T
    <2> HIDE DEF T
    <2> QED BY <1>5, SetInduction
<1>7. \A i \in Area(p) : e[i] = f[i]
    BY <1>6, AreaIsNat
<1>8. e = [i \in Area(p) |-> e[i]] /\ f = [i \in Area(p) |-> f[i]]
    BY <1>4
<1>9. e = f
    BY <1>7, <1>8
<1> QED BY <1>9 DEF e, f

-----------------------------------------------------------------------------
(* What is drawn, reduced and written belongs together. *)
RasterInv ==
    /\ part = "raster" => source \in Pictures
    /\ mono # Blank => source \in Pictures /\ mono = Monochrome(source)
    /\ file # Blank =>
          /\ source \in Pictures
          /\ mono # Blank => file = EncodeBMP1(mono)
          /\ mono = Blank => file = EncodeBMP1(source)

LEMMA MonochromeLike ==
    ASSUME NEW p, IsPicture(p)
    PROVE  /\ Monochrome(p) \in Like(p)
           /\ p.mode = "floyd_steinberg" =>
                 Monochrome(p).gray =
                     [i \in Area(p) |-> IF Buffers(p)[i][i] >= Middle THEN 255 ELSE 0]
<1> DEFINE value(i) == IF p.mode = "threshold" THEN luma8(p, i) ELSE Buffers(p)[i][i]
           gray == [i \in Area(p) |-> IF value(i) >= Middle THEN 255 ELSE 0]
<1>1. Monochrome(p) = [p EXCEPT !.gray = gray]
    BY DEF Monochrome
<1>2. gray \in [Area(p) -> 0..255]
    <2> HIDE DEF value
    <2> QED OBVIOUS
<1>3. p.mode = "floyd_steinberg" =>
          gray = [i \in Area(p) |-> IF Buffers(p)[i][i] >= Middle THEN 255 ELSE 0]
    OBVIOUS
<1> HIDE DEF gray
<1>4. p \in Like(p)
    BY DEF IsPicture
<1>5. Monochrome(p) \in Like(p) /\ Monochrome(p).gray = gray
    BY <1>1, <1>2, <1>4 DEF Like
<1> QED BY <1>3, <1>5

LEMMA RasterInvInit ==
    ASSUME Init
    PROVE  RasterInv
BY DEF Init, RasterIdle, RasterInit, RasterInv

LEMMA RasterInvNext ==
    ASSUME RasterInv, [Next]_panelVars
    PROVE  RasterInv'
<1>1. CASE UNCHANGED <<rasterVars, part>>
    BY <1>1 DEF RasterInv, rasterVars
<1>2. CASE part = "raster" /\ part' = part /\ Process
    <2>1. mono' = Monochrome(source) /\ file' = EncodeBMP1(mono') /\ source' = source
        BY <1>2 DEF Process
    <2>2. source \in Pictures
        BY <1>2 DEF RasterInv
    <2>3. mono' # Blank
        <3>1. IsPicture(source) /\ Blank \notin Like(source)
            BY <2>2, PicturesAssumption DEF IsPicture
        <3> QED BY <2>1, <3>1, MonochromeLike
    <2> QED BY <2>1, <2>2, <2>3 DEF RasterInv
<1>3. CASE part = "raster" /\ part' = part /\ EncodeDirectly
    BY <1>3 DEF EncodeDirectly, RasterInv
<1> QED BY <1>1, <1>2, <1>3 DEF Next, panelVars, rasterVars

LEMMA RasterInvHolds == Spec => []RasterInv
<1>1. Init => RasterInv
    BY RasterInvInit
<1>2. RasterInv /\ [Next]_panelVars => RasterInv'
    BY RasterInvNext
<1> QED BY <1>1, <1>2, PTL DEF Spec

(* The loop that pushes errors forward computes what Floyd and Steinberg   *)
(* define, for a picture of any size, also along its edges (diffuse leaves *)
(* out what is outside, and no error goes to a pixel already visited).     *)
THEOREM DitheringExact == Spec => []ErrorsArrive
<1>1. RasterInv => ErrorsArrive
    <2> SUFFICES ASSUME RasterInv, mono # Blank, source.mode = "floyd_steinberg",
                        NEW i \in Area(source)
                 PROVE  mono.gray[i] =
                            (IF Gathers(source, Errors(source), i) >= Middle THEN 255 ELSE 0)
        BY Zenon DEF ErrorsArrive
    <2>1. source \in Pictures /\ mono = Monochrome(source)
        BY DEF RasterInv
    <2>2. IsPicture(source)
        BY <2>1, PicturesAssumption DEF IsPicture
    <2>3. mono.gray[i] = IF Buffers(source)[i][i] >= Middle THEN 255 ELSE 0
        <3>1. \A j \in Area(source) :
                  Monochrome(source).gray[j] = IF Buffers(source)[j][j] >= Middle THEN 255 ELSE 0
            BY <2>2, MonochromeLike
        <3> QED BY <2>1, <3>1, Zenon
    <2>4. Buffers(source)[i][i] = Gathers(source, Errors(source), i)
        BY <2>2, BuffersReceive, ErrorsArePushed, Zenon
    <2> QED BY <2>3, <2>4, Zenon
<1> QED BY <1>1, RasterInvHolds, PTL

-----------------------------------------------------------------------------
LEMMA Powers ==
    /\ 2 ^ 0 = 1 /\ 2 ^ 1 = 2 /\ 2 ^ 2 = 4 /\ 2 ^ 3 = 8
    /\ 2 ^ 4 = 16 /\ 2 ^ 5 = 32 /\ 2 ^ 6 = 64 /\ 2 ^ 7 = 128
OBVIOUS

(* A byte of the file is eight pixels, the leftmost one first. *)
LEMMA PackedBits ==
    ASSUME NEW p, NEW y, NEW k \in Nat, NEW n \in 0..7
    PROVE  (PackedByte(p, y, k) \div 2 ^ (7 - n)) % 2 = BitAt(p, y, 8 * k + n)
<1> DEFINE bit(m) == BitAt(p, y, 8 * k + m)
           byte == PackedByte(p, y, k)
<1>1. \A m : bit(m) \in 0..1
    BY DEF BitAt
<1>2. byte = 128 * bit(0) + 64 * bit(1) + 32 * bit(2) + 16 * bit(3) + 8 * bit(4)
             + 4 * bit(5) + 2 * bit(6) + bit(7)
    BY DEF PackedByte
<1> HIDE DEF bit, byte
<1>3. /\ (byte \div 128) % 2 = bit(0) /\ (byte \div 64) % 2 = bit(1)
      /\ (byte \div 32) % 2 = bit(2) /\ (byte \div 16) % 2 = bit(3)
      /\ (byte \div 8) % 2 = bit(4) /\ (byte \div 4) % 2 = bit(5)
      /\ (byte \div 2) % 2 = bit(6) /\ (byte \div 1) % 2 = bit(7)
    <2> DEFINE b0 == bit(0)  b1 == bit(1)  b2 == bit(2)  b3 == bit(3)
               b4 == bit(4)  b5 == bit(5)  b6 == bit(6)  b7 == bit(7)
    <2>1. /\ b0 \in 0..1 /\ b1 \in 0..1 /\ b2 \in 0..1 /\ b3 \in 0..1
          /\ b4 \in 0..1 /\ b5 \in 0..1 /\ b6 \in 0..1 /\ b7 \in 0..1
        BY <1>1, Zenon
    <2>2. byte = 128 * b0 + 64 * b1 + 32 * b2 + 16 * b3 + 8 * b4 + 4 * b5 + 2 * b6 + b7
        BY <1>2, Zenon
    <2> HIDE DEF b0, b1, b2, b3, b4, b5, b6, b7
    <2>3. /\ (byte \div 128) % 2 = b0 /\ (byte \div 64) % 2 = b1
          /\ (byte \div 32) % 2 = b2 /\ (byte \div 16) % 2 = b3
          /\ (byte \div 8) % 2 = b4 /\ (byte \div 4) % 2 = b5
          /\ (byte \div 2) % 2 = b6 /\ (byte \div 1) % 2 = b7
        BY <2>1, <2>2
    <2> QED BY <2>3, Zenon DEF b0, b1, b2, b3, b4, b5, b6, b7
<1>4. n \in {0, 1, 2, 3, 4, 5, 6, 7}
    OBVIOUS
<1>5. /\ 7 - 0 = 7 /\ 7 - 1 = 6 /\ 7 - 2 = 5 /\ 7 - 3 = 4
      /\ 7 - 4 = 3 /\ 7 - 5 = 2 /\ 7 - 6 = 1 /\ 7 - 7 = 0
    OBVIOUS
<1>6. (byte \div 2 ^ (7 - n)) % 2 = bit(n)
    <2>1. ASSUME n = 0 PROVE (byte \div 2 ^ (7 - n)) % 2 = bit(n)
        <3>1. 2 ^ (7 - n) = 128
            BY <1>5, <2>1, Powers, Zenon
        <3> QED BY <1>3, <2>1, <3>1, Zenon
    <2>2. ASSUME n = 1 PROVE (byte \div 2 ^ (7 - n)) % 2 = bit(n)
        <3>1. 2 ^ (7 - n) = 64
            BY <1>5, <2>2, Powers, Zenon
        <3> QED BY <1>3, <2>2, <3>1, Zenon
    <2>3. ASSUME n = 2 PROVE (byte \div 2 ^ (7 - n)) % 2 = bit(n)
        <3>1. 2 ^ (7 - n) = 32
            BY <1>5, <2>3, Powers, Zenon
        <3> QED BY <1>3, <2>3, <3>1, Zenon
    <2>4. ASSUME n = 3 PROVE (byte \div 2 ^ (7 - n)) % 2 = bit(n)
        <3>1. 2 ^ (7 - n) = 16
            BY <1>5, <2>4, Powers, Zenon
        <3> QED BY <1>3, <2>4, <3>1, Zenon
    <2>5. ASSUME n = 4 PROVE (byte \div 2 ^ (7 - n)) % 2 = bit(n)
        <3>1. 2 ^ (7 - n) = 8
            BY <1>5, <2>5, Powers, Zenon
        <3> QED BY <1>3, <2>5, <3>1, Zenon
    <2>6. ASSUME n = 5 PROVE (byte \div 2 ^ (7 - n)) % 2 = bit(n)
        <3>1. 2 ^ (7 - n) = 4
            BY <1>5, <2>6, Powers, Zenon
        <3> QED BY <1>3, <2>6, <3>1, Zenon
    <2>7. ASSUME n = 6 PROVE (byte \div 2 ^ (7 - n)) % 2 = bit(n)
        <3>1. 2 ^ (7 - n) = 2
            BY <1>5, <2>7, Powers, Zenon
        <3> QED BY <1>3, <2>7, <3>1, Zenon
    <2>8. ASSUME n = 7 PROVE (byte \div 2 ^ (7 - n)) % 2 = bit(n)
        <3>1. 2 ^ (7 - n) = 1
            BY <1>5, <2>8, Powers, Zenon
        <3> QED BY <1>3, <2>8, <3>1, Zenon
    <2> QED BY <1>4, <2>1, <2>2, <2>3, <2>4, <2>5, <2>6, <2>7, <2>8, Zenon
<1> QED BY <1>6 DEF bit, byte

LEMMA RowStride ==
    ASSUME NEW w \in Nat, w > 0
    PROVE  /\ rowStride(w) \in Nat /\ rowStride(w) > 0 /\ rowStride(w) % 4 = 0
           /\ 8 * rowStride(w) >= w /\ 8 * (rowStride(w) - 4) < w
<1> DEFINE k == (w + 31) \div 32
<1>1. k \in Nat /\ 32 * k <= w + 31 /\ w + 31 < 32 * k + 32
    OBVIOUS
<1>2. rowStride(w) = k * 4
    BY DEF rowStride
<1> HIDE DEF k
<1> QED BY <1>1, <1>2

(* A reader finds a picture's bits where the format has them. *)
LEMMA FileShows ==
    ASSUME NEW p, IsPicture(p), NEW f, f = EncodeBMP1(p)
    PROVE  LET stride == f.dataSize \div f.height
           IN  /\ stride % 4 = 0 /\ 8 * stride >= p.width /\ 8 * (stride - 4) < p.width
               /\ f.fileSize = 62 + Cardinality(DOMAIN f.data)
               /\ f.width = p.width /\ f.height = p.height
               /\ \A x \in 0..(p.width - 1), y \in 0..(p.height - 1) :
                     BitOf(f, x, y) = (IF p.gray[y * p.width + x] >= 128 THEN 1 ELSE 0)
<1> DEFINE w == p.width
           h == p.height
           s == rowStride(p.width)
           size == s * h
           data == [n \in 0..(size - 1) |-> PackedByte(p, h - 1 - n \div s, n % s)]
<1>1. w \in Nat /\ w > 0 /\ h \in Nat /\ h > 0 /\ p.gray \in [Area(p) -> 0..255]
    BY DEF IsPicture, Like
<1>2. s \in Nat /\ s > 0 /\ s % 4 = 0 /\ 8 * s >= w /\ 8 * (s - 4) < w
    BY <1>1, RowStride, Zenon
<1>3. /\ f.fileSize = pixelOffset + size /\ f.width = w /\ f.height = h
      /\ f.dataSize = size /\ f.data = data
    BY DEF EncodeBMP1
<1> HIDE DEF s, data
<1>4. size \in Nat /\ size \div h = s
    <2> HIDE DEF w, h
    <2> QED BY <1>1, <1>2
<1>5. DOMAIN f.data = 0..(size - 1) /\ f.fileSize = 62 + size
    BY <1>3, <1>4 DEF pixelOffset, data
<1>6. Cardinality(0..(size - 1)) = size
    <2> HIDE DEF size
    <2>1. 0..(size - 1) = {} => size = 0
        BY <1>4
    <2> QED BY <1>4, FS_Interval
<1>7. ASSUME NEW x \in 0..(w - 1), NEW y \in 0..(h - 1)
      PROVE  BitOf(f, x, y) = (IF p.gray[y * w + x] >= 128 THEN 1 ELSE 0)
    <2> DEFINE k == x \div 8
               r == x % 8
               n == (h - 1 - y) * s + k
    <2>1. k \in Nat /\ k < s /\ r \in 0..7 /\ x = 8 * k + r
        BY <1>1, <1>2
    <2>2. h - 1 - y \in 0..(h - 1) /\ k \in 0..(s - 1)
        BY <1>1, <1>2, <2>1
    <2>3. n \in 0..(size - 1) /\ n \div s = h - 1 - y /\ n % s = k
        <3> DEFINE v == h - 1 - y
        <3>1. v \in Nat /\ v + 1 <= h
            BY <1>1, <2>2
        <3> HIDE DEF v, k, w, h
        <3>2. (v * s + k) \div s = v /\ (v * s + k) % s = k
            BY <1>2, <2>1, <3>1
        <3>3. v * s \in Nat /\ v * s + s <= h * s
            <4>1. (v + 1) * s <= h * s
                BY <1>1, <1>2, <3>1
            <4>2. (v + 1) * s = v * s + s /\ v * s \in Nat
                BY <1>2, <3>1
            <4> QED BY <4>1, <4>2
        <3>4. h * s = s * h
            BY <1>1, <1>2
        <3>5. v * s + k \in 0..(s * h - 1)
            BY <1>1, <1>2, <1>4, <2>1, <3>3, <3>4
        <3> QED BY <3>2, <3>5, Zenon DEF v
    <2>4. f.data[n] = PackedByte(p, h - 1 - n \div s, n % s)
        BY <1>3, <2>3 DEF data
    <2>5. h - 1 - (h - 1 - y) = y
        BY <1>1
    <2>6. f.data[n] = PackedByte(p, y, k)
        BY <2>3, <2>4, <2>5, Zenon
    <2>7. BitOf(f, x, y) = (f.data[n] \div 2 ^ (7 - r)) % 2
        BY <1>3, <1>4, Zenon DEF BitOf
    <2>8. BitOf(f, x, y) = BitAt(p, y, 8 * k + r)
        <3> HIDE DEF k, r, n
        <3> QED BY <2>1, <2>6, <2>7, PackedBits, Zenon
    <2>9. y * w + x \in Area(p)
        BY PixelAt
    <2> DEFINE g == p.gray[y * w + x]
    <2>10. g \in 0..255
        BY <1>1, <2>9
    <2>11. BitAt(p, y, x) = IF isWhite(g) THEN 1 ELSE 0
        <3>1. x < p.width
            BY <1>1
        <3> QED BY <3>1, Zenon DEF BitAt
    <2> HIDE DEF g
    <2>12. isWhite(g) <=> g >= 128
        BY <2>10 DEF isWhite
    <2>13. 8 * k + r = x
        BY <2>1, Zenon
    <2> QED BY <2>8, <2>11, <2>12, <2>13, Zenon DEF g
<1>8. f.dataSize \div f.height = s
    BY <1>3, <1>4, Zenon
<1> QED BY <1>2, <1>3, <1>5, <1>6, <1>7, <1>8, Zenon

(* A reader of the file finds in it the reduced picture, or, for the       *)
(* placeholder, the drawn one: rows of the least multiple of four bytes    *)
(* from the bottom up, the leftmost pixel in the most significant bit      *)
(* (EncodeBMP1), for pictures of any width and height.                     *)
THEOREM FileReadable == Spec => []FileShowsPicture
<1>1. RasterInv => FileShowsPicture
    <2> SUFFICES ASSUME RasterInv, file # Blank
                 PROVE  FileShowsPicture
        BY DEF FileShowsPicture
    <2> DEFINE p == IF mono # Blank THEN mono ELSE source
    <2>1. IsPicture(source) /\ file = EncodeBMP1(p)
        BY PicturesAssumption DEF RasterInv, IsPicture
    <2>2. IsPicture(p)
        <3>1. CASE mono = Blank
            BY <2>1, <3>1
        <3>2. CASE mono # Blank
            <4>1. p = Monochrome(source) /\ p \in Like(source)
                BY <2>1, <3>2, MonochromeLike DEF RasterInv
            <4> HIDE DEF p
            <4>2. p.width = source.width /\ p.height = source.height
                BY <4>1 DEF Like
            <4>3. Like(p) = Like(source)
                BY <4>2 DEF Like, Area
            <4> QED BY <2>1, <4>1, <4>2, <4>3 DEF IsPicture
        <3> QED BY <3>1, <3>2
    <2> HIDE DEF p
    <2>3. LET stride == file.dataSize \div file.height
          IN  /\ stride % 4 = 0 /\ 8 * stride >= p.width /\ 8 * (stride - 4) < p.width
              /\ file.fileSize = 62 + Cardinality(DOMAIN file.data)
              /\ file.width = p.width /\ file.height = p.height
              /\ \A x \in 0..(p.width - 1), y \in 0..(p.height - 1) :
                    BitOf(file, x, y) = (IF p.gray[y * p.width + x] >= 128 THEN 1 ELSE 0)
        BY <2>1, <2>2, FileShows, ZenonT(30)
    <2> QED BY <2>3, Zenon DEF FileShowsPicture, p
<1> QED BY <1>1, RasterInvHolds, PTL
=============================================================================

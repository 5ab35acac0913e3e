---------------------------- MODULE DecodeProofs ----------------------------
(***************************************************************************)
(* What the decoders make of a text, for any content, any encodings around *)
(* it and any limits: all of what is inside when the text is whole, and    *)
(* never more than there is inside when it was cut.                        *)
(***************************************************************************)
EXTENDS Decode, Extremes, SequenceTheorems, TLAPS

-----------------------------------------------------------------------------
\* ---- one encoding ----

\* The length of n characters of w bytes each.
Wrap(enc, n, w) == IF enc = "json" THEN Encoded(enc, n) ELSE Encoded(enc, n * w)

LEMMA EncodedIs ==
  ASSUME NEW n
  PROVE  /\ Encoded("base64", n) = (4 * n + 2) \div 3
         /\ Encoded("hex", n) = 2 * n
         /\ Encoded("url", n) = 3 * n
         /\ Encoded("json", n) = 6 * n
BY DEF Encoded

LEMMA WholeIs ==
  ASSUME NEW l
  PROVE  /\ Whole("base64", l) <=> l % 4 # 1
         /\ Whole("hex", l) <=> l % 2 = 0
         /\ Whole("url", l) <=> l % 3 = 0
         /\ Whole("json", l) <=> l % 6 = 0
BY DEF Whole

LEMMA BytesInIs ==
  ASSUME NEW l, NEW w
  PROVE  /\ BytesIn("base64", l, w) = (3 * l) \div 4
         /\ BytesIn("hex", l, w) = l \div 2
         /\ BytesIn("url", l, w) = l \div 3
         /\ BytesIn("json", l, w) = (l \div 6) * w
BY DEF BytesIn

LEMMA WrapIs ==
  ASSUME NEW n \in Nat, NEW w \in Nat \ {0}
  PROVE  /\ n * w \in Nat
         /\ Wrap("base64", n, w) = (4 * (n * w) + 2) \div 3
         /\ Wrap("hex", n, w) = 2 * (n * w)
         /\ Wrap("url", n, w) = 3 * (n * w)
         /\ Wrap("json", n, w) = 6 * n
         /\ \A enc \in Encodings : Wrap(enc, n, w) \in Nat
<1>1. n * w \in Nat
  OBVIOUS
<1>2. /\ Wrap("base64", n, w) = (4 * (n * w) + 2) \div 3
      /\ Wrap("hex", n, w) = 2 * (n * w)
      /\ Wrap("url", n, w) = 3 * (n * w)
      /\ Wrap("json", n, w) = 6 * n
  BY EncodedIs DEF Wrap
<1>3. \A m \in Nat : (4 * m + 2) \div 3 \in Nat /\ 2 * m \in Nat /\ 3 * m \in Nat /\ 6 * m \in Nat
  OBVIOUS
<1> QED
  BY <1>1, <1>2, <1>3 DEF Encodings

\* A text that is encoded whole decodes to all of it.
LEMMA UnwrapExact ==
  ASSUME NEW n \in Nat, NEW w \in Nat \ {0}, NEW enc \in Encodings
  PROVE  /\ Whole(enc, Wrap(enc, n, w))
         /\ BytesIn(enc, Wrap(enc, n, w), w) = n * w
<1>1. n * w \in Nat
  OBVIOUS
<1>2. ASSUME NEW m \in Nat
      PROVE  /\ ((4 * m + 2) \div 3) % 4 # 1 /\ (3 * ((4 * m + 2) \div 3)) \div 4 = m
             /\ (2 * m) % 2 = 0 /\ (2 * m) \div 2 = m
             /\ (3 * m) % 3 = 0 /\ (3 * m) \div 3 = m
             /\ (6 * m) % 6 = 0 /\ (6 * m) \div 6 = m
  OBVIOUS
<1>3. CASE enc = "base64"
  <2>1. PICK m \in Nat : m = n * w
    BY <1>1
  <2>2. Wrap(enc, n, w) = (4 * m + 2) \div 3
    BY <1>3, <2>1, WrapIs
  <2>3. ((4 * m + 2) \div 3) % 4 # 1 /\ (3 * ((4 * m + 2) \div 3)) \div 4 = m
    BY <1>2, <2>1
  <2>4. Whole(enc, (4 * m + 2) \div 3)
    BY <1>3, <2>3, WholeIs, Zenon
  <2>5. BytesIn(enc, (4 * m + 2) \div 3, w) = (3 * ((4 * m + 2) \div 3)) \div 4
    BY <1>3, BytesInIs, Zenon
  <2> QED
    BY <2>1, <2>2, <2>3, <2>4, <2>5, Zenon
<1>4. CASE enc = "hex"
  BY <1>1, <1>2, <1>4, WrapIs, WholeIs, BytesInIs
<1>5. CASE enc = "url"
  BY <1>1, <1>2, <1>5, WrapIs, WholeIs, BytesInIs
<1>6. CASE enc = "json"
  BY <1>2, <1>6, WrapIs, WholeIs, BytesInIs
<1> QED
  BY <1>3, <1>4, <1>5, <1>6 DEF Encodings

\* A shorter one, to no more than that.
LEMMA UnwrapBelow ==
  ASSUME NEW n \in Nat, NEW w \in Nat \ {0}, NEW enc \in Encodings,
         NEW l \in Nat, l <= Wrap(enc, n, w)
  PROVE  BytesIn(enc, l, w) \in Nat /\ BytesIn(enc, l, w) <= n * w
<1>1. n * w \in Nat
  OBVIOUS
<1>2. ASSUME NEW m \in Nat
      PROVE  /\ (3 * l) \div 4 \in Nat /\ (l <= (4 * m + 2) \div 3 => (3 * l) \div 4 <= m)
             /\ l \div 2 \in Nat /\ (l <= 2 * m => l \div 2 <= m)
             /\ l \div 3 \in Nat /\ (l <= 3 * m => l \div 3 <= m)
             /\ l \div 6 \in Nat /\ (l <= 6 * m => l \div 6 <= m)
  OBVIOUS
<1>3. CASE enc = "base64"
  <2>1. PICK m \in Nat : m = n * w
    BY <1>1
  <2>2. l <= (4 * m + 2) \div 3
    BY <1>3, <2>1, WrapIs
  <2>3. BytesIn(enc, l, w) = (3 * l) \div 4
    BY <1>3, BytesInIs, Zenon
  <2> QED
    BY <1>2, <2>1, <2>2, <2>3
<1>4. CASE enc = "hex"
  <2>1. PICK m \in Nat : m = n * w
    BY <1>1
  <2>2. l <= 2 * m
    BY <1>4, <2>1, WrapIs
  <2>3. BytesIn(enc, l, w) = l \div 2
    BY <1>4, BytesInIs, Zenon
  <2> QED
    BY <1>2, <2>1, <2>2, <2>3
<1>5. CASE enc = "url"
  <2>1. PICK m \in Nat : m = n * w
    BY <1>1
  <2>2. l <= 3 * m
    BY <1>5, <2>1, WrapIs
  <2>3. BytesIn(enc, l, w) = l \div 3
    BY <1>5, BytesInIs, Zenon
  <2> QED
    BY <1>2, <2>1, <2>2, <2>3
<1>6. CASE enc = "json"
  <2>1. PICK q \in Nat : q = l \div 6
    BY <1>2
  <2>2. q <= n
    BY <1>2, <1>6, <2>1, WrapIs
  <2>3. PICK d \in Nat : n = q + d
    <3>1. n - q \in Nat /\ n = q + (n - q)
      BY <2>1, <2>2
    <3> QED
      BY <3>1
  <2>4. n * w = q * w + d * w /\ q * w \in Nat /\ d * w \in Nat
    BY <2>1, <2>3
  <2>5. q * w <= n * w
    BY <2>4
  <2> QED
    BY <1>6, <2>1, <2>4, <2>5, BytesInIs
<1> QED
  BY <1>3, <1>4, <1>5, <1>6 DEF Encodings

\* The characters that some bytes make.
LEMMA Characters ==
  ASSUME NEW b \in Nat, NEW n \in Nat, NEW w \in Nat \ {0}
  PROVE  /\ b \div w \in Nat
         /\ b <= n * w => b \div w <= n
         /\ b = n * w => b \div w = n /\ b % w = 0
<1>1. PICK q \in Int, r \in Int : q = b \div w /\ r = b % w /\ b = w * q + r /\ 0 <= r /\ r < w
  <2>1. b = w * (b \div w) + (b % w) /\ b % w \in 0..(w - 1) /\ b \div w \in Int
    OBVIOUS
  <2> QED
    BY <2>1
<1>2. ASSUME NEW x \in Int, NEW y \in Int, x < y PROVE w * x + w <= w * y
  <2>1. PICK d \in Nat : y = x + 1 + d
    <3>1. y - (x + 1) \in Nat /\ y = x + 1 + (y - (x + 1))
      BY <1>2
    <3> QED
      BY <3>1
  <2>2. w * y = w * x + w + w * d /\ w * d \in Nat /\ w * x \in Int
    BY <2>1
  <2> QED
    BY <2>2
<1>3. w * q \in Int /\ w * n \in Int /\ n * w = w * n /\ w * 0 = 0 /\ w * (0 - 1) + w = 0
  BY <1>1
<1>4. q \in Nat
  <2>1. q < 0 => w * q + w <= w * 0
    BY <1>1, <1>2
  <2> QED
    BY <1>1, <1>3, <2>1
<1>5. b <= n * w => q <= n
  <2>1. n < q => w * n + w <= w * q
    BY <1>1, <1>2
  <2> QED
    BY <1>1, <1>3, <1>4, <2>1
<1>6. b = n * w => q = n /\ r = 0
  <2>1. q < n => w * q + w <= w * n
    BY <1>1, <1>2
  <2>2. b = n * w => q = n
    BY <1>1, <1>3, <1>4, <1>5, <2>1
  <2> QED
    BY <1>1, <1>3, <2>2
<1> QED
  BY <1>1, <1>4, <1>5, <1>6

-----------------------------------------------------------------------------
\* ---- the length of a text ----

LEMMA EncodedGrows ==
  ASSUME NEW enc \in Encodings, NEW n \in Nat
  PROVE  Encoded(enc, n) \in Nat /\ n <= Encoded(enc, n)
<1>1. /\ (4 * n + 2) \div 3 \in Nat /\ n <= (4 * n + 2) \div 3
      /\ 2 * n \in Nat /\ n <= 2 * n /\ 3 * n \in Nat /\ n <= 3 * n
      /\ 6 * n \in Nat /\ n <= 6 * n
  OBVIOUS
<1> QED
  BY <1>1, EncodedIs DEF Encodings

\* a is the length after each layer, from the inside out.
Lengths(a, layers, part, of) ==
  /\ a[0] = part
  /\ \A k \in 1..Len(layers) :
       a[k] = Encoded(layers[Len(layers) - k + 1],
                      IF k = 1 /\ layers[Len(layers)] # "json" THEN part * Width[of] ELSE a[k - 1])

LEMMA EncodedLenIs ==
  ASSUME NEW layers \in Seq(Encodings), NEW part \in Nat, NEW of, Width[of] \in Nat \ {0}
  PROVE  \E a \in [0..Len(layers) -> Nat \ (0..(part - 1))] :
           Lengths(a, layers, part, of) /\ EncodedLen(layers, part, of) = a[Len(layers)]
<1> DEFINE n == Len(layers)
           S == Nat \ (0..(part - 1))
           In(k, x) == IF k = 1 /\ layers[n] # "json" THEN part * Width[of] ELSE x
           F == [k \in 1..n |-> [x \in S |-> Encoded(layers[n - k + 1], In(k, x))]]
           Is(a) == a = [k \in 0..n |-> IF k = 0 THEN part
                                        ELSE Encoded(layers[n - k + 1], In(k, a[k - 1]))]
<1>1. n \in Nat /\ part \in S
  BY LenProperties
<1>2. ASSUME NEW k \in 1..n, NEW x \in S PROVE Encoded(layers[n - k + 1], In(k, x)) \in S
  <2>1. n - k + 1 \in 1..n
    BY <1>1
  <2>2. layers[n - k + 1] \in Encodings
    BY <2>1, ElementOfSeq
  <2>3. part * Width[of] \in Nat /\ part <= part * Width[of]
    <3>1. PICK w \in Nat : Width[of] = w + 1
      <4>1. Width[of] - 1 \in Nat /\ Width[of] = (Width[of] - 1) + 1
        OBVIOUS
      <4> QED
        BY <4>1
    <3>2. part * (w + 1) = part * w + part /\ part * w \in Nat
      BY <3>1
    <3> QED
      BY <3>1, <3>2
  <2>4. In(k, x) \in Nat /\ part <= In(k, x)
    BY <2>3
  <2> HIDE DEF In
  <2>5. /\ Encoded(layers[n - k + 1], In(k, x)) \in Nat
        /\ In(k, x) <= Encoded(layers[n - k + 1], In(k, x))
    BY <2>2, <2>4, EncodedGrows
  <2> QED
    BY <2>4, <2>5
<1>3. F \in [1..n -> [S -> S]]
  <2> HIDE DEF In, S
  <2> QED
    BY <1>2
<1>4. PICK g \in [0..n -> S] : g[0] = part /\ \A k \in 1..n : g[k] = F[k][g[k - 1]]
  <2> HIDE DEF F, S, n
  <2> QED
    <3>1. n \in Nat /\ part \in S
      BY <1>1
    <3>2. Makes(F, n, S)
      BY <1>3 DEF Makes
    <3>3. PICK g : Follow(g, part, F, n, S)
      BY <3>1, <3>2, Recursion
    <3> QED
      BY <3>3 DEF Follow
<1>5. \A k \in 1..n : g[k] = Encoded(layers[n - k + 1], In(k, g[k - 1]))
  <2> SUFFICES ASSUME NEW k \in 1..n PROVE g[k] = Encoded(layers[n - k + 1], In(k, g[k - 1]))
    OBVIOUS
  <2>1. k - 1 \in 0..n
    BY <1>1
  <2>2. g[k - 1] \in S
    BY <1>4, <2>1
  <2> HIDE DEF In, S
  <2> QED
    BY <1>4, <2>2
<1>6. Is(g)
  <2> HIDE DEF In, S
  <2>1. g = [k \in 0..n |-> g[k]]
    BY <1>4
  <2>2. \A k \in 0..n : g[k] = IF k = 0 THEN part ELSE Encoded(layers[n - k + 1], In(k, g[k - 1]))
    <3>1. \A k \in 0..n : k # 0 => k \in 1..n
      BY <1>1
    <3> QED
      BY <1>4, <1>5, <3>1
  <2> HIDE DEF n
  <2> QED
    BY <2>1, <2>2, Zenon
<1>7. PICK f : f = CHOOSE a : Is(a)
  OBVIOUS
<1>8. Is(f)
  <2> HIDE DEF Is
  <2> QED
    BY <1>6, <1>7
<1>9. EncodedLen(layers, part, of) = f[n]
  BY <1>7 DEF EncodedLen
<1>10. f = g
  <2> HIDE DEF In, S
  <2> DEFINE T == {k \in 0..n : f[k] # g[k]}
  <2>1. T = {}
    <3> SUFFICES ASSUME T # {} PROVE FALSE
      OBVIOUS
    <3>1. PICK k \in T : \A j \in T : k <= j
      <4>1. T \subseteq Nat
        BY <1>1
      <4> HIDE DEF T
      <4> QED
        BY <4>1, HasMin
    <3>2. f[k] = IF k = 0 THEN part ELSE Encoded(layers[n - k + 1], In(k, f[k - 1]))
      BY <1>8, <3>1
    <3>3. k # 0
      BY <1>4, <3>1, <3>2
    <3>4. k \in 1..n /\ k - 1 \in 0..n /\ ~(k <= k - 1)
      BY <1>1, <3>1, <3>3
    <3>5. f[k - 1] = g[k - 1]
      BY <3>1, <3>4
    <3> QED
      BY <1>5, <3>1, <3>2, <3>3, <3>4, <3>5
  <2>2. f = [k \in 0..n |-> f[k]] /\ g = [k \in 0..n |-> g[k]]
    BY <1>4, <1>8
  <2>3. \A k \in 0..n : f[k] = g[k]
    BY <2>1
  <2> HIDE DEF T, n
  <2> QED
    BY <2>2, <2>3, Zenon
<1> QED
  <2>1. Lengths(g, layers, part, of)
    BY <1>4, <1>5 DEF Lengths
  <2> QED
    BY <1>4, <1>9, <1>10, <2>1

LEMMA EncodedLenNothing ==
  ASSUME NEW part \in Nat, NEW of, Width[of] \in Nat \ {0}
  PROVE  EncodedLen(<<>>, part, of) = part
<1>1. Len(<<>>) = 0 /\ <<>> \in Seq(Encodings)
  BY EmptySeq
<1>2. \A l \in Seq(Encodings) :
        \E a \in [0..Len(l) -> Nat \ (0..(part - 1))] :
          Lengths(a, l, part, of) /\ EncodedLen(l, part, of) = a[Len(l)]
  BY EncodedLenIs
<1>3. PICK a : Lengths(a, <<>>, part, of) /\ EncodedLen(<<>>, part, of) = a[Len(<<>>)]
  BY <1>1, <1>2, Zenon
<1> QED
  BY <1>1, <1>3 DEF Lengths

LEMMA EncodedLenUnfold ==
  ASSUME NEW layers \in Seq(Encodings), layers # <<>>, NEW part \in Nat, NEW of,
         Width[of] \in Nat \ {0}
  PROVE  EncodedLen(layers, part, of)
           = Wrap(Head(layers), EncodedLen(Tail(layers), part, of),
                  IF Tail(layers) = <<>> THEN Width[of] ELSE 1)
<1> DEFINE n == Len(layers)
           rest == Tail(layers)
<1>1. /\ rest \in Seq(Encodings) /\ Len(rest) = n - 1 /\ n \in Nat \ {0}
      /\ \A i \in 1..(n - 1) : rest[i] = layers[i + 1]
      /\ Head(layers) = layers[1]
  <2>1. /\ rest \in Seq(Encodings) /\ Len(rest) = n - 1
        /\ \A i \in 1..Len(rest) : rest[i] = layers[i + 1]
    BY HeadTailProperties
  <2>2. n \in Nat \ {0}
    BY EmptySeq
  <2> QED
    BY <2>1, <2>2
<1> HIDE DEF rest
<1>2. PICK a \in [0..n -> Nat \ (0..(part - 1))] :
        Lengths(a, layers, part, of) /\ EncodedLen(layers, part, of) = a[n]
  BY EncodedLenIs
<1>3. PICK b \in [0..(n - 1) -> Nat \ (0..(part - 1))] :
        Lengths(b, rest, part, of) /\ EncodedLen(rest, part, of) = b[n - 1]
  <2>1. \E b \in [0..Len(rest) -> Nat \ (0..(part - 1))] :
          Lengths(b, rest, part, of) /\ EncodedLen(rest, part, of) = b[Len(rest)]
    BY <1>1, EncodedLenIs, ZenonT(40)
  <2> QED
    BY <1>1, <2>1, Zenon
<1> HIDE DEF n
<1>4. \A k \in 1..n : a[k] = Encoded(layers[n - k + 1],
                IF k = 1 /\ layers[n] # "json" THEN part * Width[of] ELSE a[k - 1])
  BY <1>2 DEF Lengths, n
<1>5. \A k \in 1..(n - 1) : b[k] = Encoded(layers[n - k + 1],
                IF k = 1 /\ layers[n] # "json" THEN part * Width[of] ELSE b[k - 1])
  <2> SUFFICES ASSUME NEW k \in 1..(n - 1)
               PROVE  b[k] = Encoded(layers[n - k + 1],
                        IF k = 1 /\ layers[n] # "json" THEN part * Width[of] ELSE b[k - 1])
    OBVIOUS
  <2>1. b[k] = Encoded(rest[(n - 1) - k + 1],
                 IF k = 1 /\ rest[n - 1] # "json" THEN part * Width[of] ELSE b[k - 1])
    BY <1>1, <1>3 DEF Lengths
  <2>2. (n - 1) - k + 1 \in 1..(n - 1) /\ (n - 1) - k + 1 + 1 = n - k + 1 /\ n - 1 \in 1..(n - 1)
        /\ n - 1 + 1 = n
    BY <1>1
  <2>3. rest[(n - 1) - k + 1] = layers[n - k + 1] /\ rest[n - 1] = layers[n]
    BY <1>1, <2>2, Zenon
  <2> QED
    BY <2>1, <2>3, Zenon
<1>6. a[0] = part /\ b[0] = part
  BY <1>2, <1>3 DEF Lengths
<1> DEFINE T == {k \in 0..(n - 1) : a[k] # b[k]}
<1>7. T = {}
  <2> SUFFICES ASSUME T # {} PROVE FALSE
    OBVIOUS
  <2>1. PICK k \in T : \A j \in T : k <= j
    <3>1. T \subseteq Nat
      BY <1>1
    <3> HIDE DEF T
    <3> QED
      BY <3>1, HasMin
  <2>2. k # 0
    BY <1>6, <2>1
  <2>3. k \in 1..n /\ k \in 1..(n - 1) /\ k - 1 \in 0..(n - 1) /\ ~(k <= k - 1)
    BY <1>1, <2>1, <2>2
  <2>4. a[k - 1] = b[k - 1]
    BY <2>1, <2>3
  <2>5. a[k] = b[k]
    BY <1>4, <1>5, <2>3, <2>4, Zenon
  <2> QED
    BY <2>1, <2>5
<1>8. n - 1 \in 0..(n - 1) /\ n \in 1..n /\ n - n + 1 = 1
  BY <1>1
<1>9. a[n - 1] = b[n - 1] /\ b[n - 1] \in Nat
  BY <1>3, <1>7, <1>8
<1>10. a[n] = Encoded(layers[1], IF n = 1 /\ layers[n] # "json" THEN part * Width[of] ELSE b[n - 1])
  BY <1>4, <1>8, <1>9, Zenon
<1>11. rest = <<>> <=> n = 1
  <2>1. rest # <<>> => n - 1 # 0
    BY <1>1, EmptySeq
  <2>2. rest = <<>> => n - 1 = 0
    BY <1>1
  <2> QED
    BY <1>1, <2>1, <2>2
<1>12. a[n] = Wrap(layers[1], b[n - 1], IF rest = <<>> THEN Width[of] ELSE 1)
  <2>1. CASE n = 1
    <3>1. b[n - 1] = part /\ layers[n] = layers[1] /\ rest = <<>>
      BY <1>6, <1>11, <2>1
    <3> QED
      BY <1>10, <2>1, <3>1 DEF Wrap
  <2>2. CASE n # 1
    <3>1. a[n] = Encoded(layers[1], b[n - 1]) /\ rest # <<>> /\ b[n - 1] * 1 = b[n - 1]
      BY <1>9, <1>10, <1>11, <2>2
    <3> QED
      BY <3>1 DEF Wrap
  <2> QED
    BY <2>1, <2>2
<1> QED
  BY <1>1, <1>2, <1>3, <1>12 DEF rest

LEMMA EncodedLenBounds ==
  ASSUME NEW layers \in Seq(Encodings), NEW part \in Nat, NEW of, Width[of] \in Nat \ {0}
  PROVE  EncodedLen(layers, part, of) \in Nat /\ part <= EncodedLen(layers, part, of)
<1>1. PICK a \in [0..Len(layers) -> Nat \ (0..(part - 1))] : EncodedLen(layers, part, of) = a[Len(layers)]
  BY EncodedLenIs
<1>2. Len(layers) \in 0..Len(layers)
  BY LenProperties
<1>3. a[Len(layers)] \in Nat \ (0..(part - 1))
  BY <1>1, <1>2
<1> QED
  BY <1>1, <1>3

-----------------------------------------------------------------------------
\* ---- one step of _decode_recursive ----

Texts(C) == [layers : Seq(Encodings), len : Nat, of : C, more : BOOLEAN]

\* The same text with other layers and another length.
Within(t, layers, len) == [layers |-> layers, len |-> len, of |-> t.of, more |-> t.more]

CharWidth(layers, of) == IF layers = <<>> THEN Width[of] ELSE 1

LEMMA TextIs ==
  ASSUME NEW C, NEW t \in Texts(C)
  PROVE  /\ t.layers \in Seq(Encodings) /\ t.len \in Nat /\ t.of \in C /\ t.more \in BOOLEAN
         /\ t = Within(t, t.layers, t.len)
BY DEF Texts, Within

LEMMA WithinIs ==
  ASSUME NEW C, NEW t \in Texts(C), NEW layers \in Seq(Encodings), NEW len \in Nat
  PROVE  /\ Within(t, layers, len) \in Texts(C)
         /\ Within(t, layers, len).layers = layers /\ Within(t, layers, len).len = len
         /\ Within(t, layers, len).of = t.of /\ Within(t, layers, len).more = t.more
BY DEF Texts, Within

LEMMA ExceptIs ==
  ASSUME NEW C, NEW t \in Texts(C), NEW x
  PROVE  /\ [t EXCEPT !.layers = x] = Within(t, x, t.len)
         /\ [t EXCEPT !.len = x] = Within(t, t.layers, x)
BY DEF Texts, Within

LEMMA BytesInNat ==
  ASSUME NEW enc \in Encodings, NEW l \in Nat, NEW w \in Nat
  PROVE  BytesIn(enc, l, w) \in Nat
<1>1. (3 * l) \div 4 \in Nat /\ l \div 2 \in Nat /\ l \div 3 \in Nat /\ l \div 6 \in Nat
  OBVIOUS
<1>2. (l \div 6) * w \in Nat
  BY <1>1
<1> QED
  BY <1>1, <1>2, BytesInIs DEF Encodings

\* What a decoder gives, in terms of Within.
LEMMA DecodedIs ==
  ASSUME NEW C, Width \in [C -> Nat \ {0}], NEW t \in Texts(C), t.layers # <<>>,
         NEW w, w = CharWidth(Tail(t.layers), t.of), NEW b, b = BytesIn(Head(t.layers), t.len, w)
  PROVE  Decoded(t) = IF Whole(Head(t.layers), t.len) /\ b % w = 0 /\ b \div w > 0
                      THEN {Within(t, Tail(t.layers), b \div w)} ELSE {}
<1> DEFINE inside == [t EXCEPT !.layers = Tail(t.layers)]
<1>1. Tail(t.layers) \in Seq(Encodings) /\ t.len \in Nat
  BY TextIs, HeadTailProperties
<1>2. \A y \in Seq(Encodings), l \in Nat :
        /\ Within(t, y, l) \in Texts(C)
        /\ Within(t, y, l).layers = y /\ Within(t, y, l).len = l
        /\ Within(t, y, l).of = t.of /\ Within(t, y, l).more = t.more
  BY WithinIs
<1>3. inside = Within(t, Tail(t.layers), t.len)
  BY ExceptIs
<1> HIDE DEF inside
<1>4. inside \in Texts(C) /\ inside.layers = Tail(t.layers) /\ inside.of = t.of /\ inside.more = t.more
  BY <1>1, <1>2, <1>3, Zenon
<1>5. CharBytes(inside) = w
  BY <1>4 DEF CharBytes, CharWidth
<1>6. ASSUME NEW c PROVE [inside EXCEPT !.len = c] = Within(t, Tail(t.layers), c)
  <2>1. [inside EXCEPT !.len = c] = Within(inside, inside.layers, c)
    BY <1>4, ExceptIs
  <2> QED
    BY <1>4, <2>1 DEF Within
<1>7. Decoded(t) = LET bytes == BytesIn(Head(t.layers), t.len, CharBytes(inside))
                       chars == bytes \div CharBytes(inside)
                   IN IF Whole(Head(t.layers), t.len) /\ bytes % CharBytes(inside) = 0 /\ chars > 0
                      THEN {[inside EXCEPT !.len = chars]} ELSE {}
  BY DEF Decoded, inside
<1> QED
  BY <1>5, <1>6, <1>7

LEMMA CharWidthIs ==
  ASSUME NEW C, Width \in [C -> Nat \ {0}], NEW of \in C, NEW layers
  PROVE  CharWidth(layers, of) \in Nat \ {0}
BY DEF CharWidth

\* The decoders find all of what is inside a whole text.
LEMMA DecodesAll ==
  ASSUME NEW C, Width \in [C -> Nat \ {0}], NEW t \in Texts(C), t.layers # <<>>,
         NEW part \in Nat \ {0}, t.len = EncodedLen(t.layers, part, t.of)
  PROVE  Within(t, Tail(t.layers), EncodedLen(Tail(t.layers), part, t.of)) \in Decoded(t)
<1>1. t.layers \in Seq(Encodings) /\ t.of \in C /\ t.len \in Nat
  BY TextIs
<1>2. Width[t.of] \in Nat \ {0}
  BY <1>1
<1>3. Head(t.layers) \in Encodings /\ Tail(t.layers) \in Seq(Encodings)
  BY <1>1, HeadTailProperties
<1>4. PICK w \in Nat \ {0} : w = CharWidth(Tail(t.layers), t.of)
  BY <1>1, CharWidthIs
<1>5. PICK n \in Nat : n = EncodedLen(Tail(t.layers), part, t.of)
  BY <1>2, <1>3, EncodedLenBounds
<1>6. part <= n
  BY <1>2, <1>3, <1>5, EncodedLenBounds
<1>7. t.len = Wrap(Head(t.layers), n, w)
  <2>1. t.len = Wrap(Head(t.layers), EncodedLen(Tail(t.layers), part, t.of),
                      IF Tail(t.layers) = <<>> THEN Width[t.of] ELSE 1)
    BY <1>1, <1>2, EncodedLenUnfold
  <2> QED
    BY <1>4, <1>5, <2>1 DEF CharWidth
<1>8. Whole(Head(t.layers), t.len) /\ BytesIn(Head(t.layers), t.len, w) = n * w
  BY <1>3, <1>4, <1>5, <1>7, UnwrapExact
<1>9. PICK b \in Nat : b = n * w
  BY <1>4, <1>5
<1>10. b \div w = n /\ b % w = 0
  BY <1>4, <1>5, <1>9, Characters
<1>11. n > 0
  BY <1>5, <1>6
<1>12. Decoded(t) = {Within(t, Tail(t.layers), n)}
  <2>1. b = BytesIn(Head(t.layers), t.len, w)
    BY <1>8, <1>9
  <2>2. Decoded(t) = IF Whole(Head(t.layers), t.len) /\ b % w = 0 /\ b \div w > 0
                     THEN {Within(t, Tail(t.layers), b \div w)} ELSE {}
    BY <1>4, <2>1, DecodedIs
  <2> QED
    BY <1>8, <1>10, <1>11, <2>2
<1> QED
  BY <1>5, <1>12

\* The text d is inside t, with one layer less and no more than t has of it.
Inside(d, t, C) ==
  /\ d \in Texts(C) /\ d.of = t.of /\ d.more = t.more
  /\ t.layers # <<>> /\ d.layers = Tail(t.layers)
  /\ \A part \in Nat : t.len <= EncodedLen(t.layers, part, t.of)
                         => d.len <= EncodedLen(d.layers, part, t.of)

LEMMA DecodesNoMore ==
  ASSUME NEW C, Width \in [C -> Nat \ {0}], NEW t \in Texts(C), NEW d \in Decoded(t)
  PROVE  Inside(d, t, C)
<1>0. t.layers # <<>>
  BY DEF Decoded
<1>1. t.layers \in Seq(Encodings) /\ t.of \in C /\ t.len \in Nat
  BY TextIs
<1>2. Width[t.of] \in Nat \ {0}
  BY <1>1
<1>3. Head(t.layers) \in Encodings /\ Tail(t.layers) \in Seq(Encodings)
  BY <1>0, <1>1, HeadTailProperties
<1>4. PICK w \in Nat \ {0} : w = CharWidth(Tail(t.layers), t.of)
  BY <1>1, CharWidthIs
<1>5. PICK b \in Nat : b = BytesIn(Head(t.layers), t.len, w)
  BY <1>1, <1>3, <1>4, BytesInNat
<1>6. Decoded(t) = IF Whole(Head(t.layers), t.len) /\ b % w = 0 /\ b \div w > 0
                   THEN {Within(t, Tail(t.layers), b \div w)} ELSE {}
  BY <1>0, <1>4, <1>5, DecodedIs
<1>7. d = Within(t, Tail(t.layers), b \div w)
  BY <1>6
<1>8. PICK c \in Nat : c = b \div w
  BY <1>4, <1>5, Characters
<1>9. /\ d \in Texts(C) /\ d.of = t.of /\ d.more = t.more
      /\ d.layers = Tail(t.layers) /\ d.len = b \div w
  <2>1. PICK y \in Seq(Encodings) : y = Tail(t.layers)
    BY <1>3
  <2>0. \A l \in Nat, x \in Seq(Encodings) :
          /\ Within(t, x, l) \in Texts(C)
          /\ Within(t, x, l).layers = x /\ Within(t, x, l).len = l
          /\ Within(t, x, l).of = t.of /\ Within(t, x, l).more = t.more
    BY WithinIs
  <2>2. /\ Within(t, y, c) \in Texts(C)
        /\ Within(t, y, c).layers = y /\ Within(t, y, c).len = c
        /\ Within(t, y, c).of = t.of /\ Within(t, y, c).more = t.more
    BY <1>8, <2>0, <2>1, Zenon
  <2>3. d = Within(t, y, c)
    BY <1>7, <1>8, <2>1, Zenon
  <2> QED
    BY <1>8, <2>1, <2>2, <2>3, Zenon
<1>10. ASSUME NEW part \in Nat, t.len <= EncodedLen(t.layers, part, t.of)
       PROVE  d.len <= EncodedLen(Tail(t.layers), part, t.of)
  <2>1. PICK n \in Nat : n = EncodedLen(Tail(t.layers), part, t.of)
    BY <1>2, <1>3, EncodedLenBounds
  <2>2. t.len <= Wrap(Head(t.layers), n, w)
    <3>1. EncodedLen(t.layers, part, t.of)
            = Wrap(Head(t.layers), EncodedLen(Tail(t.layers), part, t.of),
                   IF Tail(t.layers) = <<>> THEN Width[t.of] ELSE 1)
      BY <1>0, <1>1, <1>2, EncodedLenUnfold
    <3> QED
      BY <1>4, <1>10, <2>1, <3>1 DEF CharWidth
  <2>3. b <= n * w
    BY <1>1, <1>3, <1>4, <1>5, <2>1, <2>2, UnwrapBelow
  <2>4. b \div w <= n
    BY <1>4, <1>5, <2>1, <2>3, Characters
  <2> QED
    BY <1>9, <2>1, <2>4
<1> QED
  BY <1>0, <1>9, <1>10 DEF Inside

LEMMA TruncateIs ==
  ASSUME NEW C, NEW t \in Texts(C), NEW max \in Nat
  PROVE  /\ t.len <= max => Truncate(t, max) = t
         /\ \E l \in 0..t.len : Truncate(t, max) = Within(t, t.layers, l)
<1>1. t.len \in Nat /\ t = Within(t, t.layers, t.len)
  BY TextIs
<1>2. ASSUME NEW l PROVE [t EXCEPT !.len = l] = Within(t, t.layers, l)
  BY DEF Texts, Within
<1>3. Truncate(t, max) = t \/ Truncate(t, max) = Within(t, t.layers, Least(t.len, max))
  BY <1>2 DEF Truncate
<1>4. Least(t.len, max) \in 0..t.len /\ (t.len <= max => Least(t.len, max) = t.len)
  BY <1>1 DEF Least
<1>5. t.len <= max => Truncate(t, max) = t
  BY <1>1, <1>3, <1>4, Zenon
<1>6. t.len \in 0..t.len
  BY <1>1
<1> QED
  BY <1>1, <1>3, <1>4, <1>5, <1>6, Zenon

\* What the limits make of a decoded text.
Limits(limits) ==
  /\ limits.max_nesting_depth \in Nat /\ limits.max_candidate_len_bytes \in Nat
  /\ limits.max_expansion_ratio.num \in Nat /\ limits.max_expansion_ratio.den \in Nat \ {0}

LEMMA BoundedIs ==
  ASSUME NEW C, NEW t \in Texts(C), NEW d \in Texts(C), NEW limits, Limits(limits)
  PROVE  /\ \E l \in 0..d.len : Bounded(limits, t, d) = Within(d, d.layers, l)
         /\ /\ d.len * limits.max_expansion_ratio.den <= t.len * limits.max_expansion_ratio.num
            /\ d.len <= limits.max_candidate_len_bytes
            => Bounded(limits, t, d) = d
<1> DEFINE num == limits.max_expansion_ratio.num
           den == limits.max_expansion_ratio.den
           max == limits.max_candidate_len_bytes
           cap == (t.len * num) \div den
<1>1. num \in Nat /\ den \in Nat \ {0} /\ max \in Nat
  BY DEF Limits
<1>2. t.len \in Nat /\ d.len \in Nat
  BY TextIs
<1>3. t.len * num \in Nat /\ d.len * den \in Nat
  BY <1>1, <1>2
<1>4. cap \in Nat
  BY <1>1, <1>3, Characters
<1>5. Least(cap, max) \in Nat
  BY <1>1, <1>4 DEF Least
<1>6. Bounded(limits, t, d) = IF d.len * den > t.len * num THEN Truncate(d, Least(cap, max))
                              ELSE Truncate(d, max)
  BY DEF Bounded
<1> HIDE DEF cap, num, den, max
<1>7. \E l \in 0..d.len : Bounded(limits, t, d) = Within(d, d.layers, l)
  BY <1>1, <1>5, <1>6, TruncateIs
<1>8. ASSUME d.len * den <= t.len * num, d.len <= max PROVE Bounded(limits, t, d) = d
  <2>1. ~(d.len * den > t.len * num)
    BY <1>3, <1>8
  <2>2. Truncate(d, max) = d
    BY <1>1, <1>8, TruncateIs
  <2> QED
    BY <1>6, <2>1, <2>2
<1> QED
  BY <1>7, <1>8 DEF num, den, max

-----------------------------------------------------------------------------
\* ---- expand ----

\* What one more level of decoding makes of a set of texts.
Deeper(limits, X) == UNION {{Bounded(limits, t, d) : d \in Decoded(t)} : t \in X}

\* level is what _decode_recursive has found after each number of decodings.
Levels(level, limits, payload) ==
  /\ level[0] = Tokens(limits, payload)
  /\ \A j \in 1..limits.max_nesting_depth : level[j] = Deeper(limits, level[j - 1])

LEMMA BoundedInside ==
  ASSUME NEW C, Width \in [C -> Nat \ {0}], NEW limits, Limits(limits),
         NEW t \in Texts(C), NEW d \in Decoded(t)
  PROVE  Inside(Bounded(limits, t, d), t, C)
<1>1. Inside(d, t, C)
  BY DecodesNoMore
<1>2. d \in Texts(C)
  BY <1>1 DEF Inside
<1>3. d.layers \in Seq(Encodings) /\ d.len \in Nat
  BY <1>2, TextIs
<1>4. PICK l \in 0..d.len : Bounded(limits, t, d) = Within(d, d.layers, l)
  BY <1>2, BoundedIs
<1>5. PICK e : e = Bounded(limits, t, d)
  OBVIOUS
<1>6. /\ e \in Texts(C) /\ e.layers = d.layers /\ e.len = l
      /\ e.of = d.of /\ e.more = d.more
  <2>1. l \in Nat
    BY <1>3, <1>4
  <2>2. \A k \in Nat, x \in Seq(Encodings) :
          /\ Within(d, x, k) \in Texts(C)
          /\ Within(d, x, k).layers = x /\ Within(d, x, k).len = k
          /\ Within(d, x, k).of = d.of /\ Within(d, x, k).more = d.more
    BY <1>2, WithinIs
  <2> QED
    <3>1. PICK x \in Seq(Encodings) : x = d.layers
      BY <1>3
    <3>2. /\ Within(d, x, l) \in Texts(C)
          /\ Within(d, x, l).layers = x /\ Within(d, x, l).len = l
          /\ Within(d, x, l).of = d.of /\ Within(d, x, l).more = d.more
      BY <2>1, <2>2, <3>1
    <3>3. e = Within(d, x, l)
      BY <1>4, <1>5, <3>1
    <3> QED
      BY <3>1, <3>2, <3>3, Zenon
<1>7. ASSUME NEW part \in Nat, t.len <= EncodedLen(t.layers, part, t.of)
      PROVE  e.len <= EncodedLen(e.layers, part, t.of)
  <2>1. d.len <= EncodedLen(d.layers, part, t.of)
    BY <1>1, <1>7 DEF Inside
  <2>2. t.of \in C /\ Width[t.of] \in Nat \ {0}
    BY TextIs
  <2>3. EncodedLen(d.layers, part, t.of) \in Nat
    BY <1>3, <2>2, EncodedLenBounds
  <2>4. l <= EncodedLen(d.layers, part, t.of)
    BY <1>3, <1>4, <2>1, <2>3
  <2> QED
    BY <1>6, <2>4
<1>8. Inside(e, t, C)
  BY <1>1, <1>6, <1>7 DEF Inside
<1> QED
  BY <1>5, <1>8

LEMMA TokensAreTexts ==
  ASSUME NEW C, NEW limits, Limits(limits), NEW payload \in Seq(Texts(C)),
         NEW d \in Tokens(limits, payload)
  PROVE  \E i \in DOMAIN payload :
           \E l \in 0..payload[i].len : d = Within(payload[i], payload[i].layers, l)
<1>1. PICK i \in Candidates(limits, payload) : d = Truncate(payload[i], limits.max_candidate_len_bytes)
  BY DEF Tokens
<1>2. i \in DOMAIN payload
  BY DEF Candidates
<1>3. payload[i] \in Texts(C)
  BY <1>2, LenProperties, ElementOfSeq
<1>4. limits.max_candidate_len_bytes \in Nat
  BY DEF Limits
<1>5. \E l \in 0..payload[i].len :
        Truncate(payload[i], limits.max_candidate_len_bytes) = Within(payload[i], payload[i].layers, l)
  BY <1>3, <1>4, TruncateIs
<1> QED
  BY <1>1, <1>2, <1>5

LEMMA ExpandIs ==
  ASSUME NEW C, Width \in [C -> Nat \ {0}], NEW limits, Limits(limits), NEW payload \in Seq(Texts(C))
  PROVE  \E level : /\ Levels(level, limits, payload)
                    /\ Expand(limits, payload) = UNION {level[j] : j \in 1..limits.max_nesting_depth}
<1> DEFINE n == limits.max_nesting_depth
           S == SUBSET Texts(C)
           F == [j \in 1..n |-> [X \in S |-> Deeper(limits, X)]]
           Is(f) == f = [j \in 0..n |-> IF j = 0 THEN Tokens(limits, payload)
                                        ELSE Deeper(limits, f[j - 1])]
<1>1. n \in Nat
  BY DEF Limits
<1>2. Tokens(limits, payload) \in S
  <2> SUFFICES ASSUME NEW d \in Tokens(limits, payload) PROVE d \in Texts(C)
    OBVIOUS
  <2>1. PICK i \in DOMAIN payload : \E l \in 0..payload[i].len : d = Within(payload[i], payload[i].layers, l)
    BY TokensAreTexts
  <2>2. PICK l \in 0..payload[i].len : d = Within(payload[i], payload[i].layers, l)
    BY <2>1
  <2>3. payload[i] \in Texts(C)
    BY LenProperties, ElementOfSeq
  <2>4. payload[i].layers \in Seq(Encodings) /\ payload[i].len \in Nat
    BY <2>3, TextIs
  <2>5. l \in Nat
    BY <2>4
  <2> QED
    BY <2>2, <2>3, <2>4, <2>5, WithinIs
<1>3. ASSUME NEW X \in S PROVE Deeper(limits, X) \in S
  <2> SUFFICES ASSUME NEW t \in X, NEW d \in Decoded(t) PROVE Bounded(limits, t, d) \in Texts(C)
    BY DEF Deeper
  <2> QED
    BY BoundedInside DEF Inside
<1>4. Makes(F, n, S)
  <2> HIDE DEF S
  <2> QED
    BY <1>3 DEF Makes
<1>5. PICK g : Follow(g, Tokens(limits, payload), F, n, S)
  <2> HIDE DEF F, n, S
  <2> QED
    BY <1>1, <1>2, <1>4, Recursion
<1>6. g \in [0..n -> S] /\ g[0] = Tokens(limits, payload) /\ \A j \in 1..n : g[j] = F[j][g[j - 1]]
  BY <1>5 DEF Follow
<1>7. \A j \in 1..n : g[j] = Deeper(limits, g[j - 1])
  <2> SUFFICES ASSUME NEW j \in 1..n PROVE g[j] = Deeper(limits, g[j - 1])
    OBVIOUS
  <2>1. j - 1 \in 0..n
    BY <1>1
  <2>2. g[j - 1] \in S
    BY <1>6, <2>1
  <2> HIDE DEF S
  <2> QED
    BY <1>6, <2>2
<1>8. Is(g)
  <2>1. g = [j \in 0..n |-> g[j]]
    BY <1>6
  <2>2. \A j \in 0..n : g[j] = IF j = 0 THEN Tokens(limits, payload) ELSE Deeper(limits, g[j - 1])
    <3>1. \A j \in 0..n : j # 0 => j \in 1..n
      BY <1>1
    <3> QED
      BY <1>6, <1>7, <3>1
  <2> HIDE DEF n
  <2> QED
    BY <2>1, <2>2, Zenon
<1>9. PICK f : f = CHOOSE h : Is(h)
  OBVIOUS
<1>10. Is(f)
  <2> HIDE DEF Is
  <2> QED
    BY <1>8, <1>9
<1>11. Expand(limits, payload) = UNION {f[j] : j \in 1..n}
  BY <1>9 DEF Expand, Deeper
<1>12. Levels(f, limits, payload)
  <2>1. 0 \in 0..n /\ \A j \in 1..n : j \in 0..n /\ j # 0
    BY <1>1
  <2> HIDE DEF n
  <2>2. f[0] = Tokens(limits, payload) /\ \A j \in 1..n : f[j] = Deeper(limits, f[j - 1])
    BY <1>10, <2>1, Zenon
  <2> QED
    BY <2>2 DEF Levels, n
<1> QED
  BY <1>11, <1>12

-----------------------------------------------------------------------------
\* ---- what is in the candidates ----

\* d has so many layers less than t, and is about the same.
From(d, t, j, C) ==
  /\ d \in Texts(C) /\ d.of = t.of /\ d.more = t.more
  /\ Len(d.layers) + j = Len(t.layers)
  /\ \A part \in Nat : t.len <= EncodedLen(t.layers, part, t.of)
                         => d.len <= EncodedLen(d.layers, part, t.of)

\* Every candidate comes from a text of the payload, and the decoders put
\* nothing into it that was not there.
LEMMA ExpandFrom ==
  ASSUME NEW C, Width \in [C -> Nat \ {0}], NEW limits, Limits(limits),
         NEW payload \in Seq(Texts(C)), NEW d \in Expand(limits, payload)
  PROVE  \E j \in 1..limits.max_nesting_depth, i \in DOMAIN payload : From(d, payload[i], j, C)
<1> DEFINE n == limits.max_nesting_depth
           Found(X, j) == \A x \in X : \E i \in DOMAIN payload : From(x, payload[i], j, C)
<1>1. n \in Nat
  BY DEF Limits
<1>2. PICK level : /\ Levels(level, limits, payload)
                   /\ Expand(limits, payload) = UNION {level[j] : j \in 1..n}
  BY ExpandIs
<1>3. PICK k \in 1..n : d \in level[k]
  BY <1>2
<1>4. ASSUME NEW i \in DOMAIN payload
      PROVE  payload[i] \in Texts(C) /\ payload[i].layers \in Seq(Encodings) /\ payload[i].len \in Nat
             /\ payload[i].of \in C /\ Width[payload[i].of] \in Nat \ {0}
  <2>1. payload[i] \in Texts(C)
    BY LenProperties, ElementOfSeq
  <2> QED
    BY <2>1, TextIs
<1>5. Found(level[0], 0)
  <2> SUFFICES ASSUME NEW x \in Tokens(limits, payload)
               PROVE  \E i \in DOMAIN payload : From(x, payload[i], 0, C)
    BY <1>2 DEF Levels
  <2>1. PICK i \in DOMAIN payload : \E l \in 0..payload[i].len : x = Within(payload[i], payload[i].layers, l)
    BY TokensAreTexts
  <2>2. PICK l \in 0..payload[i].len : x = Within(payload[i], payload[i].layers, l)
    BY <2>1
  <2>3. PICK t \in Texts(C) : t = payload[i]
    BY <1>4
  <2>4. PICK y \in Seq(Encodings) : y = t.layers
    BY <2>3, TextIs
  <2>5. l \in Nat /\ l <= t.len
    BY <1>4, <2>2, <2>3
  <2>6. x = Within(t, y, l)
    BY <2>2, <2>3, <2>4
  <2>7. /\ Within(t, y, l) \in Texts(C)
        /\ Within(t, y, l).layers = y /\ Within(t, y, l).len = l
        /\ Within(t, y, l).of = t.of /\ Within(t, y, l).more = t.more
    <3>1. l \in Nat
      BY <2>5
    <3> QED
      BY <3>1 DEF Texts, Within
  <2>8. Len(y) + 0 = Len(y)
    BY <2>4, LenProperties
  <2>9. ASSUME NEW part \in Nat, t.len <= EncodedLen(t.layers, part, t.of)
        PROVE  l <= EncodedLen(y, part, t.of)
    <3>1. EncodedLen(y, part, t.of) \in Nat
      BY <1>4, <2>3, <2>4, EncodedLenBounds
    <3>2. t.len \in Nat
      BY <2>3, TextIs
    <3> QED
      BY <2>4, <2>5, <2>9, <3>1, <3>2
  <2>10. From(x, t, 0, C)
    BY <2>4, <2>6, <2>7, <2>8, <2>9 DEF From
  <2> QED
    BY <2>3, <2>10
<1>6. ASSUME NEW j \in 1..n, Found(level[j - 1], j - 1) PROVE Found(level[j], j)
  <2> SUFFICES ASSUME NEW x \in level[j] PROVE \E i \in DOMAIN payload : From(x, payload[i], j, C)
    OBVIOUS
  <2>0. PICK y \in level[j - 1] : \E e \in Decoded(y) : x = Bounded(limits, y, e)
    BY <1>2 DEF Levels, Deeper
  <2>1. PICK e \in Decoded(y) : x = Bounded(limits, y, e)
    BY <2>0
  <2>2. PICK i \in DOMAIN payload : From(y, payload[i], j - 1, C)
    BY <1>6, <2>1
  <2>3. PICK t : t = payload[i]
    OBVIOUS
  <2>4. y \in Texts(C) /\ y.of = t.of /\ y.more = t.more /\ Len(y.layers) + (j - 1) = Len(t.layers)
    BY <2>2, <2>3 DEF From
  <2>5. Inside(x, y, C)
    BY <2>1, <2>4, BoundedInside
  <2>6. Len(x.layers) + j = Len(t.layers)
    <3>1. y.layers \in Seq(Encodings) /\ y.layers # <<>> /\ x.layers = Tail(y.layers)
      BY <2>4, <2>5, TextIs DEF Inside
    <3>2. Len(x.layers) = Len(y.layers) - 1
      BY <3>1, HeadTailProperties
    <3>3. Len(y.layers) \in Nat
      BY <3>1, LenProperties
    <3> QED
      BY <2>4, <3>2, <3>3
  <2>7. ASSUME NEW part \in Nat, t.len <= EncodedLen(t.layers, part, t.of)
        PROVE  x.len <= EncodedLen(x.layers, part, t.of)
    <3>1. y.len <= EncodedLen(y.layers, part, t.of)
      BY <2>2, <2>3, <2>7 DEF From
    <3> QED
      BY <2>4, <2>5, <3>1 DEF Inside
  <2>8. From(x, t, j, C)
    BY <2>4, <2>5, <2>6, <2>7 DEF From, Inside
  <2> QED
    BY <2>3, <2>8
<1> DEFINE Bad == {j \in 0..n : ~Found(level[j], j)}
<1>7. Bad = {}
  <2> SUFFICES ASSUME Bad # {} PROVE FALSE
    OBVIOUS
  <2>1. PICK j \in Bad : \A m \in Bad : j <= m
    <3>1. Bad \subseteq Nat
      BY <1>1
    <3> HIDE DEF Bad
    <3> QED
      BY <3>1, HasMin
  <2> HIDE DEF Found
  <2>2. j # 0
    BY <1>5, <2>1
  <2>3. j \in 1..n /\ j - 1 \in 0..n /\ ~(j <= j - 1)
    BY <1>1, <2>1, <2>2
  <2>4. Found(level[j - 1], j - 1)
    BY <2>1, <2>3
  <2> QED
    BY <1>6, <2>1, <2>3, <2>4
<1>8. k \in 0..n
  BY <1>1
<1>9. Found(level[k], k)
  <2> HIDE DEF Found
  <2> QED
    BY <1>7, <1>8
<1> QED
  BY <1>3, <1>9

-----------------------------------------------------------------------------
\* ---- what the decoders find ----

\* What is in a text after j of its layers, when it has part of its content.
Inner(q, j) == SubSeq(q, j + 1, Len(q))
InnerLen(t, part, j) == EncodedLen(Inner(t.layers, j), part, t.of)
InnerText(t, part, j) == Within(t, Inner(t.layers, j), InnerLen(t, part, j))

LEMMA InnerIs ==
  ASSUME NEW q \in Seq(Encodings)
  PROVE  /\ Inner(q, 0) = q /\ Inner(q, Len(q)) = <<>>
         /\ \A j \in 0..Len(q) : Inner(q, j) \in Seq(Encodings)
         /\ \A j \in 1..Len(q) : Inner(q, j - 1) # <<>> /\ Tail(Inner(q, j - 1)) = Inner(q, j)
<1>1. Len(q) \in Nat /\ \A i \in 1..Len(q) : q[i] \in Encodings
  BY LenProperties, ElementOfSeq
<1>2. Inner(q, 0) = q
  <2>1. SubSeq(q, 1, Len(q)) = q
    BY SubSeqFull
  <2>2. 0 + 1 = 1
    OBVIOUS
  <2> QED
    BY <2>1, <2>2, Zenon DEF Inner
<1>3. Inner(q, Len(q)) = <<>>
  <2>1. PICK m \in Int : m = Len(q) + 1
    BY <1>1
  <2>2. Len(q) < m
    BY <1>1, <2>1
  <2>3. SubSeq(q, m, Len(q)) = <<>>
    BY <1>1, <2>2, SubSeqEmpty
  <2> QED
    BY <2>1, <2>3, Zenon DEF Inner
<1>4. ASSUME NEW j \in 0..Len(q)
      PROVE  /\ Inner(q, j) \in Seq(Encodings)
             /\ Len(Inner(q, j)) = Len(q) - j
  <2>1. PICK m \in 1..(Len(q) + 1) : m = j + 1
    BY <1>1
  <2>2. \A i \in m..Len(q) : q[i] \in Encodings
    BY <1>1, <2>1
  <2>3. m \in Int /\ Len(q) \in Int
    BY <1>1, <2>1
  <2>4. /\ SubSeq(q, m, Len(q)) \in Seq(Encodings)
        /\ Len(SubSeq(q, m, Len(q))) = IF m <= Len(q) THEN Len(q) - m + 1 ELSE 0
    BY <2>2, <2>3, SubSeqProperties
  <2>5. Inner(q, j) = SubSeq(q, m, Len(q))
    BY <2>1, Zenon DEF Inner
  <2>6. (IF m <= Len(q) THEN Len(q) - m + 1 ELSE 0) = Len(q) - j
    BY <1>1, <2>1
  <2> QED
    BY <2>4, <2>5, <2>6, Zenon
<1>5. ASSUME NEW j \in 1..Len(q)
      PROVE  Inner(q, j - 1) # <<>> /\ Tail(Inner(q, j - 1)) = Inner(q, j)
  <2>1. j - 1 \in 0..Len(q) /\ j - 1 + 1 = j /\ Len(q) - (j - 1) # 0 /\ Len(q) \in j..Len(q)
    BY <1>1
  <2>2. Len(Inner(q, j - 1)) # 0
    BY <1>4, <2>1, Zenon
  <2>3. Inner(q, j - 1) # <<>>
    BY <2>2, EmptySeq
  <2>4. Tail(SubSeq(q, j, Len(q))) = SubSeq(q, j + 1, Len(q))
    BY <2>1, HeadTailOfSubSeq
  <2> QED
    BY <2>1, <2>3, <2>4, Zenon DEF Inner
<1> QED
  BY <1>2, <1>3, <1>4, <1>5

\* An encoding makes nothing shorter.
LEMMA WrapGrows ==
  ASSUME NEW n \in Nat, NEW w \in Nat \ {0}, NEW enc \in Encodings
  PROVE  n <= Wrap(enc, n, w)
<1>1. CASE enc = "json"
  BY <1>1, EncodedGrows DEF Wrap
<1>2. CASE enc # "json"
  <2>1. PICK m \in Nat : m = n * w
    OBVIOUS
  <2>2. n <= m
    <3>1. PICK v \in Nat : w = v + 1
      <4>1. w - 1 \in Nat /\ w = w - 1 + 1
        OBVIOUS
      <4> QED
        BY <4>1
    <3>2. n * (v + 1) = n * v + n /\ n * v \in Nat
      OBVIOUS
    <3> QED
      BY <2>1, <3>1, <3>2
  <2>3. Wrap(enc, n, w) = Encoded(enc, m)
    BY <1>2, <2>1 DEF Wrap
  <2>4. Encoded(enc, m) \in Nat /\ m <= Encoded(enc, m)
    BY EncodedGrows
  <2> QED
    BY <2>1, <2>2, <2>3, <2>4
<1> QED
  BY <1>1, <1>2

\* A text that keeps to the limits with all its encodings.
Reached(limits, t, part) ==
  /\ t.len = EncodedLen(t.layers, part, t.of)
  /\ t.len <= limits.max_candidate_len_bytes
  /\ \A j \in 1..Len(t.layers) :
       InnerLen(t, part, j) * limits.max_expansion_ratio.den
         <= InnerLen(t, part, j - 1) * limits.max_expansion_ratio.num

\* One level further in.
LEMMA OneDeeper ==
  ASSUME NEW C, Width \in [C -> Nat \ {0}], NEW limits, Limits(limits),
         NEW t \in Texts(C), NEW part \in Nat \ {0}, Reached(limits, t, part),
         NEW j \in 1..Len(t.layers), NEW k, k = j - 1,
         InnerLen(t, part, k) <= limits.max_candidate_len_bytes
  PROVE  /\ InnerLen(t, part, j) <= limits.max_candidate_len_bytes
         /\ \E e \in Decoded(InnerText(t, part, k)) :
              InnerText(t, part, j) = Bounded(limits, InnerText(t, part, k), e)
<1>1. t.layers \in Seq(Encodings) /\ t.of \in C /\ Width[t.of] \in Nat \ {0}
  BY TextIs
<1>2. Len(t.layers) \in Nat
  BY <1>1, LenProperties
<1>3. k \in 0..Len(t.layers) /\ j \in 0..Len(t.layers)
  BY <1>2
<1>4. PICK q \in Seq(Encodings) : q = Inner(t.layers, k)
  BY <1>1, <1>3, InnerIs
<1>5. PICK r \in Seq(Encodings) : r = Inner(t.layers, j)
  BY <1>1, <1>3, InnerIs
<1>6. q # <<>> /\ Tail(q) = r
  BY <1>1, <1>4, <1>5, InnerIs
<1>7. PICK a \in Nat : a = InnerLen(t, part, k) /\ a = EncodedLen(q, part, t.of)
  BY <1>1, <1>4, EncodedLenBounds DEF InnerLen
<1>8. PICK b \in Nat : b = InnerLen(t, part, j) /\ b = EncodedLen(r, part, t.of)
  BY <1>1, <1>5, EncodedLenBounds DEF InnerLen
<1>9. b <= a
  <2>1. PICK w \in Nat \ {0} : w = IF r = <<>> THEN Width[t.of] ELSE 1
    BY <1>1
  <2>2. a = Wrap(Head(q), b, w)
    <3>1. EncodedLen(q, part, t.of)
            = Wrap(Head(q), EncodedLen(Tail(q), part, t.of),
                   IF Tail(q) = <<>> THEN Width[t.of] ELSE 1)
      BY <1>1, <1>6, EncodedLenUnfold
    <3> QED
      BY <1>6, <1>7, <1>8, <2>1, <3>1
  <2>3. Head(q) \in Encodings
    BY <1>6, HeadTailProperties
  <2> QED
    BY <2>2, <2>3, WrapGrows
<1>10. PICK y \in Texts(C) : /\ y = InnerText(t, part, k) /\ y = Within(t, q, a)
                             /\ y.layers = q /\ y.len = a /\ y.of = t.of /\ y.more = t.more
  <2>1. InnerText(t, part, k) = Within(t, q, a)
    BY <1>4, <1>7 DEF InnerText
  <2>2. PICK y : y = Within(t, q, a)
    OBVIOUS
  <2>3. y \in Texts(C) /\ y.layers = q /\ y.len = a /\ y.of = t.of /\ y.more = t.more
    BY <2>2 DEF Texts, Within
  <2> QED
    BY <2>1, <2>2, <2>3, Zenon
<1>11. PICK d \in Texts(C) : d = InnerText(t, part, j) /\ d = Within(t, r, b) /\ d.len = b
  <2>1. InnerText(t, part, j) = Within(t, r, b)
    BY <1>5, <1>8 DEF InnerText
  <2>2. PICK d : d = Within(t, r, b)
    OBVIOUS
  <2>3. d \in Texts(C) /\ d.len = b
    BY <2>2 DEF Texts, Within
  <2> QED
    BY <2>1, <2>2, <2>3, Zenon
<1>12. d \in Decoded(y)
  <2>1. y.len = EncodedLen(y.layers, part, y.of) /\ y.layers # <<>>
    BY <1>6, <1>7, <1>10
  <2>2. Within(y, Tail(y.layers), EncodedLen(Tail(y.layers), part, y.of)) \in Decoded(y)
    BY <2>1, DecodesAll
  <2>3. Within(y, r, b) \in Decoded(y)
    BY <1>6, <1>8, <1>10, <2>2
  <2>4. Within(y, r, b) = Within(t, r, b)
    BY <1>10 DEF Within
  <2> QED
    BY <1>11, <2>3, <2>4
<1>13. d.len * limits.max_expansion_ratio.den <= y.len * limits.max_expansion_ratio.num
  <2>1. InnerLen(t, part, j) * limits.max_expansion_ratio.den
          <= InnerLen(t, part, j - 1) * limits.max_expansion_ratio.num
    BY DEF Reached
  <2> QED
    BY <1>7, <1>8, <1>10, <1>11, <2>1
<1>14. b <= limits.max_candidate_len_bytes
  BY <1>7, <1>8, <1>9 DEF Limits
<1>15. Bounded(limits, y, d) = d
  BY <1>11, <1>13, <1>14, BoundedIs, SMTT(30)
<1> QED
  BY <1>8, <1>10, <1>11, <1>12, <1>14, <1>15

\* What keeps to the limits is found, however deep it is encoded.
LEMMA ExpandFinds ==
  ASSUME NEW C, Width \in [C -> Nat \ {0}], NEW limits, Limits(limits),
         NEW payload \in Seq(Texts(C)), NEW i \in Candidates(limits, payload),
         NEW t, t = payload[i], NEW part \in Nat \ {0}, Reached(limits, t, part),
         Len(t.layers) \in 1..limits.max_nesting_depth
  PROVE  Within(t, <<>>, part) \in Expand(limits, payload)
<1> DEFINE n == Len(t.layers)
           max == limits.max_candidate_len_bytes
<1>1. t \in Texts(C)
  BY LenProperties, ElementOfSeq DEF Candidates
<1>2. t.layers \in Seq(Encodings) /\ t.of \in C /\ t.len \in Nat /\ t = Within(t, t.layers, t.len)
  BY <1>1, TextIs
<1>3. n \in Nat
  BY <1>2, LenProperties
<1>4. PICK level : /\ Levels(level, limits, payload)
                   /\ Expand(limits, payload) = UNION {level[j] : j \in 1..limits.max_nesting_depth}
  BY ExpandIs
<1> DEFINE P(j) == InnerText(t, part, j) \in level[j] /\ InnerLen(t, part, j) <= max
           Bad == {j \in 0..n : ~P(j)}
<1>5. P(0)
  <2>1. InnerText(t, part, 0) = t /\ InnerLen(t, part, 0) = t.len
    BY <1>2, InnerIs DEF InnerText, InnerLen, Reached
  <2>2. t.len <= max
    BY DEF Reached
  <2>3. Truncate(t, max) = t
    BY <1>1, <2>2, TruncateIs DEF Limits
  <2>4. t \in Tokens(limits, payload)
    BY <2>3 DEF Tokens
  <2> QED
    BY <1>4, <2>1, <2>2, <2>4 DEF Levels
<1>6. ASSUME NEW j \in 1..n, NEW k, k = j - 1, P(k) PROVE P(j)
  <2>1. PICK e \in Decoded(InnerText(t, part, k)) :
          InnerText(t, part, j) = Bounded(limits, InnerText(t, part, k), e)
    BY <1>1, <1>6, OneDeeper
  <2>2. InnerLen(t, part, j) <= max
    BY <1>1, <1>6, OneDeeper
  <2>3. InnerText(t, part, j) \in Deeper(limits, level[k])
    BY <1>6, <2>1 DEF Deeper
  <2>4. j \in 1..limits.max_nesting_depth
    BY <1>3 DEF Limits
  <2>5. level[j] = Deeper(limits, level[k])
    BY <1>4, <1>6, <2>4 DEF Levels
  <2> QED
    BY <2>2, <2>3, <2>5
<1>7. Bad = {}
  <2> SUFFICES ASSUME Bad # {} PROVE FALSE
    OBVIOUS
  <2>1. PICK j \in Bad : \A m \in Bad : j <= m
    <3>1. Bad \subseteq Nat
      BY <1>3
    <3> HIDE DEF Bad
    <3> QED
      BY <3>1, HasMin
  <2> HIDE DEF P
  <2>2. j # 0
    BY <1>5, <2>1
  <2>3. j \in 1..n /\ j - 1 \in 0..n /\ ~(j <= j - 1)
    BY <1>3, <2>1, <2>2
  <2>4. P(j - 1)
    BY <2>1, <2>3
  <2> QED
    BY <1>6, <2>1, <2>3, <2>4
<1>8. n \in 0..n /\ n \in 1..limits.max_nesting_depth
  BY <1>3
<1>9. InnerText(t, part, n) \in level[n]
  <2>1. P(n)
    <3> HIDE DEF P
    <3> QED
      BY <1>7, <1>8
  <2> QED
    BY <2>1
<1>10. InnerText(t, part, n) = Within(t, <<>>, part)
  <2>1. Inner(t.layers, n) = <<>>
    BY <1>2, InnerIs
  <2>2. EncodedLen(<<>>, part, t.of) = part
    BY <1>2, EncodedLenNothing
  <2> QED
    BY <2>1, <2>2 DEF InnerText, InnerLen
<1> QED
  BY <1>4, <1>8, <1>9, <1>10
=============================================================================

--------------------------- MODULE FilenamesProof ---------------------------
(***************************************************************************)
(* Filenames for every size of words and buffers, every path, every edge   *)
(* of memory and everything another thread writes.                         *)
(***************************************************************************)
EXTENDS Filenames, TLAPS, SequenceTheorems, WellFoundedInduction

-----------------------------------------------------------------------------
(* Strings.                                                                *)

\* A set of naturals that is not empty has a least element.
LEMMA Least ==
  ASSUME NEW T, T \subseteq Nat, T # {}
  PROVE  \E n \in T : \A k \in T : n <= k
<1>1. \E n \in T : \A k \in T : ~ (<<k, n>> \in OpToRel(<, Nat))
  BY NatLessThanWellFounded, WFMin, Zenon
<1>2. PICK n \in T : \A k \in T : ~ (<<k, n>> \in OpToRel(<, Nat))
  BY <1>1
<1>3. ASSUME NEW k \in T
      PROVE  n <= k
  <2>1. <<k, n>> \in Nat \X Nat /\ <<k, n>>[1] = k /\ <<k, n>>[2] = n
    OBVIOUS
  <2>2. ~ (k < n)
    BY <1>2, <1>3, <2>1 DEF OpToRel
  <2> QED  BY <1>3, <2>2, SMT
<1> QED  BY <1>2, <1>3

LEMMA StrlenLeast ==
  ASSUME NEW m, DOMAIN m \subseteq Nat, Ends(m) # {}
  PROVE  strlen(m) \in Ends(m) /\ \A k \in Ends(m) : strlen(m) <= k
<1>1. \E n \in Ends(m) : \A k \in Ends(m) : n <= k
  BY Least DEF Ends
<1> QED  BY <1>1 DEF strlen

\* strlen is the only end with no end before it.
LEMMA StrlenUnique ==
  ASSUME NEW m, DOMAIN m \subseteq Nat, NEW n \in Ends(m), \A k \in Ends(m) : n <= k
  PROVE  strlen(m) = n
<1>1. strlen(m) \in Ends(m) /\ strlen(m) <= n
  BY StrlenLeast
<1>2. n <= strlen(m) /\ n \in Nat /\ strlen(m) \in Nat
  BY <1>1 DEF Ends
<1> QED  BY <1>1, <1>2

LEMMA Sizes ==
  /\ WORD \in Nat \ {0} /\ WORDS \in Nat
  /\ FILENAME_BUFF_SIZE \in Nat /\ FILENAME_BUFF_SIZE >= 17
  /\ Buffer \subseteq Nat /\ Edge \subseteq Nat /\ NUL \in Char
BY FilenamesAssumption DEF FILENAME_BUFF_SIZE, Buffer

\* A buffer that holds a string gives a sequence that is shorter than it is.
LEMMA StringShort ==
  ASSUME NEW buf \in [Buffer -> Char], Ends(buf) # {}
  PROVE  /\ strlen(buf) \in Buffer
         /\ String(buf) \in Seq(Char)
         /\ Len(String(buf)) = strlen(buf)
         /\ Len(String(buf)) < FILENAME_BUFF_SIZE
<1>1. strlen(buf) \in Buffer
  BY StrlenLeast, Sizes DEF Ends
<1>2. strlen(buf) \in Nat /\ strlen(buf) < FILENAME_BUFF_SIZE
  BY <1>1, Sizes DEF Buffer
<1>3. \A k \in 1 .. strlen(buf) : buf[k - 1] \in Char
  BY <1>2, Sizes DEF Buffer
<1> QED  BY <1>1, <1>2, <1>3 DEF String, Text

LEMMA CopyFits ==
  ASSUME NEW buf \in [Buffer -> Char], NEW at \in Nat, NEW s \in Seq(Char),
         at + Len(s) <= FILENAME_BUFF_SIZE
  PROVE  /\ Copy(buf, at, s) \in [Buffer -> Char]
         /\ \A k \in Buffer : Copy(buf, at, s)[k] =
              IF k \in at .. at + Len(s) - 1 THEN s[k - at + 1] ELSE buf[k]
<1>1. Len(s) \in Nat /\ at .. at + Len(s) - 1 \subseteq Buffer
  BY Sizes DEF Buffer
<1>2. \A k \in at .. at + Len(s) - 1 : s[k - at + 1] \in Char
  BY <1>1
<1> QED  BY <1>1, <1>2 DEF Copy

\* strcpy of a string that fits leaves one that ends in the buffer.
LEMMA StrcpyFits ==
  ASSUME NEW buf \in [Buffer -> Char], NEW at \in Nat, NEW s \in Seq(Char),
         at + Len(s) < FILENAME_BUFF_SIZE
  PROVE  /\ strcpy(buf, at, s) \in [Buffer -> Char]
         /\ at + Len(s) \in Ends(strcpy(buf, at, s))
<1> DEFINE z == Append(s, NUL)
<1>1. z \in Seq(Char) /\ Len(z) = Len(s) + 1 /\ z[Len(s) + 1] = NUL /\ Len(s) \in Nat
  BY Sizes
<1>2. at + Len(z) <= FILENAME_BUFF_SIZE
  BY <1>1, Sizes
<1>3. at + Len(s) \in Buffer
  BY <1>1, Sizes DEF Buffer
<1> HIDE DEF z
<1>4. /\ Copy(buf, at, z) \in [Buffer -> Char]
      /\ Copy(buf, at, z)[at + Len(s)] = NUL
  <2>1. /\ Copy(buf, at, z) \in [Buffer -> Char]
        /\ \A k \in Buffer : Copy(buf, at, z)[k] =
             IF k \in at .. at + Len(z) - 1 THEN z[k - at + 1] ELSE buf[k]
    BY <1>1, <1>2, CopyFits
  <2>2. /\ at + Len(s) \in at .. at + Len(z) - 1
        /\ at + Len(s) - at + 1 = Len(s) + 1
    BY <1>1
  <2> QED  BY <1>1, <1>3, <2>1, <2>2
<1> QED  BY <1>3, <1>4 DEF strcpy, Ends, z

LEMMA Endings ==
  /\ SLAVE \in Seq(Char) /\ Len(SLAVE) = 6
  /\ DOTS \o SLAVE \in Seq(Char) /\ Len(DOTS \o SLAVE) = 9
<1>1. SLAVE \in Seq(Char) /\ Len(SLAVE) = 6
  <2>1. Len(SLAVE) = 6
    BY DEF SLAVE
  <2>2. SLAVE = [k \in 1 .. 6 |-> SLAVE[k]]
    BY DEF SLAVE
  <2> HIDE DEF SLAVE
  <2>3. SLAVE \in [1 .. 6 -> Char]
    BY <2>2, FilenamesAssumption
  <2> QED  BY <2>1, <2>3, SeqDef, Zenon
<1>2. DOTS \in Seq(Char) /\ Len(DOTS) = 3
  BY FilenamesAssumption DEF DOTS
<1> HIDE DEF SLAVE, DOTS
<1>3. /\ DOTS \o SLAVE \in Seq(Char)
      /\ Len(DOTS \o SLAVE) = Len(DOTS) + Len(SLAVE)
  BY <1>1, <1>2, ConcatProperties, Zenon
<1> QED  BY <1>1, <1>2, <1>3

\* The name of a peer fits, as the name it is made of does.
LEMMA SlaveFits ==
  ASSUME NEW buf \in [Buffer -> Char], Ends(buf) # {}
  PROVE  SlaveOf(buf) \in [Buffer -> Char] /\ Ends(SlaveOf(buf)) # {}
<1> DEFINE len == strlen(buf)
<1>1. len \in Nat /\ len < FILENAME_BUFF_SIZE
  BY StringShort, Sizes DEF Buffer
<1>2. CASE len + 7 < FILENAME_BUFF_SIZE
  <2>1. len + Len(SLAVE) < FILENAME_BUFF_SIZE
    BY <1>1, <1>2, Endings, Sizes
  <2>2. /\ strcpy(buf, len, SLAVE) \in [Buffer -> Char]
        /\ Ends(strcpy(buf, len, SLAVE)) # {}
    BY <1>1, <2>1, Endings, StrcpyFits
  <2> QED  BY <1>2, <2>2 DEF SlaveOf
<1>3. CASE ~ (len + 7 < FILENAME_BUFF_SIZE)
  <2>1. len - 10 \in Nat /\ len - 10 + Len(DOTS \o SLAVE) < FILENAME_BUFF_SIZE
    BY <1>1, <1>3, Endings, Sizes
  <2>2. /\ strcpy(buf, len - 10, DOTS \o SLAVE) \in [Buffer -> Char]
        /\ Ends(strcpy(buf, len - 10, DOTS \o SLAVE)) # {}
    BY <2>1, Endings, StrcpyFits
  <2> QED  BY <1>3, <2>2 DEF SlaveOf
<1> QED  BY <1>2, <1>3

\* What strcpy leaves in a buffer is what was before it, and the string.
LEMMA StrcpyString ==
  ASSUME NEW buf \in [Buffer -> Char], NEW at \in Nat, NEW s \in Seq(Char),
         at + Len(s) < FILENAME_BUFF_SIZE,
         \A k \in 0 .. at - 1 : buf[k] # NUL,
         \A k \in 1 .. Len(s) : s[k] # NUL
  PROVE  /\ Len(String(strcpy(buf, at, s))) = at + Len(s)
         /\ \A k \in 1 .. at : String(strcpy(buf, at, s))[k] = buf[k - 1]
         /\ \A k \in 1 .. Len(s) : String(strcpy(buf, at, s))[at + k] = s[k]
         /\ strlen(strcpy(buf, at, s)) = at + Len(s)
<1> DEFINE z == Append(s, NUL)
           b == strcpy(buf, at, s)
           n == at + Len(s)
<1>1. /\ z \in Seq(Char) /\ Len(z) = Len(s) + 1 /\ Len(s) \in Nat /\ n \in Nat
      /\ z[Len(s) + 1] = NUL /\ \A k \in 1 .. Len(s) : z[k] = s[k]
  BY Sizes
<1>2. at + Len(z) <= FILENAME_BUFF_SIZE
  BY <1>1, Sizes
<1>3. /\ b \in [Buffer -> Char]
      /\ \A k \in Buffer : b[k] = IF k \in at .. at + Len(z) - 1 THEN z[k - at + 1] ELSE buf[k]
  BY <1>1, <1>2, CopyFits DEF strcpy
<1> HIDE DEF b, z
<1>4. n \in Buffer /\ \A k \in 0 .. n : k \in Buffer
  BY <1>1, Sizes DEF Buffer
<1>5. \A k \in 0 .. at - 1 : b[k] = buf[k]
  <2>1. \A k \in 0 .. at - 1 : k \in 0 .. n /\ k \notin at .. at + Len(z) - 1
    BY <1>1
  <2> QED  BY <1>3, <1>4, <2>1
<1>6. \A k \in 1 .. Len(s) : b[at + k - 1] = s[k]
  <2>1. TAKE k \in 1 .. Len(s)
  <2>2. /\ at + k - 1 \in 0 .. n /\ at + k - 1 \in at .. at + Len(z) - 1
        /\ (at + k - 1) - at + 1 = k
    BY <1>1
  <2> QED  BY <1>1, <1>3, <1>4, <2>2
<1>7. b[n] = NUL
  <2>1. n \in at .. at + Len(z) - 1 /\ n - at + 1 = Len(s) + 1
    BY <1>1
  <2> QED  BY <1>1, <1>3, <1>4, <2>1
<1>8. \A k \in 0 .. n - 1 : b[k] # NUL
  <2>1. SUFFICES ASSUME NEW k \in 0 .. n - 1 PROVE b[k] # NUL
    OBVIOUS
  <2>2. CASE k < at
    BY <1>5, <2>2
  <2>3. CASE k >= at
    <3>1. k - at + 1 \in 1 .. Len(s) /\ at + (k - at + 1) - 1 = k
      BY <1>1, <2>3
    <3> QED  BY <1>6, <3>1
  <2> QED  BY <2>2, <2>3
<1>9. strlen(b) = n
  <2>1. n \in Ends(b) /\ DOMAIN b \subseteq Nat
    BY <1>3, <1>4, <1>7, Sizes DEF Ends
  <2>2. \A k \in Ends(b) : n <= k
    BY <1>1, <1>8, <2>1 DEF Ends
  <2> QED  BY <2>1, <2>2, StrlenUnique
<1>10. String(b) = [k \in 1 .. n |-> b[k - 1]]
  BY <1>9 DEF String, Text
<1>11. Len(String(b)) = n
  BY <1>1, <1>10
<1>12. \A k \in 1 .. at : String(b)[k] = buf[k - 1]
  <2>1. \A k \in 1 .. at : k \in 1 .. n /\ k - 1 \in 0 .. at - 1
    BY <1>1
  <2> QED  BY <1>5, <1>10, <2>1
<1>13. \A k \in 1 .. Len(s) : String(b)[at + k] = s[k]
  <2>1. \A k \in 1 .. Len(s) : at + k \in 1 .. n
    BY <1>1
  <2> QED  BY <1>6, <1>10, <2>1
<1> QED  BY <1>9, <1>11, <1>12, <1>13 DEF b

\* A string has no zero.
LEMMA StringUnended ==
  ASSUME NEW buf \in [Buffer -> Char], Ends(buf) # {}
  PROVE  \A k \in 1 .. Len(String(buf)) : String(buf)[k] # NUL
<1>1. strlen(buf) \in Buffer /\ strlen(buf) \in Nat /\ Len(String(buf)) = strlen(buf)
  BY StringShort, Sizes
<1>2. \A k \in Ends(buf) : strlen(buf) <= k
  BY StrlenLeast, Sizes
<1>3. \A k \in 1 .. strlen(buf) : k - 1 \in Buffer /\ k - 1 \notin Ends(buf)
  BY <1>1, <1>2, Sizes DEF Buffer
<1> QED  BY <1>1, <1>3 DEF String, Text, Ends

\* The endings have no zero, and end with SLAVE.
LEMMA EndingsUnended ==
  /\ \A k \in 1 .. Len(SLAVE) : SLAVE[k] # NUL
  /\ \A k \in 1 .. Len(DOTS \o SLAVE) : (DOTS \o SLAVE)[k] # NUL
  /\ \A k \in 1 .. 6 : (DOTS \o SLAVE)[3 + k] = SLAVE[k]
<1>1. \A k \in 1 .. 6 : SLAVE[k] # NUL
  <2>1. /\ SLAVE[1] # NUL /\ SLAVE[2] # NUL /\ SLAVE[3] # NUL
        /\ SLAVE[4] # NUL /\ SLAVE[5] # NUL /\ SLAVE[6] # NUL
    BY DEF SLAVE, NUL
  <2> QED  BY <2>1
<1>2. \A k \in 1 .. 3 : DOTS[k] # NUL
  BY DEF DOTS, NUL
<1>3. DOTS \in Seq(Char) /\ Len(DOTS) = 3
  BY FilenamesAssumption DEF DOTS
<1>4. /\ \A k \in 1 .. 3 : (DOTS \o SLAVE)[k] = DOTS[k]
      /\ \A k \in 4 .. 9 : (DOTS \o SLAVE)[k] = SLAVE[k - 3]
  <2>1. SLAVE \in Seq(Char) /\ Len(SLAVE) = 6
    BY Endings
  <2> DEFINE e == DOTS \o SLAVE
  <2>2. \A k \in 1 .. Len(DOTS) + Len(SLAVE) :
          e[k] = IF k <= Len(DOTS) THEN DOTS[k] ELSE SLAVE[k - Len(DOTS)]
    BY <1>3, <2>1, ConcatProperties, Zenon
  <2> HIDE DEF e
  <2>3. (\A k \in 1 .. 3 : e[k] = DOTS[k]) /\ \A k \in 4 .. 9 : e[k] = SLAVE[k - 3]
    BY <1>3, <2>1, <2>2
  <2> QED  BY <2>3 DEF e
<1>5. \A k \in 1 .. 9 : (DOTS \o SLAVE)[k] # NUL
  <2> HIDE DEF SLAVE, DOTS
  <2>1. \A k \in 4 .. 9 : k - 3 \in 1 .. 6
    OBVIOUS
  <2>2. \A k \in 1 .. 9 : k \in 1 .. 3 \/ k \in 4 .. 9
    OBVIOUS
  <2> QED  BY <1>1, <1>2, <1>4, <2>1, <2>2
<1>6. \A k \in 1 .. 6 : 3 + k \in 4 .. 9 /\ (3 + k) - 3 = k
  OBVIOUS
<1> QED  BY <1>1, <1>4, <1>5, <1>6, Endings

\* The characters of a name that a peer's name keeps.
Keeps(long, short) ==
  \A k \in 1 .. Len(short) :
    k <= FILENAME_BUFF_SIZE - 17 => k <= Len(long) /\ long[k] = short[k]

EndsInSlave(s) == Len(s) >= 6 /\ \A k \in 1 .. 6 : s[Len(s) - 6 + k] = SLAVE[k]

\* The name made by fd_table_insert_dup keeps what is not among the last
\* characters of the buffer, and says that it is a slave.
LEMMA SlaveNames ==
  ASSUME NEW buf \in [Buffer -> Char], Ends(buf) # {}
  PROVE  Keeps(String(SlaveOf(buf)), String(buf)) /\ EndsInSlave(String(SlaveOf(buf)))
<1> DEFINE len == strlen(buf)
           s == String(SlaveOf(buf))
<1>1. /\ len \in Nat /\ len < FILENAME_BUFF_SIZE
      /\ Len(String(buf)) = len
      /\ \A k \in 1 .. len : String(buf)[k] = buf[k - 1]
  BY StringShort, Sizes DEF Buffer, String, Text
<1>2. \A k \in 0 .. len - 1 : buf[k] # NUL
  <2>1. \A k \in 0 .. len - 1 : k + 1 \in 1 .. len /\ (k + 1) - 1 = k
    BY <1>1
  <2> QED  BY <1>1, <2>1, StringUnended
<1>3. CASE len + 7 < FILENAME_BUFF_SIZE
  <2>1. len + Len(SLAVE) < FILENAME_BUFF_SIZE
    BY <1>1, <1>3, Endings, Sizes
  <2>2. s = String(strcpy(buf, len, SLAVE))
    BY <1>3 DEF SlaveOf
  <2>3. /\ Len(s) = len + 6
        /\ \A k \in 1 .. len : s[k] = buf[k - 1]
        /\ \A k \in 1 .. 6 : s[len + k] = SLAVE[k]
    <3>1. SLAVE \in Seq(Char) /\ Len(SLAVE) = 6 /\ \A k \in 1 .. Len(SLAVE) : SLAVE[k] # NUL
      BY Endings, EndingsUnended
    <3> HIDE DEF len, s
    <3>2. /\ Len(String(strcpy(buf, len, SLAVE))) = len + Len(SLAVE)
          /\ \A k \in 1 .. len : String(strcpy(buf, len, SLAVE))[k] = buf[k - 1]
          /\ \A k \in 1 .. Len(SLAVE) : String(strcpy(buf, len, SLAVE))[len + k] = SLAVE[k]
      BY <1>1, <1>2, <2>1, <3>1, StrcpyString
    <3> QED  BY <2>2, <3>1, <3>2
  <2> HIDE DEF len, s
  <2>4. Keeps(s, String(buf))
    <3>1. \A k \in 1 .. len : k <= Len(s) /\ s[k] = String(buf)[k]
      BY <1>1, <2>3
    <3> QED  BY <1>1, <3>1 DEF Keeps
  <2>5. EndsInSlave(s)
    BY <1>1, <2>3 DEF EndsInSlave
  <2> QED  BY <2>4, <2>5 DEF s
<1>4. CASE ~ (len + 7 < FILENAME_BUFF_SIZE)
  <2> DEFINE at == len - 10
  <2>1. at \in Nat /\ at + Len(DOTS \o SLAVE) < FILENAME_BUFF_SIZE
        /\ at >= FILENAME_BUFF_SIZE - 17 /\ at < len
    BY <1>1, <1>4, Endings, Sizes
  <2>2. s = String(strcpy(buf, at, DOTS \o SLAVE))
    BY <1>4 DEF SlaveOf
  <2>3. \A k \in 0 .. at - 1 : buf[k] # NUL
    BY <1>1, <1>2
  <2>4. /\ Len(s) = at + 9
        /\ \A k \in 1 .. at : s[k] = buf[k - 1]
        /\ \A k \in 1 .. 9 : s[at + k] = (DOTS \o SLAVE)[k]
    <3> DEFINE e == DOTS \o SLAVE
    <3>1. e \in Seq(Char) /\ Len(e) = 9 /\ \A k \in 1 .. Len(e) : e[k] # NUL
      BY Endings, EndingsUnended
    <3> HIDE DEF at, s, e
    <3>2. at + Len(e) < FILENAME_BUFF_SIZE
      BY <2>1 DEF e
    <3>3. /\ Len(String(strcpy(buf, at, e))) = at + Len(e)
          /\ \A k \in 1 .. at : String(strcpy(buf, at, e))[k] = buf[k - 1]
          /\ \A k \in 1 .. Len(e) : String(strcpy(buf, at, e))[at + k] = e[k]
      BY <2>1, <2>3, <3>1, <3>2, StrcpyString
    <3> QED  BY <2>2, <3>1, <3>3 DEF e
  <2> HIDE DEF len, s, at
  <2>5. \A k \in 1 .. 6 : s[at + (3 + k)] = SLAVE[k]
    <3>1. \A k \in 1 .. 6 : 3 + k \in 1 .. 9
      OBVIOUS
    <3> QED  BY <2>4, <3>1, EndingsUnended
  <2>6. Keeps(s, String(buf))
    <3>1. \A k \in 1 .. len : k <= FILENAME_BUFF_SIZE - 17 => k \in 1 .. at /\ k <= Len(s)
      BY <1>1, <2>1, <2>4, Sizes
    <3>2. \A k \in 1 .. len : k <= FILENAME_BUFF_SIZE - 17 => s[k] = String(buf)[k]
      BY <1>1, <2>4, <3>1
    <3> QED  BY <1>1, <3>1, <3>2 DEF Keeps
  <2>7. EndsInSlave(s)
    BY <2>1, <2>4, <2>5 DEF EndsInSlave
  <2> QED  BY <2>6, <2>7 DEF s
<1> QED  BY <1>3, <1>4

-----------------------------------------------------------------------------
(* Words.                                                                  *)

\* The words of the buffer are in the buffer.
LEMMA WordFits ==
  ASSUME NEW w \in 0 .. WORDS - 1
  PROVE  /\ w * WORD \in Nat /\ (w + 1) * WORD = w * WORD + WORD
         /\ w * WORD + WORD <= FILENAME_BUFF_SIZE
<1>1. w \in Nat /\ w + 1 <= WORDS
  BY Sizes
<1>2. w * WORD \in Nat /\ (w + 1) * WORD = w * WORD + WORD
  BY <1>1, Sizes
<1>3. \A a, b, c \in Nat : a <= b => a * c <= b * c
  BY SMT
<1>4. (w + 1) * WORD <= WORDS * WORD
  BY <1>1, <1>3, Sizes
<1> QED  BY <1>2, <1>4 DEF FILENAME_BUFF_SIZE

\* An offset behind the start of a word is in that word or behind it.
LEMMA WordOf ==
  ASSUME NEW n \in Nat, NEW w \in Nat, w * WORD <= n
  PROVE  /\ (n \div WORD + 1) * WORD >= w * WORD + WORD
         /\ n < w * WORD + WORD => (n \div WORD + 1) * WORD = w * WORD + WORD
<1> DEFINE q == n \div WORD
<1>1. q \in Nat /\ q * WORD <= n /\ n < q * WORD + WORD
  BY Sizes, SMT
<1> HIDE DEF q
<1>2. \A a, b, c \in Nat : a <= b => a * c <= b * c
  BY SMT
<1>3. \A a, c \in Nat : (a + 1) * c = a * c + c
  BY SMT
<1>4. q >= w
  <2>1. SUFFICES ASSUME q + 1 <= w PROVE FALSE
    BY <1>1
  <2>2. (q + 1) * WORD <= w * WORD
    BY <1>1, <1>2, <2>1, Sizes
  <2> QED  BY <1>1, <1>3, <2>2, Sizes
<1>5. (q + 1) * WORD = q * WORD + WORD /\ (w + 1) * WORD = w * WORD + WORD
  BY <1>1, <1>3, Sizes
<1>6. (w + 1) * WORD <= (q + 1) * WORD
  BY <1>1, <1>2, <1>4, Sizes
<1>7. ASSUME n < w * WORD + WORD
      PROVE  q = w
  <2>1. SUFFICES ASSUME w + 1 <= q PROVE FALSE
    BY <1>1, <1>4
  <2>2. (w + 1) * WORD <= q * WORD
    BY <1>1, <1>2, <2>1, Sizes
  <2> QED  BY <1>1, <1>5, <1>7, <2>2, Sizes
<1> QED  BY <1>5, <1>6, <1>7 DEF q

-----------------------------------------------------------------------------
(* The invariant: the types, and what read_string has done so far.         *)

CallerInv ==
  /\ edge \in Edge /\ touched \in BOOLEAN
  /\ DOMAIN mem \subseteq Nat
  /\ \A a \in 0 .. edge - 1 : a \in DOMAIN mem /\ mem[a] \in Char

ReaderInv ==
  /\ pc \in {"ready", "peek", "call", "return", "exit"}
  /\ i \in 0 .. WORDS
  /\ filename_buffer \in [Buffer -> Char]
  /\ pc \in {"call", "return"} => Ends(filename_buffer) # {}

TablesInv ==
  /\ fd \in BOOLEAN
  /\ name \in Seq(Char) /\ Len(name) < FILENAME_BUFF_SIZE
  /\ peer \in Seq(Char) /\ Len(peer) < FILENAME_BUFF_SIZE
  /\ filename \in [Buffer -> Char]

\* The words before the one that is to be read next.
SoFar ==
  pc = "peek" =>
    /\ i * WORD <= edge
    /\ ~touched => \A k \in 0 .. i * WORD - 1 : mem[k] # NUL /\ filename_buffer[k] = mem[k]

Ended == Ends(mem) # {} /\ strlen(mem) < FILENAME_BUFF_SIZE

\* The whole path is in the buffer, or the whole buffer is full of it.
Whole ==
  pc \in {"call", "return"} /\ ~touched =>
    /\ edge >= Needed
    /\ Ended => \A k \in 0 .. strlen(mem) : k \in DOMAIN mem /\ filename_buffer[k] = mem[k]
    /\ ~Ended => /\ \A k \in 0 .. FILENAME_BUFF_SIZE - 2 : mem[k] # NUL /\ filename_buffer[k] = mem[k]
                 /\ filename_buffer[FILENAME_BUFF_SIZE - 1] = NUL

AtEdge == pc = "exit" /\ ~touched => edge < Needed

Opened == pc = "return" /\ fd => Ends(mem) # {}

Unended(s) == \A k \in 1 .. Len(s) : s[k] # NUL

\* The names in the table, between the opening of one file and the next.
Names ==
  /\ Unended(name) /\ Unended(peer)
  /\ pc \in {"peek", "call", "return"} => peer = <<>>
  /\ peer # <<>> => Keeps(peer, name) /\ EndsInSlave(peer)

Inv == CallerInv /\ ReaderInv /\ TablesInv /\ SoFar /\ Whole /\ AtEdge /\ Opened /\ Names

LEMMA FreshFits == Fresh \subseteq [Buffer -> Char]
BY FilenamesAssumption DEF Fresh

LEMMA EmptyFits == <<>> \in Seq(Char) /\ Len(<<>>) < FILENAME_BUFF_SIZE
<1>1. <<>> \in Seq(Char) /\ Len(<<>>) = 0
  BY SMT
<1> QED  BY <1>1, Sizes

LEMMA EmptyUnended == Unended(<<>>)
<1>1. Len(<<>>) = 0
  BY SMT
<1> QED  BY <1>1 DEF Unended

LEMMA InvInit == Init => Inv
<1> SUFFICES ASSUME Init PROVE Inv
  OBVIOUS
<1>1. CallerInv
  BY FilenamesAssumption DEF Init, CallerInv
<1>2. ReaderInv
  BY Sizes, FreshFits DEF Init, ReaderInv
<1>3. TablesInv
  BY EmptyFits, FreshFits, Zenon DEF Init, TablesInv
<1>4. SoFar /\ Whole /\ AtEdge /\ Opened
  BY DEF Init, SoFar, Whole, AtEdge, Opened
<1>5. Names
  BY EmptyUnended DEF Init, Names
<1> QED  BY <1>1, <1>2, <1>3, <1>4, <1>5 DEF Inv

LEMMA InvOpen == Inv /\ handle_open_call => Inv'
<1> SUFFICES ASSUME Inv, handle_open_call PROVE Inv'
  OBVIOUS
<1>1. CallerInv'
  BY FilenamesAssumption DEF handle_open_call, CallerInv
<1>2. ReaderInv'
  BY Sizes DEF Inv, ReaderInv, handle_open_call
<1>3. TablesInv'
  BY EmptyFits, FreshFits, Zenon DEF TablesInv, handle_open_call
<1>4. SoFar'
  BY Sizes DEF SoFar, handle_open_call, Inv, CallerInv
<1>5. (Whole /\ AtEdge /\ Opened)'
  BY DEF Whole, AtEdge, Opened, handle_open_call
<1>6. Names'
  BY EmptyUnended DEF Names, handle_open_call
<1> QED  BY <1>1, <1>2, <1>3, <1>4, <1>5, <1>6 DEF Inv

LEMMA InvPeek == Inv /\ peek => Inv'
<1> SUFFICES ASSUME Inv, peek PROVE Inv'
  OBVIOUS
<1> DEFINE at == i * WORD
           read == Word(at)
           ended == \E k \in 1 .. WORD : read[k] = NUL
           before == \A k \in 0 .. at - 1 : mem[k] # NUL /\ filename_buffer[k] = mem[k]
<1>a. i \in 0 .. WORDS - 1 /\ i \in Nat /\ pc = "peek"
  BY Sizes DEF Inv, ReaderInv, peek
<1>b. /\ at \in Nat /\ (i + 1) * WORD = at + WORD
      /\ at + WORD <= FILENAME_BUFF_SIZE /\ at <= edge
      /\ edge \in Nat /\ DOMAIN mem \subseteq Nat
  BY <1>a, WordFits, Sizes DEF Inv, SoFar, CallerInv
<1>c. ~touched => before
  BY <1>a DEF Inv, SoFar
<1>d. UNCHANGED <<mem, edge, touched, fd, name, filename, peer>>
  BY DEF peek, caller, tables
<1>e. pc' \in {"peek", "call", "exit"}
  BY <1>a DEF peek
<1>1. CallerInv' /\ TablesInv' /\ Names'
  BY <1>a, <1>d, <1>e DEF Inv, CallerInv, TablesInv, Ends, Names
<1>2. CASE at + WORD > edge
  <2>1. pc' = "exit" /\ UNCHANGED <<i, filename_buffer>>
    BY <1>2 DEF peek
  <2>2. ReaderInv' /\ SoFar' /\ Whole' /\ Opened'
    BY <2>1 DEF Inv, ReaderInv, SoFar, Whole, Opened
  <2>3. AtEdge'
    <3>1. SUFFICES ASSUME ~touched PROVE edge < Needed
      BY <1>d, <2>1 DEF AtEdge, Needed, Ends, strlen
    <3>2. CASE Ended
      <4>1. strlen(mem) \in Nat /\ mem[strlen(mem)] = NUL
        BY <1>b, <3>2, StrlenLeast DEF Ended, Ends
      <4>2. at <= strlen(mem)
        BY <1>b, <1>c, <3>1, <4>1
      <4> HIDE DEF at
      <4>3. Needed >= at + WORD
        <5>1. Needed = (strlen(mem) \div WORD + 1) * WORD
          BY <3>2 DEF Ended, Needed
        <5> QED  BY <1>a, <4>1, <4>2, <5>1, WordOf DEF at
      <4>4. Needed \in Nat
        BY <3>2, <4>1, Sizes DEF Ended, Needed
      <4> QED  BY <1>2, <1>b, <4>3, <4>4, Sizes
    <3>3. CASE ~Ended
      BY <1>2, <1>b, <3>3, Sizes DEF Ended, Needed
    <3> QED  BY <3>2, <3>3
  <2> QED  BY <1>1, <2>2, <2>3 DEF Inv
<1>3. CASE ~ (at + WORD > edge)
  <2>1. /\ filename_buffer' = Copy(filename_buffer, at, read)
        /\ pc' = IF ended THEN "call" ELSE "peek"
        /\ i' = IF ended THEN i ELSE i + 1
    BY <1>3 DEF peek
  <2>2. /\ read \in Seq(Char) /\ Len(read) = WORD
        /\ \A k \in 1 .. WORD : read[k] = mem[at + k - 1]
    <3>1. \A k \in 1 .. WORD : mem[at + k - 1] \in Char
      BY <1>3, <1>b, Sizes DEF Inv, CallerInv
    <3> QED  BY <3>1, Sizes DEF Word
  <2>3. /\ filename_buffer' \in [Buffer -> Char]
        /\ \A k \in Buffer : filename_buffer'[k] =
             IF k \in at .. at + WORD - 1 THEN read[k - at + 1] ELSE filename_buffer[k]
    <3> HIDE DEF at, read
    <3>1. filename_buffer \in [Buffer -> Char] /\ at + Len(read) <= FILENAME_BUFF_SIZE
      BY <1>b, <2>2 DEF Inv, ReaderInv
    <3>2. at \in Nat /\ read \in Seq(Char)
      BY <1>b, <2>2
    <3>3. /\ Copy(filename_buffer, at, read) \in [Buffer -> Char]
          /\ \A k \in Buffer : Copy(filename_buffer, at, read)[k] =
               IF k \in at .. at + Len(read) - 1 THEN read[k - at + 1] ELSE filename_buffer[k]
      BY <3>1, <3>2, CopyFits
    <3> QED  BY <2>1, <2>2, <3>3
  <2>4. \A k \in at .. at + WORD - 1 : k \in Buffer /\ filename_buffer'[k] = mem[k]
    <3> HIDE DEF at, read
    <3>1. TAKE k \in at .. at + WORD - 1
    <3>2. k \in Buffer /\ k - at + 1 \in 1 .. WORD /\ at + (k - at + 1) - 1 = k
      BY <1>b, Sizes DEF Buffer
    <3> QED  BY <2>2, <2>3, <3>2
  <2>5. ~touched => \A k \in 0 .. at - 1 : mem[k] # NUL /\ filename_buffer'[k] = mem[k]
    <3> HIDE DEF at, read
    <3>1. \A k \in 0 .. at - 1 : k \in Buffer /\ k \notin at .. at + WORD - 1
      BY <1>b, Sizes DEF Buffer
    <3> QED  BY <1>c, <2>3, <3>1
  <2> HIDE DEF at, read, ended, before
  <2>6. AtEdge' /\ Opened'
    BY <2>1 DEF AtEdge, Opened
  <2>7. CASE ended
    <3>1. PICK z \in at .. at + WORD - 1 : mem[z] = NUL
      <4>1. PICK k \in 1 .. WORD : read[k] = NUL
        BY <2>7 DEF ended
      <4>2. at + k - 1 \in at .. at + WORD - 1 /\ mem[at + k - 1] = NUL
        BY <1>b, <2>2, <4>1, Sizes
      <4> QED  BY <4>2
    <3>2. z \in Ends(mem) /\ z \in Ends(filename_buffer')
      <4>1. z \in DOMAIN mem
        BY <1>3, <1>b, Sizes DEF Inv, CallerInv
      <4> QED  BY <2>3, <2>4, <3>1, <4>1 DEF Ends
    <3>3. ReaderInv'
      BY <1>a, <2>1, <2>3, <2>7, <3>2, Sizes DEF ReaderInv
    <3>4. Whole'
      <4>1. SUFFICES ASSUME ~touched
                     PROVE  /\ edge >= Needed
                            /\ Ended
                            /\ \A k \in 0 .. strlen(mem) : k \in DOMAIN mem /\ filename_buffer'[k] = mem[k]
        BY <1>d DEF Whole, Ended, Needed, Ends, strlen
      <4> DEFINE n == strlen(mem)
      <4>2. n \in Nat /\ mem[n] = NUL /\ n <= z
        BY <1>b, <3>2, StrlenLeast DEF Ends
      <4>3. at <= n /\ n < at + WORD
        BY <1>b, <2>5, <3>1, <4>1, <4>2, Sizes
      <4>4. Ended
        BY <1>b, <3>2, <4>2, <4>3, Sizes DEF Ended
      <4> HIDE DEF n
      <4>5. Needed = at + WORD
        <5>1. Needed = (n \div WORD + 1) * WORD
          BY <4>4 DEF Ended, Needed, n
        <5> QED  BY <1>a, <4>2, <4>3, <5>1, WordOf DEF at
      <4>6. \A k \in 0 .. n : filename_buffer'[k] = mem[k]
        BY <1>b, <2>4, <2>5, <4>1, <4>2, <4>3, Sizes
      <4>7. \A k \in 0 .. n : k \in DOMAIN mem
        <5>1. \A a \in 0 .. edge - 1 : a \in DOMAIN mem
          BY DEF Inv, CallerInv
        <5>2. \A k \in 0 .. n : k \in 0 .. edge - 1
          BY <1>3, <1>b, <4>2, <4>3, Sizes
        <5> QED  BY <5>1, <5>2
      <4> QED  BY <1>3, <1>b, <4>4, <4>5, <4>6, <4>7, Sizes DEF n
    <3>5. SoFar'
      BY <2>1, <2>7 DEF SoFar
    <3> QED  BY <1>1, <2>6, <3>3, <3>4, <3>5 DEF Inv
  <2>8. CASE ~ended
    <3>1. ReaderInv'
      BY <1>a, <2>1, <2>3, <2>8, Sizes DEF ReaderInv
    <3>2. Whole'
      BY <2>1, <2>8 DEF Whole
    <3>3. SoFar'
      <4>1. i' * WORD = at + WORD
        BY <1>b, <2>1, <2>8
      <4>2. \A k \in at .. at + WORD - 1 : mem[k] # NUL
        <5>1. TAKE k \in at .. at + WORD - 1
        <5>2. k - at + 1 \in 1 .. WORD /\ at + (k - at + 1) - 1 = k
          BY <1>b, Sizes
        <5> QED  BY <2>2, <2>8, <5>2 DEF ended
      <4>3. ~touched => \A k \in 0 .. at + WORD - 1 : mem[k] # NUL /\ filename_buffer'[k] = mem[k]
        BY <1>b, <2>4, <2>5, <4>2, Sizes
      <4> QED  BY <1>3, <1>b, <1>d, <4>1, <4>3, Sizes DEF SoFar
    <3> QED  BY <1>1, <2>6, <3>1, <3>2, <3>3 DEF Inv
  <2> QED  BY <2>7, <2>8
<1> QED  BY <1>2, <1>3

LEMMA InvCut == Inv /\ cut => Inv'
<1> SUFFICES ASSUME Inv, cut PROVE Inv'
  OBVIOUS
<1> DEFINE last == FILENAME_BUFF_SIZE - 1
<1>1. /\ last \in Buffer /\ last \in Nat
      /\ filename_buffer \in [Buffer -> Char]
      /\ filename_buffer' = [filename_buffer EXCEPT ![last] = NUL]
      /\ UNCHANGED <<mem, edge, touched, i, fd, name, filename, peer>>
  BY Sizes DEF Buffer, Inv, ReaderInv, cut, caller, tables
<1>2. pc = "peek" /\ pc' = "call" /\ i = WORDS
  BY DEF cut
<1>3. CallerInv' /\ TablesInv' /\ Names'
  BY <1>1, <1>2 DEF Inv, CallerInv, TablesInv, Names
<1>4. filename_buffer' \in [Buffer -> Char] /\ filename_buffer'[last] = NUL
  BY <1>1, Sizes
<1>5. ReaderInv'
  <2>1. Ends(filename_buffer') # {}
    BY <1>1, <1>4 DEF Ends
  <2> QED  BY <1>1, <1>2, <1>4, <2>1 DEF Inv, ReaderInv
<1>6. SoFar' /\ AtEdge' /\ Opened'
  BY <1>2 DEF SoFar, AtEdge, Opened
<1>7. Whole'
  <2>1. SUFFICES ASSUME ~touched
                 PROVE  /\ edge >= Needed
                        /\ ~Ended
                        /\ \A k \in 0 .. FILENAME_BUFF_SIZE - 2 :
                             mem[k] # NUL /\ filename_buffer'[k] = mem[k]
    BY <1>1, <1>4 DEF Whole, Ended, Needed, Ends, strlen
  <2>2. /\ FILENAME_BUFF_SIZE <= edge
        /\ \A k \in 0 .. FILENAME_BUFF_SIZE - 1 : mem[k] # NUL /\ filename_buffer[k] = mem[k]
    BY <1>2, <2>1 DEF Inv, SoFar, FILENAME_BUFF_SIZE
  <2>3. ~Ended
    <3>1. SUFFICES ASSUME Ended PROVE FALSE
      OBVIOUS
    <3>2. strlen(mem) \in Nat /\ mem[strlen(mem)] = NUL
      BY <3>1, StrlenLeast DEF Inv, CallerInv, Ended, Ends
    <3> QED  BY <2>2, <3>1, <3>2, Sizes DEF Ended
  <2>4. \A k \in 0 .. FILENAME_BUFF_SIZE - 2 : k \in Buffer /\ k # last
    BY Sizes DEF Buffer
  <2>5. \A k \in 0 .. FILENAME_BUFF_SIZE - 2 : mem[k] # NUL /\ filename_buffer'[k] = mem[k]
    BY <1>1, <2>2, <2>4, Sizes
  <2>6. edge >= Needed
    BY <2>2, <2>3, Sizes DEF Inv, CallerInv, Needed, Ended
  <2> QED  BY <2>3, <2>5, <2>6
<1> QED  BY <1>3, <1>5, <1>6, <1>7 DEF Inv

LEMMA InvScribble == Inv /\ scribble => Inv'
<1> SUFFICES ASSUME Inv, scribble PROVE Inv'
  OBVIOUS
<1>1. PICK w \in Scribble : w[1] < edge /\ mem' = [mem EXCEPT ![w[1]] = w[2]]
  BY DEF scribble
<1>2. /\ touched' = TRUE /\ pc \in {"peek", "call"}
      /\ UNCHANGED <<edge, pc, i, filename_buffer, fd, name, filename, peer>>
  BY DEF scribble, reader, tables
<1>3. w[1] \in Nat /\ w[2] \in Char
  BY FilenamesAssumption
<1>4. CallerInv'
  BY <1>1, <1>2, <1>3, Sizes DEF Inv, CallerInv
<1>5. ReaderInv' /\ TablesInv' /\ Names'
  BY <1>2 DEF Inv, ReaderInv, TablesInv, Ends, Names
<1>6. (SoFar /\ Whole /\ AtEdge /\ Opened)'
  BY <1>2 DEF Inv, SoFar, Whole, AtEdge, Opened
<1> QED  BY <1>4, <1>5, <1>6 DEF Inv

LEMMA InvKernel == Inv /\ kernel_open => Inv'
<1> SUFFICES ASSUME Inv, kernel_open PROVE Inv'
  OBVIOUS
<1>1. /\ pc = "call" /\ pc' = "return"
      /\ fd' \in BOOLEAN /\ (fd' => Ends(mem) # {})
      /\ UNCHANGED <<mem, edge, touched, i, filename_buffer, name, filename, peer>>
  BY DEF kernel_open, caller
<1>2. CallerInv' /\ ReaderInv' /\ TablesInv' /\ Names'
  BY <1>1 DEF Inv, CallerInv, ReaderInv, TablesInv, Ends, Names
<1>3. (SoFar /\ Whole /\ AtEdge /\ Opened)'
  BY <1>1 DEF Inv, SoFar, Whole, AtEdge, Opened, Ended, Needed, Ends, strlen
<1> QED  BY <1>2, <1>3 DEF Inv

LEMMA InvReturn == Inv /\ handle_open_return => Inv'
<1> SUFFICES ASSUME Inv, handle_open_return PROVE Inv'
  OBVIOUS
<1>1. /\ pc = "return" /\ pc' = "ready"
      /\ name' \in {name, String(filename_buffer)}
      /\ UNCHANGED <<mem, edge, touched, i, filename_buffer, fd, filename, peer>>
  BY DEF handle_open_return, caller
<1>2. CallerInv' /\ ReaderInv'
  BY <1>1 DEF Inv, CallerInv, ReaderInv
<1>3. TablesInv'
  BY <1>1, StringShort DEF Inv, ReaderInv, TablesInv
<1>4. (SoFar /\ Whole /\ AtEdge /\ Opened)'
  BY <1>1 DEF SoFar, Whole, AtEdge, Opened
<1>5. Names'
  <2>1. Unended(String(filename_buffer))
    BY <1>1, StringUnended DEF Inv, ReaderInv, Unended
  <2> QED  BY <1>1, <2>1 DEF Inv, Names
<1> QED  BY <1>2, <1>3, <1>4, <1>5 DEF Inv

LEMMA InvDup == Inv /\ fd_table_insert_dup => Inv'
<1> SUFFICES ASSUME Inv, fd_table_insert_dup PROVE Inv'
  OBVIOUS
<1>1. PICK orig \in {name} \cup ({peer} \ {<<>>}), stack \in Fresh :
        filename' = SlaveOf(strcpy(stack, 0, orig))
  BY DEF fd_table_insert_dup
<1>2. /\ peer' = String(filename')
      /\ UNCHANGED <<mem, edge, touched, pc, i, filename_buffer, fd, name>>
  BY DEF fd_table_insert_dup, caller, reader
<1>3. stack \in [Buffer -> Char] /\ orig \in Seq(Char) /\ 0 + Len(orig) < FILENAME_BUFF_SIZE
  BY FreshFits DEF Inv, TablesInv
<1>4. strcpy(stack, 0, orig) \in [Buffer -> Char] /\ Ends(strcpy(stack, 0, orig)) # {}
  BY <1>3, StrcpyFits
<1>5. filename' \in [Buffer -> Char] /\ Ends(filename') # {}
  BY <1>1, <1>4, SlaveFits
<1>6. TablesInv'
  <2>1. peer' \in Seq(Char) /\ Len(peer') < FILENAME_BUFF_SIZE
    BY <1>2, <1>5, StringShort
  <2> QED  BY <1>2, <1>5, <2>1 DEF Inv, TablesInv
<1>7. CallerInv' /\ ReaderInv'
  BY <1>2 DEF Inv, CallerInv, ReaderInv, Ends
<1>8. (SoFar /\ Whole /\ AtEdge /\ Opened)'
  BY <1>2 DEF Inv, SoFar, Whole, AtEdge, Opened, Ended, Needed, Ends, strlen
<1>9. Names'
  <2> DEFINE b == strcpy(stack, 0, orig)
  <2>1. orig = name \/ (orig = peer /\ peer # <<>>)
    BY <1>1
  <2>2. Unended(orig) /\ Keeps(orig, name)
    <3>1. Unended(orig)
      BY <2>1 DEF Inv, Names
    <3>2. Keeps(name, name)
      BY DEF Inv, TablesInv, Keeps
    <3> QED  BY <2>1, <3>1, <3>2 DEF Inv, Names
  <2>3. Len(String(b)) = Len(orig) /\ \A k \in 1 .. Len(orig) : String(b)[k] = orig[k]
    <3>1. Len(orig) \in Nat /\ \A k \in 0 .. 0 - 1 : stack[k] # NUL
      BY <1>3
    <3>2. \A k \in 1 .. Len(orig) : orig[k] # NUL
      BY <2>2 DEF Unended
    <3>3. /\ Len(String(b)) = 0 + Len(orig)
          /\ \A k \in 1 .. Len(orig) : String(b)[0 + k] = orig[k]
      BY <1>3, <3>1, <3>2, StrcpyString
    <3> QED  BY <3>1, <3>3
  <2>4. Keeps(String(SlaveOf(b)), String(b)) /\ EndsInSlave(String(SlaveOf(b)))
    BY <1>4, SlaveNames
  <2>5. peer' = String(SlaveOf(b))
    BY <1>1, <1>2
  <2> HIDE DEF b
  <2>6. Keeps(peer', orig) /\ EndsInSlave(peer')
    BY <2>3, <2>4, <2>5 DEF Keeps
  <2>7. Keeps(peer', name)
    <3>1. SUFFICES ASSUME NEW k \in 1 .. Len(name), k <= FILENAME_BUFF_SIZE - 17
                   PROVE  k <= Len(peer') /\ peer'[k] = name[k]
      BY DEF Keeps
    <3>2. k <= Len(orig) /\ orig[k] = name[k]
      BY <2>2, <3>1 DEF Keeps
    <3>3. k \in 1 .. Len(orig)
      BY <1>3, <3>1, <3>2
    <3> QED  BY <2>6, <3>1, <3>2, <3>3 DEF Keeps
  <2>8. Unended(peer')
    BY <1>2, <1>5, StringUnended DEF Unended
  <2>9. name' = name /\ pc' = pc /\ pc = "ready"
    BY <1>2 DEF fd_table_insert_dup
  <2> QED  BY <2>6, <2>7, <2>8, <2>9 DEF Inv, Names
<1> QED  BY <1>6, <1>7, <1>8, <1>9 DEF Inv

LEMMA InvStutter == Inv /\ UNCHANGED vars => Inv'
<1> SUFFICES ASSUME Inv, UNCHANGED vars PROVE Inv'
  OBVIOUS
<1>1. UNCHANGED <<mem, edge, touched, pc, i, filename_buffer, fd, name, filename, peer>>
  BY DEF vars, caller, reader, tables
<1> QED  BY <1>1 DEF Inv, CallerInv, ReaderInv, TablesInv, SoFar, Whole, AtEdge, Opened,
                     Names, Ended, Needed, Ends, strlen

-----------------------------------------------------------------------------
\* The invariant holds in every state.
THEOREM Invariance == Spec => []Inv
<1>1. Inv /\ [Next]_vars => Inv'
  BY InvOpen, InvPeek, InvCut, InvScribble, InvKernel, InvReturn, InvDup, InvStutter DEF Next
<1> QED  BY InvInit, <1>1, PTL DEF Spec

\* Type correctness.
THEOREM TypeCorrect == Spec => []TypeOK
<1>1. Inv => TypeOK
  BY DEF Inv, CallerInv, ReaderInv, TablesInv, TypeOK
<1> QED  BY <1>1, Invariance, PTL

\* read_string and fd_table_insert_dup stay within their buffers.
THEOREM NoOverrun == Spec => []InBounds
<1>1. Inv => InBounds
  BY DEF Inv, ReaderInv, TablesInv, InBounds
<1> QED  BY <1>1, Invariance, PTL

\* iotrace ends in read_string exactly for a path close to the edge of memory.
THEOREM ExitsOnlyAtEdge == Spec => []ExitsAtEdge
<1>1. Inv => ExitsAtEdge
  BY DEF Inv, Whole, AtEdge, ExitsAtEdge
<1> QED  BY <1>1, Invariance, PTL

\* The name of a peer says that it is one, and of which terminal.
THEOREM PeerNamedAfter == Spec => []PeerNamed
<1>1. Inv => PeerNamed
  <2>1. SUFFICES ASSUME Inv, peer # <<>>
                 PROVE  /\ SubSeq(peer, Len(peer) - 5, Len(peer)) = SLAVE
                        /\ \A k \in 1 .. Len(name) : k <= FILENAME_BUFF_SIZE - 17 => peer[k] = name[k]
    BY DEF PeerNamed
  <2>2. Keeps(peer, name) /\ EndsInSlave(peer) /\ peer \in Seq(Char)
    BY <2>1 DEF Inv, Names, TablesInv
  <2>3. SubSeq(peer, Len(peer) - 5, Len(peer)) = SLAVE
    <3> DEFINE n == Len(peer)
               t == SubSeq(peer, n - 5, n)
    <3>1. n \in Nat /\ n >= 6 /\ \A k \in 1 .. 6 : peer[n - 6 + k] = SLAVE[k]
      BY <2>2 DEF EndsInSlave
    <3>2. t = [k \in 1 .. 6 |-> peer[n - 6 + k]]
      <4> HIDE DEF n
      <4>1. t = [k \in 1 .. n - (n - 5) + 1 |-> peer[k + (n - 5) - 1]]
        BY <2>2, <3>1
      <4>2. n - (n - 5) + 1 = 6 /\ \A k \in 1 .. 6 : k + (n - 5) - 1 = n - 6 + k
        BY <3>1
      <4> QED  BY <4>1, <4>2
    <3>3. SLAVE = [k \in 1 .. 6 |-> SLAVE[k]]
      BY DEF SLAVE
    <3> HIDE DEF n, t
    <3>4. t = SLAVE
      BY <3>1, <3>2, <3>3
    <3> QED  BY <3>4 DEF t, n
  <2> QED  BY <2>2, <2>3 DEF Keeps
<1> QED  BY <1>1, Invariance, PTL

\* The name of a file is the path it was opened by, as far as it fits.
THEOREM NamedByPath == Spec => []NameOfPath
<1>1. Inv => NameOfPath
  <2>1. SUFFICES ASSUME Inv, pc = "return", fd, ~touched
                 PROVE  String(filename_buffer) = Cut(mem)
    BY DEF NameOfPath
  <2> DEFINE b == filename_buffer
             n == strlen(mem)
             last == FILENAME_BUFF_SIZE - 1
  <2>2. /\ b \in [Buffer -> Char] /\ DOMAIN b = Buffer /\ DOMAIN b \subseteq Nat
        /\ DOMAIN mem \subseteq Nat /\ Ends(mem) # {} /\ last \in Buffer
    BY <2>1, Sizes DEF Inv, ReaderInv, CallerInv, Opened, Buffer
  <2>3. n \in Ends(mem) /\ n \in Nat /\ mem[n] = NUL /\ \A k \in Ends(mem) : n <= k
    BY <2>2, StrlenLeast DEF Ends
  <2>4. CASE n < FILENAME_BUFF_SIZE
    <3>1. \A k \in 0 .. n : k \in DOMAIN mem /\ b[k] = mem[k]
      BY <2>1, <2>2, <2>4 DEF Inv, Whole, Ended
    <3>2. n \in Ends(b)
      BY <2>2, <2>3, <2>4, <3>1, Sizes DEF Ends, Buffer
    <3>3. \A k \in Ends(b) : n <= k
      <4>1. SUFFICES ASSUME NEW k \in Ends(b), k < n PROVE FALSE
        BY <2>2, <2>3 DEF Ends
      <4>2. k \in 0 .. n /\ b[k] = NUL
        BY <2>2, <2>3, <4>1 DEF Ends
      <4>3. k \in Ends(mem)
        BY <3>1, <4>2 DEF Ends
      <4> QED  BY <2>3, <4>1, <4>2, <4>3
    <3>4. strlen(b) = n
      BY <2>2, <3>2, <3>3, StrlenUnique
    <3> QED  BY <2>3, <2>4, <3>1, <3>4 DEF String, Text, Cut
  <2>5. CASE ~ (n < FILENAME_BUFF_SIZE)
    <3>1. /\ \A k \in 0 .. FILENAME_BUFF_SIZE - 2 : mem[k] # NUL /\ b[k] = mem[k]
          /\ b[last] = NUL
      BY <2>1, <2>5 DEF Inv, Whole, Ended
    <3>2. last \in Ends(b)
      BY <2>2, <3>1 DEF Ends
    <3>3. \A k \in Ends(b) : last <= k
      BY <2>2, <3>1, Sizes DEF Ends, Buffer
    <3>4. strlen(b) = last
      BY <2>2, <3>2, <3>3, StrlenUnique
    <3> QED  BY <2>5, <3>1, <3>4, Sizes DEF String, Text, Cut
  <2> QED  BY <2>4, <2>5
<1> QED  BY <1>1, Invariance, PTL
=============================================================================

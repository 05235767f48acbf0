-------------------------- MODULE RecordText_proofs --------------------------
(***************************************************************************)
(* Theorems about the text of the record files: for lists of any length,   *)
(* addresses of any number of bytes, groups of any number of members and   *)
(* any numbers, names and lines written by hand.                           *)
(*                                                                         *)
(* The loops of the parser and of the search are recursive functions.      *)
(* What they compute is proved by induction over their index, in the form  *)
(* of a set of numbers that has 0 and, with a number, the next one.        *)
(***************************************************************************)
EXTENDS RecordText, RecordFile_proofs

-----------------------------------------------------------------------------
(* Induction. *)

\* A set that has 0 and the successor of whatever it has up to n - 1 has all
\* numbers up to n.
LEMMA UpTo ==
    ASSUME NEW n \in Nat, NEW T, 0 \in T, \A i \in 0..(n - 1) : i \in T => i + 1 \in T
    PROVE  \A i \in 0..n : i \in T
<1> DEFINE Out == {i \in 0..n : i \notin T}
<1> SUFFICES ASSUME Out # {} PROVE FALSE
  OBVIOUS
<1>1. Out \subseteq Nat
  OBVIOUS
<1> DEFINE k == FirstOf(Out)
<1>2. k \in Out /\ \A j \in Out : k <= j
  BY <1>1, FirstOfProperties
<1> HIDE DEF k
<1>3. k \in 1..n /\ k - 1 \in 0..(n - 1) /\ k \notin T
  BY <1>2
<1>4. k - 1 \in T
  BY <1>2, <1>3
<1>5. (k - 1) + 1 \in T
  BY <1>3, <1>4
<1> QED
  BY <1>3, <1>5

-----------------------------------------------------------------------------
(* Reading along a line. *)

\* Names for what is taken from a line and added to the fields, for proofs that
\* need not know what a sequence is.
Rest(r) == Tail(r)
With(f, v) == Append(f, v)
Before(v, b) == <<v>> \o b

\* What a reader before token k of a line has left of it.
From(s, k) == SubSeq(s, k, Len(s))

LEMMA FromSteps ==
    ASSUME NEW R, NEW s \in Seq(R)
    PROVE  /\ From(s, 1) = s
           /\ \A k \in Nat : k > Len(s) => From(s, k) = <<>>
           /\ \A k \in 1..Len(s) : /\ From(s, k) # <<>>
                                   /\ Head(From(s, k)) = s[k]
                                   /\ Rest(From(s, k)) = From(s, k + 1)
<1>1. Len(s) \in Nat /\ DOMAIN s = 1..Len(s) /\ s = [i \in 1..Len(s) |-> s[i]]
  BY LenProperties
<1>2. From(s, 1) = s
  BY SubSeqFull DEF From
<1>3. ASSUME NEW k \in Nat, k > Len(s) PROVE From(s, k) = <<>>
  BY <1>1, <1>3, SubSeqEmpty DEF From
<1>4. ASSUME NEW k \in 1..Len(s)
      PROVE  /\ From(s, k) # <<>> /\ Head(From(s, k)) = s[k]
             /\ Rest(From(s, k)) = From(s, k + 1)
  <2>1. k \in 1..Len(s) /\ Len(s) \in k..Len(s) /\ k \in Nat
    BY <1>1
  <2>2. Head(From(s, k)) = s[k] /\ Rest(From(s, k)) = From(s, k + 1)
    BY <2>1, HeadTailOfSubSeq DEF From, Rest
  <2>3. Len(From(s, k)) = Len(s) - k + 1
    BY <1>1, <2>1, SubSeqProperties DEF From
  <2>4. Len(From(s, k)) # 0
    BY <1>1, <2>3
  <2> QED
    BY <2>2, <2>4, EmptySeq
<1> QED
  BY <1>2, <1>3, <1>4

-----------------------------------------------------------------------------
(* The field parser. *)

State(r, c, e, b, f) == [rest |-> r, code |-> c, errno |-> e, bytes |-> b, fields |-> f]

LEMMA StateFields ==
    ASSUME NEW r, NEW c, NEW e, NEW b, NEW f
    PROVE  /\ State(r, c, e, b, f).rest = r /\ State(r, c, e, b, f).code = c
           /\ State(r, c, e, b, f).errno = e /\ State(r, c, e, b, f).bytes = b
           /\ State(r, c, e, b, f).fields = f
BY DEF State

\* A state is known by its fields.
LEMMA IsState ==
    ASSUME NEW r, NEW c, NEW e, NEW b, NEW f,
           NEW p \in [rest : {r}, code : {c}, errno : {e}, bytes : {b}, fields : {f}]
    PROVE  p = State(r, c, e, b, f)
BY DEF State

\* What the assignments of the parser make of a state.
LEMMA SetCode ==
    ASSUME NEW r, NEW c, NEW e, NEW b, NEW f, NEW x, NEW p, p = State(r, c, e, b, f)
    PROVE  [p EXCEPT !.code = x] = State(r, x, e, b, f)
<1>1. p \in [rest : {r}, code : {c}, errno : {e}, bytes : {b}, fields : {f}]
  BY DEF State
<1>2. [p EXCEPT !.code = x]
        \in [rest : {r}, code : {x}, errno : {e}, bytes : {b}, fields : {f}]
  BY <1>1
<1> QED
  BY <1>2, IsState

LEMMA SetRest ==
    ASSUME NEW r, NEW c, NEW e, NEW b, NEW f, NEW x, NEW p, p = State(r, c, e, b, f)
    PROVE  [p EXCEPT !.rest = x] = State(x, c, e, b, f)
<1>1. p \in [rest : {r}, code : {c}, errno : {e}, bytes : {b}, fields : {f}]
  BY DEF State
<1>2. [p EXCEPT !.rest = x]
        \in [rest : {x}, code : {c}, errno : {e}, bytes : {b}, fields : {f}]
  BY <1>1
<1> QED
  BY <1>2, IsState

LEMMA SetBytes ==
    ASSUME NEW r, NEW c, NEW e, NEW b, NEW f, NEW x, NEW y, NEW p, p = State(r, c, e, b, f)
    PROVE  [p EXCEPT !.bytes = x] = State(r, c, e, x, f)
<1>1. p \in [rest : {r}, code : {c}, errno : {e}, bytes : {b}, fields : {f}]
  BY DEF State
<1>2. [p EXCEPT !.bytes = x]
        \in [rest : {r}, code : {c}, errno : {e}, bytes : {x}, fields : {f}]
  BY <1>1
<1> QED
  BY <1>2, IsState

LEMMA SetFields ==
    ASSUME NEW r, NEW c, NEW e, NEW b, NEW f, NEW x, NEW p, p = State(r, c, e, b, f)
    PROVE  [p EXCEPT !.fields = x] = State(r, c, e, b, x)
<1>1. p \in [rest : {r}, code : {c}, errno : {e}, bytes : {b}, fields : {f}]
  BY DEF State
<1>2. [p EXCEPT !.fields = x]
        \in [rest : {r}, code : {c}, errno : {e}, bytes : {b}, fields : {x}]
  BY <1>1
<1> QED
  BY <1>2, IsState

\* What the function that ends a field makes of a state.
LEMMA NextFieldSteps ==
    ASSUME NEW r, NEW e, NEW b, NEW f, NEW p, p = State(r, "ok", e, b, f)
    PROVE  /\ r = <<>> => NextField(p) = State(r, "end", e, b, f)
           /\ r # <<>> /\ Head(r) = Comma => NextField(p) = State(Rest(r), "ok", e, b, f)
           /\ r # <<>> /\ Head(r) # Comma => NextField(p) = State(r, "unexpected", e, b, f)
<1>1. p.code = "ok" /\ p.rest = r
  BY StateFields
<1>2. ASSUME r = <<>> PROVE NextField(p) = State(r, "end", e, b, f)
  <2>1. NextField(p) = [p EXCEPT !.code = "end"]
    BY <1>1, <1>2 DEF NextField
  <2> QED
    BY <2>1, SetCode
<1>3. ASSUME r # <<>>, Head(r) = Comma PROVE NextField(p) = State(Rest(r), "ok", e, b, f)
  <2>1. NextField(p) = [p EXCEPT !.rest = Rest(@)]
    BY <1>1, <1>3 DEF NextField, Rest
  <2>2. NextField(p) = [p EXCEPT !.rest = Rest(r)]
    BY <1>1, <2>1
  <2> QED
    BY <2>2, SetRest
<1>4. ASSUME r # <<>>, Head(r) # Comma PROVE NextField(p) = State(r, "unexpected", e, b, f)
  <2>1. NextField(p) = [p EXCEPT !.code = "unexpected"]
    BY <1>1, <1>4 DEF NextField
  <2> QED
    BY <2>1, SetCode
<1> QED
  BY <1>2, <1>3, <1>4

\* A number a field of len bytes can hold.
Fits(v, len) == v \in Nat /\ v % Byte ^ len = v

LEMMA Limits ==
    /\ FieldLimit(1) = 255 /\ FieldLimit(2) = 65280
    /\ Byte = 256 /\ Byte ^ 2 - 1 = 65535 /\ ULongMax \in Nat /\ ULongMax > 65535
BY WidthAssumption DEF FieldLimit, Byte

LEMMA FieldValues ==
    /\ \A v \in 0..(Byte - 1) : v \in Nat /\ v <= 255
    /\ \A v \in 0..(Byte ^ 2 - 1) : v \in Nat /\ v <= 65535
<1>1. PICK w, u, a, c : w = Byte - 1 /\ u = Byte ^ 2 - 1 /\ a = 255 /\ c = 65535
  OBVIOUS
<1>2. w = a /\ u = c /\ a \in Nat /\ c \in Nat
  BY <1>1, Limits
<1>3. ASSUME NEW v \in 0..w PROVE v \in Nat /\ v <= 255
  <2>1. v \in Nat /\ v <= a
    BY <1>2
  <2> QED
    BY <1>1, <2>1
<1>4. ASSUME NEW v \in 0..u PROVE v \in Nat /\ v <= 65535
  <2>1. v \in Nat /\ v <= c
    BY <1>2
  <2> QED
    BY <1>1, <2>1
<1>5. /\ \A v \in 0..w : v \in Nat /\ v <= 255
      /\ \A v \in 0..u : v \in Nat /\ v <= 65535
  BY <1>3, <1>4
<1> QED
  <2>1. Byte - 1 = w /\ Byte ^ 2 - 1 = u
    BY <1>1
  <2> QED
    BY <1>5, <2>1

LEMMA FitsWidth ==
    /\ \A v \in Nat : v <= 255 => Fits(v, 1)
    /\ \A v \in Nat : v <= 65535 => Fits(v, 2)
BY Z3 DEF Fits, Byte

LEMMA StrtoulState ==
    ASSUME NEW r, NEW c, NEW e, NEW b, NEW f, NEW p, p = State(r, c, e, b, f)
    PROVE  Strtoul(p) = State(IF AtNumber(p) THEN Rest(r) ELSE r, c,
                              IF Value(p) > ULongMax THEN "range" ELSE e, b, f)
<1>1. p.rest = r /\ p.errno = e
  BY StateFields
<1> DEFINE x == IF AtNumber(p) THEN Rest(r) ELSE r
           y == IF Value(p) > ULongMax THEN "range" ELSE e
<1>2. Strtoul(p) = [p EXCEPT !.rest = IF AtNumber(p) THEN Rest(@) ELSE @,
                             !.errno = IF Value(p) > ULongMax THEN "range" ELSE @]
  BY DEF Strtoul, Rest
<1>3. Strtoul(p) = [p EXCEPT !.rest = x, !.errno = y]
  BY <1>1, <1>2
<1> HIDE DEF x, y
<1>4. p \in [rest : {r}, code : {c}, errno : {e}, bytes : {b}, fields : {f}]
  BY DEF State
<1>5. [p EXCEPT !.rest = x, !.errno = y]
        \in [rest : {x}, code : {c}, errno : {y}, bytes : {b}, fields : {f}]
  BY <1>4
<1>6. Strtoul(p) = State(x, c, y, b, f)
  BY <1>3, <1>5, IsState
<1> QED
  BY <1>6 DEF x, y

LEMMA NumberAhead ==
    ASSUME NEW r, NEW c, NEW e, NEW b, NEW f, NEW v, r # <<>>, Head(r) = Num(v),
           NEW p, p = State(r, c, e, b, f)
    PROVE  AtNumber(p) /\ Value(p) = v
<1>1. p.rest = r
  BY StateFields
<1>2. AtNumber(p)
  BY <1>1 DEF AtNumber, Num
<1> QED
  BY <1>1, <1>2 DEF Value, Num

\* What strtoul makes of a number that an unsigned long can hold.
LEMMA StrtoulSteps ==
    ASSUME NEW r, NEW c, NEW e, NEW b, NEW f, NEW v \in Nat, v <= 65535, r # <<>>, Head(r) = Num(v),
           NEW p, p = State(r, c, e, b, f)
    PROVE  Value(p) = v /\ Strtoul(p) = State(Rest(r), c, e, b, f)
<1>1. AtNumber(p) /\ Value(p) = v
  BY NumberAhead
<1>2. Strtoul(p) = State(IF AtNumber(p) THEN Rest(r) ELSE r, c,
                         IF Value(p) > ULongMax THEN "range" ELSE e, b, f)
  BY StrtoulState
<1>3. ~(v > ULongMax)
  BY Limits
<1>4. (IF AtNumber(p) THEN Rest(r) ELSE r) = Rest(r)
  BY <1>1
<1>5. (IF Value(p) > ULongMax THEN "range" ELSE e) = e
  BY <1>1, <1>3
<1> QED
  BY <1>1, <1>2, <1>4, <1>5

\* A number up to the limit is read, and what ends its field; one above is an error.
LEMMA NumberSteps ==
    ASSUME NEW r, NEW e, e # "range", NEW b, NEW f, NEW len, FieldLimit(len) \in Nat,
           NEW v \in Nat, v <= 65535, Fits(v, len), r # <<>>, Head(r) = Num(v),
           NEW p, p = State(r, "ok", e, b, f)
    PROVE  /\ v <= FieldLimit(len) =>
                GetNumber(p, len) = NextField(State(Rest(r), "ok", e, b, With(f, v)))
           /\ v > FieldLimit(len) => Failed(GetNumber(p, len))
<1>1. p.code = "ok"
  BY StateFields
<1>2. PICK q : q = State(Rest(r), "ok", e, b, f)
  OBVIOUS
<1>3. q.errno = e /\ q.fields = f
  BY <1>2, StateFields
<1>4. Value(p) = v /\ Strtoul(p) = q
  BY <1>2, StrtoulSteps
<1>5. OutOfRange(p, FieldLimit(len)) <=> v > FieldLimit(len)
  BY <1>3, <1>4 DEF OutOfRange
<1>6. ASSUME v <= FieldLimit(len)
      PROVE  GetNumber(p, len) = NextField(State(Rest(r), "ok", e, b, With(f, v)))
  <2>1. ~OutOfRange(p, FieldLimit(len))
    BY <1>5, <1>6
  <2>2. GetNumber(p, len) = NextField([q EXCEPT !.fields = With(@, v % Byte ^ len)])
    BY <1>1, <1>4, <2>1 DEF GetNumber, With
  <2>3. GetNumber(p, len) = NextField([q EXCEPT !.fields = With(f, v)])
    BY <1>3, <2>2 DEF Fits
  <2>4. [q EXCEPT !.fields = With(f, v)] = State(Rest(r), "ok", e, b, With(f, v))
    BY <1>2, SetFields
  <2> QED
    BY <2>3, <2>4
<1>7. ASSUME v > FieldLimit(len) PROVE Failed(GetNumber(p, len))
  <2>1. GetNumber(p, len) = [q EXCEPT !.code = "range"]
    BY <1>1, <1>4, <1>5, <1>7 DEF GetNumber
  <2>2. [q EXCEPT !.code = "range"] = State(Rest(r), "range", e, b, f)
    BY <1>2, SetCode
  <2>3. GetNumber(p, len).code = "range"
    BY <2>1, <2>2, StateFields
  <2> QED
    BY <2>3 DEF Failed
<1> QED
  BY <1>6, <1>7

\* The end of a field before token k of a line.
LEMMA NextFieldAt ==
    ASSUME NEW R, NEW s \in Seq(R), NEW k \in 1..(Len(s) + 1), NEW e, NEW b, NEW f,
           NEW p, p = State(From(s, k), "ok", e, b, f)
    PROVE  /\ k = Len(s) + 1 => NextField(p) = State(<<>>, "end", e, b, f)
           /\ k <= Len(s) /\ s[k] = Comma => NextField(p) = State(From(s, k + 1), "ok", e, b, f)
           /\ k <= Len(s) /\ s[k] # Comma => Failed(NextField(p))
<1>1. Len(s) \in Nat /\ k \in Nat
  BY LenProperties
<1>2. ASSUME k = Len(s) + 1 PROVE NextField(p) = State(<<>>, "end", e, b, f)
  <2>1. From(s, k) = <<>>
    BY <1>1, <1>2, FromSteps
  <2> QED
    BY <2>1, NextFieldSteps
<1>3. ASSUME k <= Len(s), s[k] = Comma
      PROVE  NextField(p) = State(From(s, k + 1), "ok", e, b, f)
  <2>1. From(s, k) # <<>> /\ Head(From(s, k)) = Comma /\ Rest(From(s, k)) = From(s, k + 1)
    BY <1>1, <1>3, FromSteps
  <2>2. PICK r : r = From(s, k)
    OBVIOUS
  <2>3. NextField(p) = State(Rest(r), "ok", e, b, f)
    BY <2>1, <2>2, NextFieldSteps
  <2> QED
    BY <2>1, <2>2, <2>3
<1>4. ASSUME k <= Len(s), s[k] # Comma PROVE Failed(NextField(p))
  <2>1. From(s, k) # <<>> /\ Head(From(s, k)) # Comma
    BY <1>1, <1>4, FromSteps
  <2>2. PICK r : r = From(s, k)
    OBVIOUS
  <2>3. NextField(p) = State(r, "unexpected", e, b, f)
    BY <2>1, <2>2, NextFieldSteps
  <2>4. NextField(p).code = "unexpected"
    BY <2>3, StateFields
  <2> QED
    BY <2>4 DEF Failed
<1> QED
  BY <1>2, <1>3, <1>4

\* A numeric field at token k.
FieldAhead(s, k, v, len) ==
    /\ k \in 1..Len(s) /\ FieldLimit(len) \in Nat
    /\ v \in Nat /\ v <= 65535 /\ Fits(v, len) /\ s[k] = Num(v)

LEMMA NumberAt ==
    ASSUME NEW R, NEW s \in Seq(R), NEW k, NEW v, NEW len, FieldAhead(s, k, v, len),
           NEW e, e # "range", NEW b, NEW f
    PROVE  /\ v <= FieldLimit(len) /\ k = Len(s) =>
                GetNumber(State(From(s, k), "ok", e, b, f), len)
                  = State(<<>>, "end", e, b, With(f, v))
           /\ v <= FieldLimit(len) /\ k < Len(s) /\ s[k + 1] = Comma =>
                GetNumber(State(From(s, k), "ok", e, b, f), len)
                  = State(From(s, k + 2), "ok", e, b, With(f, v))
           /\ v > FieldLimit(len) => Failed(GetNumber(State(From(s, k), "ok", e, b, f), len))
<1>p. PICK p : p = State(From(s, k), "ok", e, b, f)
  OBVIOUS
<1>a. /\ k \in 1..Len(s) /\ FieldLimit(len) \in Nat
      /\ v \in Nat /\ v <= 65535 /\ Fits(v, len) /\ s[k] = Num(v)
  BY DEF FieldAhead
<1>1. Len(s) \in Nat /\ k \in Nat /\ k + 1 \in 1..(Len(s) + 1) /\ (k + 1) + 1 = k + 2
  BY <1>a, LenProperties
<1>2. From(s, k) # <<>> /\ Head(From(s, k)) = Num(v) /\ Rest(From(s, k)) = From(s, k + 1)
  BY <1>a, <1>1, FromSteps
<1>3. /\ v <= FieldLimit(len) =>
           GetNumber(p, len) = NextField(State(From(s, k + 1), "ok", e, b, With(f, v)))
      /\ v > FieldLimit(len) => Failed(GetNumber(p, len))
  BY <1>a, <1>p, <1>2, NumberSteps
<1>4. PICK q : q = State(From(s, k + 1), "ok", e, b, With(f, v))
  OBVIOUS
<1>5. /\ k + 1 = Len(s) + 1 => NextField(q) = State(<<>>, "end", e, b, With(f, v))
      /\ k + 1 <= Len(s) /\ s[k + 1] = Comma =>
           NextField(q) = State(From(s, (k + 1) + 1), "ok", e, b, With(f, v))
  BY <1>1, <1>4, NextFieldAt
<1> QED
  BY <1>p, <1>1, <1>3, <1>4, <1>5

\* An address, an endpoint.
LEMMA AddressAt ==
    ASSUME NEW R, NEW s \in Seq(R), NEW k \in 1..Len(s), k < Len(s), s[k + 1] = Comma,
           NEW v \in Nat, v <= 65535, s[k] = Num(v), NEW e, e # "range", NEW b, NEW f
    PROVE  /\ v <= 65280 => GetNumber(State(From(s, k), "ok", e, b, f), 2)
                              = State(From(s, k + 2), "ok", e, b, With(f, v))
           /\ v > 65280 => Failed(GetNumber(State(From(s, k), "ok", e, b, f), 2))
<1>1. Fits(v, 2) /\ FieldLimit(2) = 65280 /\ FieldLimit(2) \in Nat
  BY FitsWidth, Limits
<1>2. PICK n : n = 2 /\ FieldLimit(n) = 65280
  BY <1>1
<1>3. FieldAhead(s, k, v, n)
  BY <1>1, <1>2 DEF FieldAhead
<1>4. /\ v <= FieldLimit(n) /\ k < Len(s) /\ s[k + 1] = Comma =>
           GetNumber(State(From(s, k), "ok", e, b, f), n)
             = State(From(s, k + 2), "ok", e, b, With(f, v))
      /\ v > FieldLimit(n) => Failed(GetNumber(State(From(s, k), "ok", e, b, f), n))
  BY <1>3, NumberAt
<1> QED
  BY <1>2, <1>4

LEMMA EndpointAt ==
    ASSUME NEW R, NEW s \in Seq(R), NEW k \in 1..Len(s),
           NEW v \in Nat, v <= 255, s[k] = Num(v), NEW e, e # "range", NEW b, NEW f
    PROVE  /\ k < Len(s) /\ s[k + 1] = Comma =>
                GetNumber(State(From(s, k), "ok", e, b, f), 1)
                  = State(From(s, k + 2), "ok", e, b, With(f, v))
           /\ k = Len(s) => GetNumber(State(From(s, k), "ok", e, b, f), 1)
                              = State(<<>>, "end", e, b, With(f, v))
<1>1. Fits(v, 1) /\ v <= FieldLimit(1) /\ FieldLimit(1) \in Nat /\ v <= 65535
  BY FitsWidth, Limits
<1>2. PICK n : n = 1 /\ v <= FieldLimit(n)
  BY <1>1
<1>a. FieldAhead(s, k, v, n)
  BY <1>1, <1>2 DEF FieldAhead
<1>3. /\ k < Len(s) /\ s[k + 1] = Comma =>
           GetNumber(State(From(s, k), "ok", e, b, f), n)
             = State(From(s, k + 2), "ok", e, b, With(f, v))
      /\ k = Len(s) => GetNumber(State(From(s, k), "ok", e, b, f), n)
                         = State(<<>>, "end", e, b, With(f, v))
  BY <1>2, <1>a, NumberAt
<1> QED
  BY <1>2, <1>3

\* A name at token k.
LEMMA QuotedAt ==
    ASSUME NEW R, NEW s \in Seq(R), NEW k \in 1..Len(s), NEW e, NEW b, NEW f,
           NEW p, p = State(From(s, k), "ok", e, b, f)
    PROVE  /\ s[k] = OpenQuote => Failed(GetQuoted(p))
           /\ \A n : s[k] = Quoted(n) =>
                /\ n \in LongName => Failed(GetQuoted(p))
                /\ n \notin LongName /\ k = Len(s) =>
                     GetQuoted(p) = State(<<>>, "end", e, b, With(f, n))
                /\ n \notin LongName /\ k < Len(s) /\ s[k + 1] = Comma =>
                     GetQuoted(p) = State(From(s, k + 2), "ok", e, b, With(f, n))
                /\ k < Len(s) /\ s[k + 1] # Comma => Failed(GetQuoted(p))
<1>1. Len(s) \in Nat /\ k \in Nat /\ k + 1 \in 1..(Len(s) + 1) /\ (k + 1) + 1 = k + 2
  BY LenProperties
<1>2. From(s, k) # <<>> /\ Head(From(s, k)) = s[k] /\ Rest(From(s, k)) = From(s, k + 1)
  BY <1>1, FromSteps
<1>3. p.code = "ok" /\ p.rest = From(s, k) /\ p.fields = f
  BY StateFields
<1>4. ASSUME s[k] = OpenQuote PROVE Failed(GetQuoted(p))
  <2>1. Head(p.rest).t = "open" /\ p.rest # <<>>
    BY <1>2, <1>3, <1>4 DEF OpenQuote
  <2>2. GetQuoted(p) = [p EXCEPT !.code = "endquote"]
    BY <1>3, <2>1 DEF GetQuoted
  <2>3. GetQuoted(p) = State(From(s, k), "endquote", e, b, f)
    BY <2>2, SetCode
  <2>4. GetQuoted(p).code = "endquote"
    BY <2>3, StateFields
  <2> QED
    BY <2>4 DEF Failed
<1>5. ASSUME NEW n, s[k] = Quoted(n)
      PROVE  /\ n \in LongName => Failed(GetQuoted(p))
             /\ n \notin LongName /\ k = Len(s) =>
                  GetQuoted(p) = State(<<>>, "end", e, b, With(f, n))
             /\ n \notin LongName /\ k < Len(s) /\ s[k + 1] = Comma =>
                  GetQuoted(p) = State(From(s, k + 2), "ok", e, b, With(f, n))
             /\ k < Len(s) /\ s[k + 1] # Comma => Failed(GetQuoted(p))
  <2>1. Head(p.rest).t = "quoted" /\ Head(p.rest).name = n /\ p.rest # <<>>
    BY <1>2, <1>3, <1>5 DEF Quoted
  <2>2. ASSUME n \in LongName PROVE Failed(GetQuoted(p))
    <3>1. GetQuoted(p) = [p EXCEPT !.code = "toolong"]
      BY <1>3, <2>1, <2>2 DEF GetQuoted
    <3>2. GetQuoted(p) = State(From(s, k), "toolong", e, b, f)
      BY <3>1, SetCode
    <3>3. GetQuoted(p).code = "toolong"
      BY <3>2, StateFields
    <3> QED
      BY <3>3 DEF Failed
  <2>3. PICK q : q = State(From(s, k + 1), "ok", e, b, With(f, n))
    OBVIOUS
  <2>4. ASSUME n \notin LongName PROVE GetQuoted(p) = NextField(q)
    <3>1. GetQuoted(p) = NextField([p EXCEPT !.rest = Rest(@), !.fields = With(@, n)])
      BY <1>3, <2>1, <2>4 DEF GetQuoted, Rest, With
    <3>2. GetQuoted(p) = NextField([p EXCEPT !.rest = From(s, k + 1), !.fields = With(f, n)])
      BY <1>2, <1>3, <3>1
    <3>3. p \in [rest : {From(s, k)}, code : {"ok"}, errno : {e}, bytes : {b}, fields : {f}]
      BY DEF State
    <3>4. [p EXCEPT !.rest = From(s, k + 1), !.fields = With(f, n)]
            \in [rest : {From(s, k + 1)}, code : {"ok"}, errno : {e}, bytes : {b},
                 fields : {With(f, n)}]
      BY <3>3
    <3>5. [p EXCEPT !.rest = From(s, k + 1), !.fields = With(f, n)] = q
      BY <2>3, <3>4, IsState
    <3> QED
      BY <3>2, <3>5
  <2>5. /\ k + 1 = Len(s) + 1 => NextField(q) = State(<<>>, "end", e, b, With(f, n))
        /\ k + 1 <= Len(s) /\ s[k + 1] = Comma =>
             NextField(q) = State(From(s, (k + 1) + 1), "ok", e, b, With(f, n))
        /\ k + 1 <= Len(s) /\ s[k + 1] # Comma => Failed(NextField(q))
    BY <1>1, <2>3, NextFieldAt
  <2> QED
    BY <1>1, <2>2, <2>4, <2>5
<1> QED
  BY <1>4, <1>5

\* After an error no field is read.
LEMMA FailedStays ==
    ASSUME NEW p, Failed(p)
    PROVE  GetQuoted(p) = p /\ \A len : GetNumber(p, len) = p
BY DEF Failed, GetQuoted, GetNumber

\* One byte of an address.
LastByte(p) == HexByte(p, FALSE)
NextByte(p) == HexByte(p, TRUE)

LEMMA HexByteAt ==
    ASSUME NEW R, NEW s \in Seq(R), NEW k \in 1..Len(s), NEW e, e # "range", NEW b, NEW f,
           NEW v \in Nat, v <= 255, s[k] = Num(v),
           NEW p, p = State(From(s, k), "ok", e, b, f)
    PROVE  /\ LastByte(p) = State(From(s, k + 1), "ok", e, Before(v, b), f)
           /\ k < Len(s) /\ s[k + 1] = Colon =>
                NextByte(p) = State(From(s, k + 2), "ok", e, Before(v, b), f)
<1>1. Len(s) \in Nat /\ k \in Nat /\ (k + 1) + 1 = k + 2
  BY LenProperties
<1>2. From(s, k) # <<>> /\ Head(From(s, k)) = Num(v) /\ Rest(From(s, k)) = From(s, k + 1)
  BY <1>1, FromSteps
<1>3. p.code = "ok" /\ p.bytes = b
  BY StateFields
<1>4. PICK t : t = State(From(s, k + 1), "ok", e, b, f)
  OBVIOUS
<1>5. Value(p) = v /\ Strtoul(p) = t /\ t.errno = e /\ t.bytes = b
  BY <1>2, <1>4, StrtoulSteps, StateFields
<1>6. ~OutOfRange(p, Byte - 1)
  BY <1>5, Limits DEF OutOfRange
<1>7. PICK q : q = [t EXCEPT !.bytes = Before(v, b)]
  OBVIOUS
<1>8. q = State(From(s, k + 1), "ok", e, Before(v, b), f)
  BY <1>4, <1>7, SetBytes
<1>9. q = [Strtoul(p) EXCEPT !.bytes = Before(Value(p), @)]
  BY <1>5, <1>7
<1>10. LastByte(p) = q
  BY <1>3, <1>6, <1>9 DEF LastByte, HexByte, Before
<1>11. ASSUME k < Len(s), s[k + 1] = Colon
       PROVE  NextByte(p) = State(From(s, k + 2), "ok", e, Before(v, b), f)
  <2>1. k + 1 \in 1..Len(s)
    BY <1>1, <1>11
  <2>2. /\ From(s, k + 1) # <<>> /\ Head(From(s, k + 1)) = Colon
        /\ Rest(From(s, k + 1)) = From(s, k + 2)
    BY <1>1, <1>11, <2>1, FromSteps
  <2>3. q.rest = From(s, k + 1)
    BY <1>8, StateFields
  <2>4. NextByte(p) = [q EXCEPT !.rest = Rest(@)]
    BY <1>3, <1>6, <1>9, <2>2, <2>3 DEF NextByte, HexByte, Before, Rest
  <2>5. PICK r : r = From(s, k + 2)
    OBVIOUS
  <2>6. NextByte(p) = [q EXCEPT !.rest = r]
    BY <2>2, <2>3, <2>4, <2>5
  <2>7. [q EXCEPT !.rest = r] = State(r, "ok", e, Before(v, b), f)
    BY <1>8, SetRest
  <2> QED
    BY <2>5, <2>6, <2>7
<1> QED
  BY <1>8, <1>10, <1>11

-----------------------------------------------------------------------------
(* Addresses. *)

\* The loop of GetHex: after each byte the state of the parser.
HexLoop(p, n, g) ==
    g = [i \in 0..n |-> IF i = 0 THEN p ELSE HexByte(g[i - 1], i < HexLen)]

LEMMA HexLoopExists ==
    ASSUME NEW p, NEW n \in Nat
    PROVE  \E g : HexLoop(p, n, g)
<1> DEFINE T == {m \in 0..n : \E g : HexLoop(p, m, g)}
<1>1. 0 \in T
  <2> DEFINE g == [i \in 0..0 |-> p]
  <2>1. HexLoop(p, 0, g)
    BY DEF HexLoop
  <2> QED
    BY <2>1
<1>2. ASSUME NEW m \in 0..(n - 1), m \in T PROVE m + 1 \in T
  <2>1. PICK g : HexLoop(p, m, g)
    BY <1>2
  <2> DEFINE h == [i \in 0..(m + 1) |-> IF i <= m THEN g[i] ELSE HexByte(g[m], m + 1 < HexLen)]
  <2>2. HexLoop(p, m + 1, h)
    BY <2>1 DEF HexLoop
  <2>3. m + 1 \in 0..n
    OBVIOUS
  <2> QED
    BY <2>2, <2>3
<1> HIDE DEF T
<1>3. \A m \in 0..n : m \in T
  BY <1>1, <1>2, UpTo
<1>4. n \in T
  BY <1>3
<1> QED
  BY <1>4 DEF T

LEMMA HexLoopSteps ==
    ASSUME NEW p, NEW g, HexLoop(p, HexLen, g)
    PROVE  /\ g[0] = p
           /\ \A i \in 0..(HexLen - 1) : g[i + 1] = IF i + 1 < HexLen THEN NextByte(g[i])
                                                                      ELSE LastByte(g[i])
<1>n. HexLen \in Nat
  BY WidthAssumption
<1>1. g[0] = p
  BY <1>n DEF HexLoop
<1>2. ASSUME NEW i \in 0..(HexLen - 1)
      PROVE  g[i + 1] = IF i + 1 < HexLen THEN NextByte(g[i]) ELSE LastByte(g[i])
  <2>1. g[i + 1] = HexByte(g[i], i + 1 < HexLen)
    BY <1>n DEF HexLoop
  <2>2. CASE i + 1 < HexLen
    <3>1. (i + 1 < HexLen) = TRUE
      BY <2>2
    <3> QED
      BY <2>1, <2>2, <3>1 DEF NextByte
  <2>3. CASE ~(i + 1 < HexLen)
    <3>1. (i + 1 < HexLen) = FALSE
      BY <2>3
    <3> QED
      BY <2>1, <2>3, <3>1 DEF LastByte
  <2> QED
    BY <2>2, <2>3
<1> QED
  BY <1>1, <1>2

LEMMA GetHexLoop ==
    ASSUME NEW p, p.code = "ok"
    PROVE  \E g : /\ HexLoop(p, HexLen, g)
                  /\ GetHex(p) =
                       LET q == g[HexLen] IN
                       IF q.code # "ok" THEN q
                       ELSE NextField([q EXCEPT !.fields = With(@, q.bytes)])
<1> DEFINE upTo[i \in 0..HexLen] == IF i = 0 THEN p ELSE HexByte(upTo[i - 1], i < HexLen)
<1>1. HexLen \in Nat
  BY WidthAssumption
<1>2. \E g : HexLoop(p, HexLen, g)
  BY <1>1, HexLoopExists
<1>3. HexLoop(p, HexLen, upTo)
  BY <1>2 DEF HexLoop
<1>4. GetHex(p) = LET q == upTo[HexLen] IN
                  IF q.code # "ok" THEN q
                  ELSE NextField([q EXCEPT !.fields = With(@, q.bytes)])
  BY DEF GetHex, With
<1> QED
  BY <1>3, <1>4

\* The bytes read so far.
LastBytes(ieee, i) == [j \in 1..i |-> ieee[HexLen - i + j]]

LEMMA LastBytesSteps ==
    ASSUME NEW ieee \in [1..HexLen -> 0..(Byte - 1)]
    PROVE  /\ LastBytes(ieee, 0) = <<>>
           /\ LastBytes(ieee, HexLen) = ieee
           /\ \A i \in 0..(HexLen - 1) :
                Before(ieee[HexLen - i], LastBytes(ieee, i)) = LastBytes(ieee, i + 1)
<1>1. HexLen \in Nat
  BY WidthAssumption
<1>2. LastBytes(ieee, 0) = <<>>
  BY <1>1 DEF LastBytes
<1>3. LastBytes(ieee, HexLen) = ieee
  BY <1>1 DEF LastBytes
<1>4. ASSUME NEW i \in 0..(HexLen - 1)
      PROVE  Before(ieee[HexLen - i], LastBytes(ieee, i)) = LastBytes(ieee, i + 1)
  <2> DEFINE S == 0..(Byte - 1)
             v == ieee[HexLen - i]
             b == LastBytes(ieee, i)
             c == LastBytes(ieee, i + 1)
  <2>1. i \in Nat /\ v \in S /\ <<v>> \in Seq(S) /\ Len(<<v>>) = 1 /\ <<v>>[1] = v
    BY <1>1
  <2>2. b \in Seq(S) /\ Len(b) = i /\ \A j \in 1..i : b[j] = ieee[HexLen - i + j]
    BY <1>1, <2>1 DEF LastBytes
  <2>3. c \in Seq(S) /\ Len(c) = i + 1 /\ \A j \in 1..(i + 1) : c[j] = ieee[HexLen - (i + 1) + j]
    BY <1>1, <2>1 DEF LastBytes
  <2> HIDE DEF S, v, b, c
  <2>4. /\ <<v>> \o b \in Seq(S) /\ Len(<<v>> \o b) = 1 + i
        /\ \A j \in 1..(1 + i) : (<<v>> \o b)[j] = IF j <= 1 THEN <<v>>[j] ELSE b[j - 1]
    BY <2>1, <2>2, ConcatProperties
  <2>5. ASSUME NEW j \in 1..(1 + i) PROVE (<<v>> \o b)[j] = c[j]
    <3>1. CASE j = 1
      <4>1. c[j] = v
        BY <1>1, <2>1, <2>3, <3>1 DEF v
      <4> QED
        BY <2>1, <2>4, <3>1, <4>1
    <3>2. CASE j # 1
      <4>1. j - 1 \in 1..i /\ HexLen - i + (j - 1) = HexLen - (i + 1) + j
        BY <1>1, <2>1, <3>2
      <4>2. b[j - 1] = c[j]
        BY <2>1, <2>2, <2>3, <4>1
      <4> QED
        BY <2>1, <2>4, <3>2, <4>2
    <3> QED
      BY <3>1, <3>2
  <2>6. <<v>> \o b = c
    BY <2>1, <2>3, <2>4, <2>5, SeqEqual
  <2> QED
    BY <2>6 DEF Before, v, b, c
<1> QED
  BY <1>2, <1>3, <1>4

\* An address at the start of a line.
HexAhead(s, ieee) ==
    /\ 2 * HexLen <= Len(s)
    /\ \A j \in 1..HexLen : s[2 * j - 1] = Num(ieee[HexLen + 1 - j])
    /\ \A j \in 1..(HexLen - 1) : s[2 * j] = Colon
    /\ s[2 * HexLen] = Comma

LEMMA HexAt ==
    ASSUME NEW R, NEW s \in Seq(R), NEW ieee \in [1..HexLen -> 0..(Byte - 1)],
           HexAhead(s, ieee), NEW e, e # "range"
    PROVE  GetHex(State(From(s, 1), "ok", e, <<>>, <<>>))
             = State(From(s, 2 * HexLen + 1), "ok", e, ieee, With(<<>>, ieee))
<1>h. /\ 2 * HexLen <= Len(s)
      /\ \A j \in 1..HexLen : s[2 * j - 1] = Num(ieee[HexLen + 1 - j])
      /\ \A j \in 1..(HexLen - 1) : s[2 * j] = Colon
      /\ s[2 * HexLen] = Comma
  BY DEF HexAhead
<1>p. PICK p : p = State(From(s, 1), "ok", e, <<>>, <<>>)
  OBVIOUS
<1>1. HexLen \in Nat /\ HexLen >= 1 /\ Len(s) \in Nat
  BY WidthAssumption, LenProperties
<1>2. p.code = "ok"
  BY <1>p, StateFields
<1>3. PICK g : /\ HexLoop(p, HexLen, g)
               /\ GetHex(p) =
                    LET q == g[HexLen] IN
                    IF q.code # "ok" THEN q
                    ELSE NextField([q EXCEPT !.fields = With(@, q.bytes)])
  BY <1>2, GetHexLoop
<1> DEFINE at(i) == IF i < HexLen THEN 2 * i + 1 ELSE 2 * HexLen
           T == {i \in 0..HexLen :
                   g[i] = State(From(s, at(i)), "ok", e, LastBytes(ieee, i), <<>>)}
<1>l. /\ g[0] = p
      /\ \A i \in 0..(HexLen - 1) : g[i + 1] = IF i + 1 < HexLen THEN NextByte(g[i])
                                                                 ELSE LastByte(g[i])
  BY <1>3, HexLoopSteps
<1>4. 0 \in T
  <2>1. at(0) = 1 /\ LastBytes(ieee, 0) = <<>>
    BY <1>1, LastBytesSteps
  <2> QED
    BY <1>p, <1>1, <1>l, <2>1
<1>5. ASSUME NEW i \in 0..(HexLen - 1), i \in T PROVE i + 1 \in T
  <2>1. PICK k, b, v : k = 2 * i + 1 /\ b = LastBytes(ieee, i) /\ v = ieee[HexLen - i]
    OBVIOUS
  <2>2. g[i] = State(From(s, k), "ok", e, b, <<>>)
    BY <1>1, <1>5, <2>1
  <2>3. v \in 0..(Byte - 1)
    BY <1>1, <2>1
  <2>4. v \in Nat /\ v <= 255
    BY <2>3, FieldValues
  <2>5. s[k] = Num(v) /\ k \in 1..Len(s)
    <3>1. i + 1 \in 1..HexLen /\ 2 * (i + 1) - 1 = k /\ HexLen + 1 - (i + 1) = HexLen - i
      BY <1>1, <2>1
    <3>2. s[2 * (i + 1) - 1] = Num(ieee[HexLen + 1 - (i + 1)])
      BY <1>h, <3>1
    <3> QED
      BY <1>h, <1>1, <2>1, <3>1, <3>2
  <2>6. Before(v, b) = LastBytes(ieee, i + 1)
    BY <2>1, LastBytesSteps
  <2>7. /\ LastByte(g[i]) = State(From(s, k + 1), "ok", e, Before(v, b), <<>>)
        /\ k < Len(s) /\ s[k + 1] = Colon =>
             NextByte(g[i]) = State(From(s, k + 2), "ok", e, Before(v, b), <<>>)
    BY <2>2, <2>4, <2>5, HexByteAt
  <2>8. CASE i + 1 < HexLen
    <3>1. i + 1 \in 1..(HexLen - 1) /\ 2 * (i + 1) = k + 1 /\ k < Len(s)
          /\ k + 2 = 2 * (i + 1) + 1
      BY <1>h, <1>1, <2>1, <2>8
    <3>2. s[2 * (i + 1)] = Colon
      BY <1>h, <3>1
    <3>3. g[i + 1] = NextByte(g[i])
      BY <1>l, <2>8
    <3>4. g[i + 1] = State(From(s, k + 2), "ok", e, Before(v, b), <<>>)
      BY <2>7, <3>1, <3>2, <3>3
    <3>5. at(i + 1) = k + 2
      BY <2>8, <3>1
    <3> QED
      BY <1>1, <2>6, <3>4, <3>5
  <2>9. CASE ~(i + 1 < HexLen)
    <3>1. g[i + 1] = LastByte(g[i])
      BY <1>l, <2>9
    <3>2. k + 1 = 2 * HexLen
      BY <1>1, <2>1, <2>9
    <3>3. at(i + 1) = k + 1
      BY <2>9, <3>2
    <3>4. g[i + 1] = State(From(s, k + 1), "ok", e, Before(v, b), <<>>)
      BY <2>7, <3>1
    <3> QED
      BY <1>1, <2>6, <3>3, <3>4
  <2> QED
    BY <2>8, <2>9
<1> HIDE DEF T
<1>6. HexLen \in T
  <2>1. \A i \in 0..HexLen : i \in T
    BY <1>1, <1>4, <1>5, UpTo
  <2> QED
    BY <1>1, <2>1
<1>7. PICK q : q = g[HexLen]
  OBVIOUS
<1>8. q = State(From(s, 2 * HexLen), "ok", e, ieee, <<>>)
  BY <1>1, <1>6, <1>7, LastBytesSteps DEF T
<1>9. q.code = "ok" /\ q.bytes = ieee /\ q.fields = <<>>
  BY <1>8, StateFields
<1>10. GetHex(p) = NextField([q EXCEPT !.fields = With(<<>>, ieee)])
  BY <1>3, <1>7, <1>9
<1>11. PICK k : k = 2 * HexLen
  OBVIOUS
<1>12. [q EXCEPT !.fields = With(<<>>, ieee)] = State(From(s, k), "ok", e, ieee, With(<<>>, ieee))
  BY <1>8, <1>11, SetFields
<1>13. k \in 1..(Len(s) + 1) /\ k <= Len(s) /\ s[k] = Comma
  BY <1>h, <1>1, <1>11
<1>14. PICK u : u = State(From(s, k), "ok", e, ieee, With(<<>>, ieee))
  OBVIOUS
<1>15. NextField(u) = State(From(s, k + 1), "ok", e, ieee, With(<<>>, ieee))
  BY <1>13, <1>14, NextFieldAt
<1> QED
  BY <1>p, <1>10, <1>11, <1>12, <1>14, <1>15

-----------------------------------------------------------------------------
(* Composing lines. *)

LEMMA TokenProperties ==
    /\ \A v \in Nat : Num(v) \in Token
    /\ \A n \in AnyName \cup {"part"} : Quoted(n) \in Token
    /\ Comma \in Token /\ Colon \in Token /\ OpenQuote \in Token /\ Junk \in Token
    /\ Junk # Comma /\ Junk # Colon
<1>1. ASSUME NEW v \in Nat PROVE Num(v) \in Token
  BY DEF Num, Token
<1>2. ASSUME NEW n \in AnyName \cup {"part"} PROVE Quoted(n) \in Token
  BY DEF Quoted, Token
<1>3. Comma \in Token /\ Colon \in Token /\ OpenQuote \in Token /\ Junk \in Token
  BY DEF Comma, Colon, OpenQuote, Junk, Token
<1>4. Comma.t = "comma" /\ Colon.t = "colon" /\ Junk.t = "junk"
  BY DEF Comma, Colon, Junk
<1>5. Junk # Comma /\ Junk # Colon
  BY <1>4
<1> QED
  BY <1>1, <1>2, <1>3, <1>5

\* One sequence after another.
Joined(x, y) == x \o y

\* The first of the lines a record becomes: what comes before the name, the
\* name if it is one string of the line, and then what comes after it.
FirstText(before, n, after) ==
    IF n \in NewlineName THEN Joined(before, <<OpenQuote>>)
                         ELSE Joined(Joined(before, NameTokens(n)), after)

LEMMA LineFields ==
    ASSUME NEW t, NEW r
    PROVE  /\ Line(t, r).mark = " " /\ Line(t, r).text = t /\ Line(t, r).whole = TRUE
           /\ Line(t, r).short = FALSE /\ Line(t, r).of = r
           /\ t \in Seq(Token) /\ r \in DeviceRecord \cup GroupRecord \cup {NoRec} =>
                Line(t, r) \in AnyLine
BY DEF Line, AnyLine

LEMMA TwoLinesAre ==
    ASSUME NEW before, NEW n, NEW after, NEW r
    PROVE  /\ n \in NewlineName =>
                TwoLines(before, n, after, r) =
                  <<Line(FirstText(before, n, after), r), Line(<<Junk>> \o after, NoRec)>>
           /\ n \notin NewlineName =>
                TwoLines(before, n, after, r) = <<Line(FirstText(before, n, after), r)>>
           /\ Head(TwoLines(before, n, after, r)).text = FirstText(before, n, after)
<1>1. ASSUME n \in NewlineName
      PROVE  TwoLines(before, n, after, r) =
               <<Line(FirstText(before, n, after), r), Line(<<Junk>> \o after, NoRec)>>
  BY <1>1, Zenon DEF TwoLines, FirstText, Joined
<1>2. ASSUME n \notin NewlineName
      PROVE  TwoLines(before, n, after, r) = <<Line(FirstText(before, n, after), r)>>
  BY <1>2, Zenon DEF TwoLines, FirstText, Joined
<1>3. PICK l : l = Line(FirstText(before, n, after), r)
  OBVIOUS
<1>4. PICK m : m = Line(<<Junk>> \o after, NoRec)
  BY Zenon
<1>5. TwoLines(before, n, after, r) = <<l, m>> \/ TwoLines(before, n, after, r) = <<l>>
  BY <1>1, <1>2, <1>3, <1>4, Zenon
<1>6. PICK ls : ls = TwoLines(before, n, after, r)
  OBVIOUS
<1>7. Head(ls) = l
  BY <1>5, <1>6
<1>8. l.text = FirstText(before, n, after)
  BY <1>3, LineFields
<1> QED
  BY <1>1, <1>2, <1>6, <1>7, <1>8, Zenon

LEMMA JoinedProperties ==
    ASSUME NEW R, NEW x \in Seq(R), NEW y \in Seq(R)
    PROVE  /\ Joined(x, y) \in Seq(R) /\ Len(x) \in Nat /\ Len(y) \in Nat
           /\ Len(Joined(x, y)) = Len(x) + Len(y)
           /\ \A i \in 1..Len(x) : Joined(x, y)[i] = x[i]
           /\ \A i \in (Len(x) + 1)..(Len(x) + Len(y)) : Joined(x, y)[i] = y[i - Len(x)]
<1> DEFINE z == Joined(x, y)
<1>1. Len(x) \in Nat /\ Len(y) \in Nat
  BY LenProperties
<1>2. /\ z \in Seq(R) /\ Len(z) = Len(x) + Len(y)
      /\ \A i \in 1..(Len(x) + Len(y)) : z[i] = IF i <= Len(x) THEN x[i] ELSE y[i - Len(x)]
  BY ConcatProperties DEF Joined
<1> HIDE DEF z
<1>3. ASSUME NEW i \in 1..Len(x) PROVE z[i] = x[i]
  BY <1>1, <1>2
<1>4. ASSUME NEW i \in (Len(x) + 1)..(Len(x) + Len(y)) PROVE z[i] = y[i - Len(x)]
  BY <1>1, <1>2
<1> QED
  BY <1>1, <1>2, <1>3, <1>4 DEF z

LEMMA NameTokensAre ==
    ASSUME NEW n \in AnyName
    PROVE  /\ NameTokens(n) \in Seq(Token)
           /\ n \in QuoteName => /\ Len(NameTokens(n)) = 2 /\ NameTokens(n)[1] = Quoted("part")
                                /\ NameTokens(n)[2] = Junk
           /\ n \notin QuoteName => Len(NameTokens(n)) = 1 /\ NameTokens(n)[1] = Quoted(n)
<1>1. CASE n \in QuoteName
  <2>1. NameTokens(n) = <<Quoted("part"), Junk>>
    BY <1>1 DEF NameTokens
  <2>2. Quoted("part") \in Token /\ Junk \in Token
    BY TokenProperties
  <2> QED
    BY <1>1, <2>1, <2>2
<1>2. CASE n \notin QuoteName
  <2>1. NameTokens(n) = <<Quoted(n)>>
    BY <1>2 DEF NameTokens
  <2>2. Quoted(n) \in Token
    BY TokenProperties
  <2> QED
    BY <1>2, <2>1, <2>2
<1> QED
  BY <1>1, <1>2

LEMMA FirstTextBroken ==
    ASSUME NEW before \in Seq(Token), NEW n \in NewlineName, NEW after
    PROVE  /\ FirstText(before, n, after) \in Seq(Token)
           /\ Len(FirstText(before, n, after)) = Len(before) + 1
           /\ \A i \in 1..Len(before) : FirstText(before, n, after)[i] = before[i]
           /\ FirstText(before, n, after)[Len(before) + 1] = OpenQuote
<1>1. PICK x : x = <<OpenQuote>>
  OBVIOUS
<1>2. x \in Seq(Token) /\ Len(x) = 1 /\ x[1] = OpenQuote
  BY <1>1, TokenProperties
<1>3. FirstText(before, n, after) = Joined(before, x)
  BY <1>1, Zenon DEF FirstText
<1>4. /\ Joined(before, x) \in Seq(Token) /\ Len(before) \in Nat
      /\ Len(Joined(before, x)) = Len(before) + Len(x)
      /\ \A i \in 1..Len(before) : Joined(before, x)[i] = before[i]
      /\ \A i \in (Len(before) + 1)..(Len(before) + Len(x)) :
           Joined(before, x)[i] = x[i - Len(before)]
  BY <1>2, JoinedProperties
<1>5. /\ Len(before) + 1 \in (Len(before) + 1)..(Len(before) + Len(x))
      /\ (Len(before) + 1) - Len(before) = 1
  BY <1>2, <1>4
<1>6. Joined(before, x)[Len(before) + 1] = OpenQuote
  BY <1>2, <1>4, <1>5
<1> QED
  BY <1>2, <1>3, <1>4, <1>6

\* A line made of three parts.
ThreeParts(t, before, x, after) ==
    /\ t \in Seq(Token) /\ Len(t) = Len(before) + Len(x) + Len(after)
    /\ \A i \in 1..Len(before) : t[i] = before[i]
    /\ \A i \in (Len(before) + 1)..(Len(before) + Len(x)) : t[i] = x[i - Len(before)]
    /\ \A i \in (Len(before) + Len(x) + 1)..(Len(before) + Len(x) + Len(after)) :
         t[i] = after[i - (Len(before) + Len(x))]

LEMMA FirstTextWhole ==
    ASSUME NEW before \in Seq(Token), NEW n \in AnyName, n \notin NewlineName,
           NEW after \in Seq(Token)
    PROVE  ThreeParts(FirstText(before, n, after), before, NameTokens(n), after)
<1>1. PICK x : x = NameTokens(n)
  OBVIOUS
<1>2. x \in Seq(Token)
  BY <1>1, NameTokensAre
<1>3. PICK y : y = Joined(before, x)
  OBVIOUS
<1>4. /\ y \in Seq(Token) /\ Len(before) \in Nat /\ Len(x) \in Nat
      /\ Len(y) = Len(before) + Len(x)
      /\ \A i \in 1..Len(before) : y[i] = before[i]
      /\ \A i \in (Len(before) + 1)..(Len(before) + Len(x)) : y[i] = x[i - Len(before)]
  BY <1>2, <1>3, JoinedProperties
<1>y. y \in Seq(Token)
  BY <1>4
<1>5. PICK t : t = Joined(y, after)
  OBVIOUS
<1>6. /\ t \in Seq(Token) /\ Len(after) \in Nat /\ Len(t) = Len(y) + Len(after)
      /\ \A i \in 1..Len(y) : t[i] = y[i]
      /\ \A i \in (Len(y) + 1)..(Len(y) + Len(after)) : t[i] = after[i - Len(y)]
  BY <1>y, <1>5, JoinedProperties
<1>7. \A i \in 1..Len(before) : t[i] = before[i]
  BY <1>4, <1>6
<1>8. \A i \in (Len(before) + 1)..(Len(before) + Len(x)) : t[i] = x[i - Len(before)]
  BY <1>4, <1>6
<1>9. t = FirstText(before, n, after)
  BY <1>1, <1>3, <1>5, Zenon DEF FirstText
<1> QED
  BY <1>1, <1>4, <1>6, <1>7, <1>8, <1>9 DEF ThreeParts

\* What the parser makes of a name in the first of a record's lines.
PastName(before, n, after, e, b, f) ==
    GetQuoted(State(From(FirstText(before, n, after), Len(before) + 1), "ok", e, b, f))

NameIsRead(before, n, after, e, b, f) ==
    /\ n \notin PlainName => Failed(PastName(before, n, after, e, b, f))
    /\ n \in PlainName /\ Len(after) = 0 =>
         PastName(before, n, after, e, b, f) = State(<<>>, "end", e, b, With(f, n))
    /\ n \in PlainName /\ Len(after) > 0 /\ after[1] = Comma =>
         PastName(before, n, after, e, b, f)
           = State(From(FirstText(before, n, after), Len(before) + 3), "ok", e, b, With(f, n))

LEMMA NameRead ==
    ASSUME NEW before \in Seq(Token), NEW n \in AnyName, NEW after \in Seq(Token),
           NEW e, NEW b, NEW f
    PROVE  NameIsRead(before, n, after, e, b, f)
<1>1. PICK t : t = FirstText(before, n, after)
  OBVIOUS
<1>2. PICK k : k = Len(before) + 1
  OBVIOUS
<1>3. PICK p : p = State(From(t, k), "ok", e, b, f)
  OBVIOUS
<1>4. Len(before) \in Nat /\ Len(after) \in Nat
  BY LenProperties
<1>g. PastName(before, n, after, e, b, f) = GetQuoted(p) /\ k + 2 = Len(before) + 3
  BY <1>1, <1>2, <1>3, <1>4 DEF PastName
<1>5. CASE n \in NewlineName
  <2>1. t \in Seq(Token) /\ k \in 1..Len(t) /\ t[k] = OpenQuote
    BY <1>1, <1>2, <1>4, <1>5, FirstTextBroken
  <2>2. Failed(GetQuoted(p))
    BY <1>3, <2>1, QuotedAt
  <2>3. n \notin PlainName
    BY <1>5, NameAssumption
  <2> QED
    BY <1>g, <2>2, <2>3 DEF NameIsRead
<1>6. CASE n \notin NewlineName
  <2>1. PICK x : x = NameTokens(n)
    OBVIOUS
  <2>2. /\ t \in Seq(Token) /\ Len(t) = Len(before) + Len(x) + Len(after)
        /\ \A i \in (Len(before) + 1)..(Len(before) + Len(x)) : t[i] = x[i - Len(before)]
        /\ \A i \in (Len(before) + Len(x) + 1)..(Len(before) + Len(x) + Len(after)) :
             t[i] = after[i - (Len(before) + Len(x))]
    <3>1. ThreeParts(t, before, x, after)
      BY <1>1, <1>6, <2>1, FirstTextWhole
    <3> QED
      BY <3>1 DEF ThreeParts
  <2>3. CASE n \in QuoteName
    <3>1. Len(x) = 2 /\ x[1] = Quoted("part") /\ x[2] = Junk
      BY <2>1, <2>3, NameTokensAre
    <3>2. /\ k \in 1..Len(t) /\ k < Len(t) /\ k - Len(before) = 1 /\ (k + 1) - Len(before) = 2
          /\ k \in (Len(before) + 1)..(Len(before) + Len(x))
          /\ k + 1 \in (Len(before) + 1)..(Len(before) + Len(x))
      BY <1>2, <1>4, <2>2, <3>1
    <3>3. t[k] = Quoted("part") /\ t[k + 1] = Junk
      BY <2>2, <3>1, <3>2
    <3>4. t[k + 1] # Comma
      BY <3>3, TokenProperties
    <3>5. Failed(GetQuoted(p))
      BY <1>3, <2>2, <3>2, <3>3, <3>4, QuotedAt
    <3>6. n \notin PlainName
      BY <2>3, NameAssumption
    <3> QED
      BY <1>g, <3>5, <3>6 DEF NameIsRead
  <2>4. CASE n \notin QuoteName
    <3>1. Len(x) = 1 /\ x[1] = Quoted(n)
      BY <2>1, <2>4, NameTokensAre
    <3>2. /\ k \in 1..Len(t) /\ k - Len(before) = 1 /\ Len(t) = k + Len(after)
          /\ k \in (Len(before) + 1)..(Len(before) + Len(x)) /\ k = Len(before) + Len(x)
      BY <1>2, <1>4, <2>2, <3>1
    <3>3. t[k] = Quoted(n)
      BY <2>2, <3>1, <3>2
    <3>t. t \in Seq(Token) /\ k \in 1..Len(t)
      BY <2>2, <3>2
    <3>a. n \in LongName => Failed(GetQuoted(p))
      BY <1>3, <3>t, <3>3, QuotedAt
    <3>b. n \notin LongName /\ k = Len(t) => GetQuoted(p) = State(<<>>, "end", e, b, With(f, n))
      BY <1>3, <3>t, <3>3, QuotedAt
    <3>4. n \notin LongName /\ k < Len(t) /\ t[k + 1] = Comma =>
               GetQuoted(p) = State(From(t, k + 2), "ok", e, b, With(f, n))
      BY <1>3, <3>t, <3>3, QuotedAt
    <3>5. n \in PlainName => n \notin LongName
      BY NameAssumption
    <3>6. n \notin PlainName => n \in LongName
      BY <1>6, <2>4 DEF AnyName
    <3>7. Len(after) = 0 => k = Len(t)
      BY <3>2, <1>4, <1>2
    <3>8. Len(after) > 0 => k < Len(t) /\ t[k + 1] = after[1]
      <4>1. SUFFICES ASSUME Len(after) > 0 PROVE k < Len(t) /\ t[k + 1] = after[1]
        OBVIOUS
      <4>2. /\ k + 1 \in (Len(before) + Len(x) + 1)..(Len(before) + Len(x) + Len(after))
            /\ (k + 1) - (Len(before) + Len(x)) = 1
        BY <1>2, <1>4, <3>1, <3>2, <4>1
      <4> QED
        BY <1>2, <1>4, <2>2, <3>2, <4>1, <4>2
    <3> QED
      BY <1>1, <1>4, <1>g, <3>a, <3>b, <3>4, <3>5, <3>6, <3>7, <3>8
       DEF NameIsRead
  <2> QED
    BY <2>3, <2>4
<1> QED
  BY <1>5, <1>6

-----------------------------------------------------------------------------
(* Lines of devices. *)

LEMMA HexTokensAre ==
    ASSUME NEW ieee \in [1..HexLen -> 0..(Byte - 1)]
    PROVE  /\ HexTokens(ieee) \in Seq(Token) /\ Len(HexTokens(ieee)) = 2 * HexLen - 1
           /\ \A j \in 1..HexLen : HexTokens(ieee)[2 * j - 1] = Num(ieee[HexLen + 1 - j])
           /\ \A j \in 1..(HexLen - 1) : HexTokens(ieee)[2 * j] = Colon
<1>1. HexLen \in Nat /\ HexLen >= 1
  BY WidthAssumption
<1>2. Len(ieee) = HexLen
  BY <1>1
<1>3. PICK x : x = Reverse(ieee)
  OBVIOUS
<1>4. \A j \in 1..HexLen : x[j] = ieee[HexLen + 1 - j]
  BY <1>1, <1>2, <1>3 DEF Reverse
<1>5. \A j \in 1..HexLen : x[j] \in Nat
  BY <1>1, <1>4, FieldValues
<1> DEFINE tok(k) == IF k % 2 = 1 THEN Num(x[(k + 1) \div 2]) ELSE Colon
<1>6. HexTokens(ieee) = [k \in 1..(2 * HexLen - 1) |-> tok(k)]
  BY <1>2, <1>3 DEF HexTokens
<1>7. ASSUME NEW k \in 1..(2 * HexLen - 1) PROVE tok(k) \in Token
  <2>1. CASE k % 2 = 1
    <3>1. (k + 1) \div 2 \in 1..HexLen
      BY <1>1
    <3>2. x[(k + 1) \div 2] \in Nat
      BY <1>5, <3>1
    <3> QED
      BY <2>1, <3>2, TokenProperties
  <2>2. CASE k % 2 # 1
    BY <2>2, TokenProperties
  <2> QED
    BY <2>1, <2>2
<1>8. ASSUME NEW j \in 1..HexLen PROVE tok(2 * j - 1) = Num(ieee[HexLen + 1 - j])
  <2>1. (2 * j - 1) % 2 = 1 /\ ((2 * j - 1) + 1) \div 2 = j
    BY <1>1
  <2> QED
    BY <1>4, <2>1
<1>9. ASSUME NEW j \in 1..(HexLen - 1) PROVE tok(2 * j) = Colon
  <2>1. (2 * j) % 2 # 1
    BY <1>1
  <2> QED
    BY <2>1
<1> HIDE DEF tok
<1>10. 2 * HexLen - 1 \in Nat
  BY <1>1
<1>11. HexTokens(ieee) \in Seq(Token) /\ Len(HexTokens(ieee)) = 2 * HexLen - 1
  BY <1>6, <1>7, <1>10, IsASeq
<1>12. \A k \in 1..(2 * HexLen - 1) : HexTokens(ieee)[k] = tok(k)
  BY <1>6
<1>13. \A j \in 1..HexLen : 2 * j - 1 \in 1..(2 * HexLen - 1)
  BY <1>1
<1>14. \A j \in 1..(HexLen - 1) : 2 * j \in 1..(2 * HexLen - 1)
  BY <1>1
<1> QED
  BY <1>8, <1>9, <1>11, <1>12, <1>13, <1>14

DeviceBefore(r) == Joined(HexTokens(r.ieee), <<Comma, Num(r.na), Comma, Num(r.ep), Comma>>)

LEMMA DeviceBeforeIs ==
    ASSUME NEW r \in DeviceRecord
    PROVE  LET s == DeviceBefore(r) IN
           /\ s \in Seq(Token) /\ Len(s) = 2 * HexLen + 4
           /\ \A j \in 1..HexLen : s[2 * j - 1] = Num(r.ieee[HexLen + 1 - j])
           /\ \A j \in 1..(HexLen - 1) : s[2 * j] = Colon
           /\ s[2 * HexLen] = Comma /\ s[2 * HexLen + 1] = Num(r.na)
           /\ s[2 * HexLen + 2] = Comma /\ s[2 * HexLen + 3] = Num(r.ep)
           /\ s[2 * HexLen + 4] = Comma
<1>1. HexLen \in Nat /\ HexLen >= 1
  BY WidthAssumption
<1>2. r.ieee \in [1..HexLen -> 0..(Byte - 1)] /\ r.na \in 0..(Byte ^ 2 - 1) /\ r.ep \in 0..(Byte - 1)
  BY DEF DeviceRecord
<1>3. PICK x : x = HexTokens(r.ieee)
  OBVIOUS
<1>4. /\ x \in Seq(Token) /\ Len(x) = 2 * HexLen - 1
      /\ \A j \in 1..HexLen : x[2 * j - 1] = Num(r.ieee[HexLen + 1 - j])
      /\ \A j \in 1..(HexLen - 1) : x[2 * j] = Colon
  BY <1>2, <1>3, HexTokensAre
<1>5. PICK y : y = <<Comma, Num(r.na), Comma, Num(r.ep), Comma>>
  OBVIOUS
<1>6. Num(r.na) \in Token /\ Num(r.ep) \in Token /\ Comma \in Token
  BY <1>2, FieldValues, TokenProperties
<1>7. /\ y \in Seq(Token) /\ Len(y) = 5 /\ y[1] = Comma /\ y[2] = Num(r.na) /\ y[3] = Comma
      /\ y[4] = Num(r.ep) /\ y[5] = Comma
  BY <1>5, <1>6
<1>8. PICK s : s = DeviceBefore(r)
  OBVIOUS
<1>9. s = Joined(x, y)
  BY <1>3, <1>5, <1>8, Zenon DEF DeviceBefore
<1>10. x \in Seq(Token) /\ y \in Seq(Token)
  BY <1>4, <1>7
<1>11. /\ s \in Seq(Token) /\ Len(s) = Len(x) + Len(y)
       /\ \A i \in 1..Len(x) : s[i] = x[i]
       /\ \A i \in (Len(x) + 1)..(Len(x) + Len(y)) : s[i] = y[i - Len(x)]
  BY <1>9, <1>10, JoinedProperties
<1>12. PICK m : m = 2 * HexLen
  OBVIOUS
<1>13. m \in Nat /\ Len(x) = m - 1 /\ Len(y) = 5
  BY <1>1, <1>4, <1>7, <1>12
<1>14. \A j \in 1..HexLen : s[2 * j - 1] = Num(r.ieee[HexLen + 1 - j])
  <2>1. \A j \in 1..HexLen : 2 * j - 1 \in 1..Len(x)
    BY <1>1, <1>4
  <2> QED
    BY <1>4, <1>11, <2>1
<1>15. \A j \in 1..(HexLen - 1) : s[2 * j] = Colon
  <2>1. \A j \in 1..(HexLen - 1) : 2 * j \in 1..Len(x)
    BY <1>1, <1>4
  <2> QED
    BY <1>4, <1>11, <2>1
<1>16. /\ s[m] = y[1] /\ s[m + 1] = y[2] /\ s[m + 2] = y[3] /\ s[m + 3] = y[4] /\ s[m + 4] = y[5]
  BY <1>11, <1>13
<1>17. s \in Seq(Token) /\ Len(s) = m + 4
  BY <1>11, <1>13
<1> QED
  BY <1>7, <1>8, <1>12, <1>14, <1>15, <1>16, <1>17

LEMMA FirstTextBefore ==
    ASSUME NEW before \in Seq(Token), NEW n \in AnyName, NEW after \in Seq(Token)
    PROVE  /\ FirstText(before, n, after) \in Seq(Token)
           /\ Len(FirstText(before, n, after)) \in Nat
           /\ Len(before) < Len(FirstText(before, n, after))
           /\ \A i \in 1..Len(before) : FirstText(before, n, after)[i] = before[i]
<1>1. Len(before) \in Nat /\ Len(after) \in Nat
  BY LenProperties
<1>2. CASE n \in NewlineName
  BY <1>1, <1>2, FirstTextBroken
<1>3. CASE n \notin NewlineName
  <2>2. PICK x : x = NameTokens(n)
    OBVIOUS
  <2>1. Len(x) = 1 \/ Len(x) = 2
    BY <2>2, NameTokensAre
  <2>3. PICK t : t = FirstText(before, n, after)
    OBVIOUS
  <2>4. /\ t \in Seq(Token) /\ Len(t) = Len(before) + Len(x) + Len(after)
        /\ \A i \in 1..Len(before) : t[i] = before[i]
    <3>1. ThreeParts(t, before, x, after)
      BY <1>3, <2>2, <2>3, FirstTextWhole
    <3> QED
      BY <3>1 DEF ThreeParts
  <2>5. Len(x) \in Nat /\ Len(x) > 0
    <3>1. PICK l : l = Len(x)
      OBVIOUS
    <3>2. l = 1 \/ l = 2
      BY <2>1, <3>1
    <3> QED
      BY <3>1, <3>2
  <2>6. Len(t) \in Nat /\ Len(before) < Len(t)
    BY <1>1, <2>4, <2>5
  <2> QED
    BY <2>3, <2>4, <2>6
<1> QED
  BY <1>2, <1>3

DeviceText(r) == FirstText(DeviceBefore(r), r.name, <<>>)

LEMMA DeviceTextIs ==
    ASSUME NEW r
    PROVE  Head(DeviceLines(r)).text = DeviceText(r)
<1>1. DeviceLines(r) = TwoLines(DeviceBefore(r), r.name, <<>>, r)
  BY Zenon DEF DeviceLines, DeviceBefore, Joined
<1> QED
  BY <1>1, TwoLinesAre DEF DeviceText

DeviceFields(r) == With(With(With(With(<<>>, r.ieee), r.na), r.ep), r.name)

\* A device is read as it was written; one with an address above 16#FF00 or a
\* name that is not one string of the line is an error.
LEMMA DeviceRead ==
    ASSUME NEW r \in DeviceRecord, NEW e \in {"none", "other"}
    PROVE  LET p == ParseDevice(DeviceText(r), e) IN
           /\ r.na <= 65280 /\ r.name \in PlainName =>
                p = State(<<>>, "end", e, r.ieee, DeviceFields(r))
           /\ ~(r.na <= 65280 /\ r.name \in PlainName) => Failed(p)
<1>1. /\ r.ieee \in [1..HexLen -> 0..(Byte - 1)] /\ r.na \in 0..(Byte ^ 2 - 1)
      /\ r.ep \in 0..(Byte - 1) /\ r.name \in AnyName
  BY DEF DeviceRecord
<1>2. r.na \in Nat /\ r.na <= 65535 /\ r.ep \in Nat /\ r.ep <= 255
  BY <1>1, FieldValues
<1>3. PICK n : n = 2 * HexLen /\ n \in Nat
  BY WidthAssumption
<1>4. PICK s : s = DeviceBefore(r)
  OBVIOUS
<1>5. /\ s \in Seq(Token) /\ Len(s) = n + 4
      /\ \A j \in 1..HexLen : s[2 * j - 1] = Num(r.ieee[HexLen + 1 - j])
      /\ \A j \in 1..(HexLen - 1) : s[2 * j] = Colon
      /\ s[n] = Comma /\ s[n + 1] = Num(r.na) /\ s[n + 2] = Comma /\ s[n + 3] = Num(r.ep)
      /\ s[n + 4] = Comma
  BY <1>3, <1>4, DeviceBeforeIs
<1>6. PICK t : t = DeviceText(r)
  OBVIOUS
<1>7. /\ t \in Seq(Token) /\ Len(t) \in Nat /\ Len(s) < Len(t)
      /\ \A i \in 1..Len(s) : t[i] = s[i]
  <2>1. <<>> \in Seq(Token) /\ s \in Seq(Token)
    BY <1>5
  <2> QED
    BY <1>1, <1>4, <1>6, <2>1, FirstTextBefore DEF DeviceText
<1>8. /\ t[n] = Comma /\ t[n + 1] = Num(r.na) /\ t[n + 2] = Comma /\ t[n + 3] = Num(r.ep)
      /\ t[n + 4] = Comma /\ n + 4 < Len(t) /\ HexLen \in Nat /\ n = 2 * HexLen /\ n >= 2
  BY <1>3, <1>5, <1>7, WidthAssumption
<1>m. Len(t) \in Nat /\ n \in Nat /\ n >= 2 /\ n + 4 < Len(t)
  BY <1>3, <1>7, <1>8
<1>9. \A j \in 1..HexLen : t[2 * j - 1] = Num(r.ieee[HexLen + 1 - j])
  <2>1. \A j \in 1..HexLen : 2 * j - 1 \in 1..Len(s)
    BY <1>3, <1>5, <1>8
  <2> QED
    BY <1>5, <1>7, <2>1
<1>10. \A j \in 1..(HexLen - 1) : t[2 * j] = Colon
  <2>1. \A j \in 1..(HexLen - 1) : 2 * j \in 1..Len(s)
    BY <1>3, <1>5, <1>8
  <2> QED
    BY <1>5, <1>7, <2>1
<1>11. e # "range"
  OBVIOUS
<1>12. PICK p0 : p0 = State(From(t, 1), "ok", e, <<>>, <<>>)
  OBVIOUS
<1>13. Start(t, e) = p0
  BY <1>7, <1>12, FromSteps DEF Start, State
<1>14. PICK b : b = r.ieee
  OBVIOUS
<1>15. PICK f1, f2, f3, f4 : /\ f1 = With(<<>>, b) /\ f2 = With(f1, r.na)
                             /\ f3 = With(f2, r.ep) /\ f4 = With(f3, r.name)
  OBVIOUS
<1>16. PICK p1 : p1 = State(From(t, n + 1), "ok", e, b, f1)
  OBVIOUS
<1>17. GetHex(p0) = p1
  <2>1. HexAhead(t, b)
    BY <1>8, <1>9, <1>10, <1>14 DEF HexAhead
  <2>2. b \in [1..HexLen -> 0..(Byte - 1)] /\ t \in Seq(Token)
    BY <1>1, <1>7, <1>14
  <2>3. GetHex(p0) = State(From(t, 2 * HexLen + 1), "ok", e, b, With(<<>>, b))
    BY <1>11, <1>12, <2>1, <2>2, HexAt
  <2> QED
    BY <1>8, <1>15, <1>16, <2>3
<1>18. PICK p2 : p2 = GetNumber(p1, 2)
  OBVIOUS
<1>19. /\ r.na <= 65280 => p2 = State(From(t, n + 3), "ok", e, b, f2)
       /\ r.na > 65280 => Failed(p2)
  <2>1. PICK k, v : k = n + 1 /\ v = r.na
    OBVIOUS
  <2>2. k \in 1..Len(t) /\ k < Len(t) /\ k + 1 = n + 2 /\ k + 2 = n + 3
    BY <1>m, <2>1
  <2>3. t \in Seq(Token) /\ t[k] = Num(v) /\ t[k + 1] = Comma /\ v \in Nat /\ v <= 65535
    BY <1>2, <1>7, <1>8, <2>1, <2>2
  <2>4. p1 = State(From(t, k), "ok", e, b, f1)
    BY <1>16, <2>1
  <2>5. /\ v <= 65280 => GetNumber(p1, 2) = State(From(t, k + 2), "ok", e, b, With(f1, v))
        /\ v > 65280 => Failed(GetNumber(p1, 2))
    BY <1>11, <2>2, <2>3, <2>4, AddressAt
  <2> QED
    BY <1>15, <1>18, <2>1, <2>2, <2>5
<1>20. PICK p3 : p3 = GetNumber(p2, 1)
  OBVIOUS
<1>21. /\ r.na <= 65280 => p3 = State(From(t, n + 5), "ok", e, b, f3)
       /\ r.na > 65280 => Failed(p3)
  <2>1. PICK k, v : k = n + 3 /\ v = r.ep
    OBVIOUS
  <2>2. k \in 1..Len(t) /\ k < Len(t) /\ k + 1 = n + 4 /\ k + 2 = n + 5
    BY <1>m, <2>1
  <2>3. t \in Seq(Token) /\ t[k] = Num(v) /\ t[k + 1] = Comma /\ v \in Nat /\ v <= 255
    BY <1>2, <1>7, <1>8, <2>1, <2>2
  <2>4. ASSUME r.na <= 65280 PROVE p3 = State(From(t, n + 5), "ok", e, b, f3)
    <3>1. p2 = State(From(t, k), "ok", e, b, f2)
      BY <1>19, <2>1, <2>4
    <3>2. GetNumber(p2, 1) = State(From(t, k + 2), "ok", e, b, With(f2, v))
      BY <1>11, <2>2, <2>3, <3>1, EndpointAt
    <3> QED
      BY <1>15, <1>20, <2>1, <2>2, <3>2
  <2>5. ASSUME r.na > 65280 PROVE Failed(p3)
    BY <1>19, <1>20, <2>5, FailedStays
  <2> QED
    BY <2>4, <2>5
<1>22. PICK q : q = GetQuoted(p3)
  OBVIOUS
<1>23. ParseDevice(t, e) = q
  BY <1>13, <1>17, <1>18, <1>20, <1>22 DEF ParseDevice
<1>24. ASSUME r.na > 65280 PROVE Failed(q)
  BY <1>21, <1>22, <1>24, FailedStays
<1>25. ASSUME r.na <= 65280
       PROVE  /\ r.name \notin PlainName => Failed(q)
              /\ r.name \in PlainName => q = State(<<>>, "end", e, b, f4)
  <2>1. PICK after : after = <<>>
    OBVIOUS
  <2>2. after \in Seq(Token) /\ Len(after) = 0
    BY <2>1
  <2>3. t = FirstText(s, r.name, after)
    BY <1>4, <1>6, <2>1, Zenon DEF DeviceText
  <2>4. q = GetQuoted(State(From(t, Len(s) + 1), "ok", e, b, f3))
    <3>1. Len(s) + 1 = n + 5
      BY <1>3, <1>5
    <3> QED
      BY <1>21, <1>22, <1>25, <3>1
  <2>5. s \in Seq(Token) /\ r.name \in AnyName
    BY <1>1, <1>5
  <2>6. PICK m : m = r.name
    OBVIOUS
  <2>7. q = PastName(s, m, after, e, b, f3) /\ m \in AnyName
    BY <2>3, <2>4, <2>5, <2>6 DEF PastName
  <2>8. NameIsRead(s, m, after, e, b, f3)
    BY <2>2, <2>5, <2>7, NameRead
  <2>9. /\ m \notin PlainName => Failed(q)
        /\ m \in PlainName => q = State(<<>>, "end", e, b, With(f3, m))
    BY <2>2, <2>7, <2>8 DEF NameIsRead
  <2> QED
    BY <1>15, <2>6, <2>9
<1>26. f4 = DeviceFields(r)
  BY <1>14, <1>15 DEF DeviceFields
<1> QED
  BY <1>2, <1>6, <1>14, <1>23, <1>24, <1>25, <1>26

-----------------------------------------------------------------------------
(* Lines of groups. *)

GroupBefore(g) == <<Num(g.id), Comma>>

GroupText(g) == FirstText(GroupBefore(g), g.name, MemberTokens(g.members))

LEMMA GroupTextIs ==
    ASSUME NEW g
    PROVE  Head(GroupLines(g)).text = GroupText(g)
<1>1. GroupLines(g) = TwoLines(GroupBefore(g), g.name, MemberTokens(g.members), g)
  BY Zenon DEF GroupLines, GroupBefore
<1> QED
  BY <1>1, TwoLinesAre DEF GroupText

LEMMA GroupFieldValues ==
    ASSUME NEW g \in GroupRecord
    PROVE  /\ g.id \in Nat /\ g.id <= 65535 /\ g.name \in AnyName
           /\ Len(g.members) \in Nat /\ DOMAIN g.members = 1..Len(g.members)
           /\ \A i \in 1..Len(g.members) :
                /\ g.members[i].na \in Nat /\ g.members[i].na <= 65535
                /\ g.members[i].ep \in Nat /\ g.members[i].ep <= 255
<1>1. PICK A : A = 0..(Byte ^ 2 - 1)
  OBVIOUS
<1>2. PICK E : E = 0..(Byte - 1)
  OBVIOUS
<1>3. PICK M : M = [na : A, ep : E]
  OBVIOUS
<1>4. g.id \in A /\ g.name \in AnyName /\ g.members \in Seq(M)
  BY <1>1, <1>2, <1>3, Zenon DEF GroupRecord
<1>5. (\A v \in A : v \in Nat /\ v <= 65535) /\ (\A v \in E : v \in Nat /\ v <= 255)
  BY <1>1, <1>2, FieldValues
<1>6. /\ Len(g.members) \in Nat /\ DOMAIN g.members = 1..Len(g.members)
      /\ \A i \in 1..Len(g.members) : g.members[i] \in M
  BY <1>4, LenProperties
<1>7. ASSUME NEW i \in 1..Len(g.members)
      PROVE  /\ g.members[i].na \in Nat /\ g.members[i].na <= 65535
             /\ g.members[i].ep \in Nat /\ g.members[i].ep <= 255
  <2>1. g.members[i].na \in A /\ g.members[i].ep \in E
    BY <1>3, <1>6
  <2> QED
    BY <1>5, <2>1
<1> QED
  BY <1>4, <1>5, <1>6, <1>7

\* The members of a group, k tokens into a line.
MembersAhead(t, k, m) ==
    \A i \in 1..Len(m) : /\ t[k + 4 * i - 3] = Comma /\ t[k + 4 * i - 2] = Num(m[i].na)
                         /\ t[k + 4 * i - 1] = Comma /\ t[k + 4 * i] = Num(m[i].ep)

LEMMA MemberTokensAre ==
    ASSUME NEW m, Len(m) \in Nat,
           \A i \in 1..Len(m) : m[i].na \in Nat /\ m[i].ep \in Nat
    PROVE  /\ MemberTokens(m) \in Seq(Token) /\ Len(MemberTokens(m)) = 4 * Len(m)
           /\ MembersAhead(MemberTokens(m), 0, m)
<1> DEFINE tok(k) == LET x == m[(k + 3) \div 4] IN
                     IF k % 2 = 1 THEN Comma ELSE Num(IF k % 4 = 2 THEN x.na ELSE x.ep)
<1>1. PICK n \in Nat : n = Len(m)
  OBVIOUS
<1>2. MemberTokens(m) = [k \in 1..(4 * n) |-> tok(k)]
  BY <1>1 DEF MemberTokens
<1>3. ASSUME NEW k \in 1..(4 * n) PROVE tok(k) \in Token
  <2>1. PICK j \in 1..n : j = (k + 3) \div 4
    OBVIOUS
  <2>2. m[j].na \in Nat /\ m[j].ep \in Nat
    BY <1>1
  <2> QED
    BY <2>1, <2>2, TokenProperties
<1>4. ASSUME NEW i \in 1..n
      PROVE  /\ tok(4 * i - 3) = Comma /\ tok(4 * i - 2) = Num(m[i].na)
             /\ tok(4 * i - 1) = Comma /\ tok(4 * i) = Num(m[i].ep)
  <2>1. /\ (4 * i - 3) % 2 = 1 /\ (4 * i - 1) % 2 = 1
        /\ (4 * i - 2) % 2 # 1 /\ (4 * i) % 2 # 1
        /\ (4 * i - 2) % 4 = 2 /\ (4 * i) % 4 # 2
        /\ ((4 * i - 2) + 3) \div 4 = i /\ (4 * i + 3) \div 4 = i
    OBVIOUS
  <2> QED
    BY <2>1
<1> HIDE DEF tok
<1>5. 4 * n \in Nat
  OBVIOUS
<1>6. MemberTokens(m) \in Seq(Token) /\ Len(MemberTokens(m)) = 4 * n
  BY <1>2, <1>3, <1>5, IsASeq
<1>7. \A k \in 1..(4 * n) : MemberTokens(m)[k] = tok(k)
  BY <1>2
<1>8. ASSUME NEW i \in 1..n
      PROVE  /\ 0 + 4 * i - 3 = 4 * i - 3 /\ 0 + 4 * i - 2 = 4 * i - 2
             /\ 0 + 4 * i - 1 = 4 * i - 1 /\ 0 + 4 * i = 4 * i
             /\ 4 * i - 3 \in 1..(4 * n) /\ 4 * i - 2 \in 1..(4 * n)
             /\ 4 * i - 1 \in 1..(4 * n) /\ 4 * i \in 1..(4 * n)
  OBVIOUS
<1>9. MembersAhead(MemberTokens(m), 0, m)
  BY <1>1, <1>4, <1>7, <1>8 DEF MembersAhead
<1> QED
  BY <1>1, <1>6, <1>9

\* The first line of a group whose name is one string of it.
LEMMA GroupTextWhole ==
    ASSUME NEW g \in GroupRecord, g.name \in PlainName
    PROVE  /\ GroupText(g) \in Seq(Token) /\ Len(GroupText(g)) = 3 + 4 * Len(g.members)
           /\ MembersAhead(GroupText(g), 3, g.members)
<1>1. /\ g.id \in Nat /\ g.name \in AnyName /\ Len(g.members) \in Nat
      /\ \A i \in 1..Len(g.members) : g.members[i].na \in Nat /\ g.members[i].ep \in Nat
  BY GroupFieldValues
<1>2. PICK before, after : before = GroupBefore(g) /\ after = MemberTokens(g.members)
  OBVIOUS
<1>3. before \in Seq(Token) /\ Len(before) = 2
  <2>1. PICK x : x = Num(g.id)
    OBVIOUS
  <2>2. x \in Token /\ Comma \in Token
    BY <1>1, <2>1, TokenProperties
  <2> QED
    BY <1>2, <2>1, <2>2 DEF GroupBefore
<1>4. /\ after \in Seq(Token) /\ Len(after) = 4 * Len(g.members)
      /\ MembersAhead(after, 0, g.members)
  BY <1>1, <1>2, MemberTokensAre
<1>5. g.name \notin NewlineName /\ g.name \notin QuoteName
  BY NameAssumption
<1>6. PICK x : x = NameTokens(g.name)
  OBVIOUS
<1>7. Len(x) = 1
  BY <1>1, <1>5, <1>6, NameTokensAre
<1>8. PICK t, n : t = GroupText(g) /\ n = g.name
  OBVIOUS
<1>9. t = FirstText(before, n, after) /\ n \in AnyName /\ n \notin NewlineName
  BY <1>1, <1>2, <1>5, <1>8 DEF GroupText
<1>a. before \in Seq(Token) /\ after \in Seq(Token)
  BY <1>3, <1>4
<1>10. /\ t \in Seq(Token) /\ Len(t) = Len(before) + Len(x) + Len(after)
       /\ \A i \in (Len(before) + Len(x) + 1)..(Len(before) + Len(x) + Len(after)) :
            t[i] = after[i - (Len(before) + Len(x))]
  <2>1. ThreeParts(t, before, x, after)
    BY <1>a, <1>6, <1>8, <1>9, FirstTextWhole
  <2> QED
    BY <2>1 DEF ThreeParts
<1>11. /\ Len(t) = 3 + 4 * Len(g.members)
       /\ \A i \in 4..(3 + 4 * Len(g.members)) : t[i] = after[i - 3]
  BY <1>1, <1>3, <1>4, <1>7, <1>10
<1>12. MembersAhead(t, 3, g.members)
  <2> SUFFICES ASSUME NEW i \in 1..Len(g.members)
               PROVE  /\ t[3 + 4 * i - 3] = Comma /\ t[3 + 4 * i - 2] = Num(g.members[i].na)
                      /\ t[3 + 4 * i - 1] = Comma /\ t[3 + 4 * i] = Num(g.members[i].ep)
    BY DEF MembersAhead
  <2>1. /\ after[0 + 4 * i - 3] = Comma /\ after[0 + 4 * i - 2] = Num(g.members[i].na)
        /\ after[0 + 4 * i - 1] = Comma /\ after[0 + 4 * i] = Num(g.members[i].ep)
    BY <1>4 DEF MembersAhead
  <2>2. /\ 3 + 4 * i - 3 \in 4..(3 + 4 * Len(g.members))
        /\ 3 + 4 * i - 2 \in 4..(3 + 4 * Len(g.members))
        /\ 3 + 4 * i - 1 \in 4..(3 + 4 * Len(g.members))
        /\ 3 + 4 * i \in 4..(3 + 4 * Len(g.members))
    BY <1>1
  <2>3. /\ (3 + 4 * i - 3) - 3 = 0 + 4 * i - 3 /\ (3 + 4 * i - 2) - 3 = 0 + 4 * i - 2
        /\ (3 + 4 * i - 1) - 3 = 0 + 4 * i - 1 /\ (3 + 4 * i) - 3 = 0 + 4 * i
    BY <1>1
  <2> QED
    BY <1>11, <2>1, <2>2, <2>3
<1> QED
  BY <1>8, <1>10, <1>11, <1>12

\* The fields of a group of which i members are read.
GroupFields(g, i) ==
    [k \in 1..(2 * i + 2) |->
       IF k = 1 THEN g.id ELSE IF k = 2 THEN g.name
       ELSE LET m == g.members[(k - 1) \div 2] IN IF k % 2 = 1 THEN m.na ELSE m.ep]

\* One value more.
OneMore(h, f, v) ==
    /\ Len(f) \in Nat /\ Len(h) = Len(f) + 1
    /\ \A i \in 1..Len(f) : h[i] = f[i]
    /\ h[Len(f) + 1] = v

LEMMA WithValue ==
    ASSUME NEW R, NEW f \in Seq(R), NEW v \in R
    PROVE  With(f, v) \in Seq(R) /\ OneMore(With(f, v), f, v)
BY AppendProperties, LenProperties DEF With, OneMore

\* The values of those fields.
AreFields(h, g, i) ==
    /\ Len(h) = 2 * i + 2 /\ h[1] = g.id /\ h[2] = g.name
    /\ \A k \in 1..i : h[2 * k + 1] = g.members[k].na /\ h[2 * k + 2] = g.members[k].ep

LEMMA GroupFieldsAre ==
    ASSUME NEW g \in GroupRecord, NEW i \in Nat, i <= Len(g.members)
    PROVE  GroupFields(g, i) \in Seq(Nat \cup AnyName) /\ AreFields(GroupFields(g, i), g, i)
<1> DEFINE val(k) == IF k = 1 THEN g.id ELSE IF k = 2 THEN g.name
                     ELSE LET m == g.members[(k - 1) \div 2] IN IF k % 2 = 1 THEN m.na ELSE m.ep
<1>1. /\ g.id \in Nat /\ g.name \in AnyName /\ Len(g.members) \in Nat
      /\ \A k \in 1..Len(g.members) : g.members[k].na \in Nat /\ g.members[k].ep \in Nat
  BY GroupFieldValues
<1>2. GroupFields(g, i) = [k \in 1..(2 * i + 2) |-> val(k)]
  BY DEF GroupFields
<1>3. ASSUME NEW k \in 1..(2 * i + 2) PROVE val(k) \in Nat \cup AnyName
  <2>1. CASE k = 1 \/ k = 2
    BY <1>1, <2>1
  <2>2. CASE k # 1 /\ k # 2
    <3>1. (k - 1) \div 2 \in 1..Len(g.members)
      BY <1>1, <2>2
    <3>2. PICK m : m = g.members[(k - 1) \div 2]
      OBVIOUS
    <3>3. m.na \in Nat /\ m.ep \in Nat
      BY <1>1, <3>1, <3>2
    <3>4. val(k) = IF k % 2 = 1 THEN m.na ELSE m.ep
      BY <2>2, <3>2
    <3> QED
      BY <3>3, <3>4
  <2> QED
    BY <2>1, <2>2
<1>4. val(1) = g.id /\ val(2) = g.name
  OBVIOUS
<1>5. ASSUME NEW k \in 1..i
      PROVE  val(2 * k + 1) = g.members[k].na /\ val(2 * k + 2) = g.members[k].ep
  <2>1. /\ ((2 * k + 1) - 1) \div 2 = k /\ ((2 * k + 2) - 1) \div 2 = k
        /\ (2 * k + 1) % 2 = 1 /\ (2 * k + 2) % 2 # 1
        /\ 2 * k + 1 # 1 /\ 2 * k + 1 # 2 /\ 2 * k + 2 # 1 /\ 2 * k + 2 # 2
    OBVIOUS
  <2> QED
    BY <2>1
<1> HIDE DEF val
<1>6. 2 * i + 2 \in Nat /\ 1 \in 1..(2 * i + 2) /\ 2 \in 1..(2 * i + 2)
      /\ \A k \in 1..i : 2 * k + 1 \in 1..(2 * i + 2) /\ 2 * k + 2 \in 1..(2 * i + 2)
  OBVIOUS
<1>7. /\ GroupFields(g, i) \in Seq(Nat \cup AnyName)
      /\ Len(GroupFields(g, i)) = 2 * i + 2
  BY <1>2, <1>3, <1>6, IsASeq
<1>8. \A k \in 1..(2 * i + 2) : GroupFields(g, i)[k] = val(k)
  BY <1>2
<1> QED
  BY <1>4, <1>5, <1>6, <1>7, <1>8 DEF AreFields

LEMMA GroupFieldsSteps ==
    ASSUME NEW g \in GroupRecord
    PROVE  /\ GroupFields(g, 0) = With(With(<<>>, g.id), g.name)
           /\ \A i \in 0..(Len(g.members) - 1) :
                GroupFields(g, i + 1)
                  = With(With(GroupFields(g, i), g.members[i + 1].na), g.members[i + 1].ep)
<1> DEFINE R == Nat \cup AnyName
<1>1. /\ g.id \in R /\ g.name \in R /\ Len(g.members) \in Nat
      /\ \A k \in 1..Len(g.members) : g.members[k].na \in R /\ g.members[k].ep \in R
  BY GroupFieldValues
<1>2. ASSUME NEW i \in Nat, i <= Len(g.members)
      PROVE  GroupFields(g, i) \in Seq(R) /\ AreFields(GroupFields(g, i), g, i)
  BY <1>2, GroupFieldsAre
<1> HIDE DEF R
<1>3. GroupFields(g, 0) = With(With(<<>>, g.id), g.name)
  <2>1. PICK x, y, f : /\ x = With(<<>>, g.id) /\ y = With(x, g.name) /\ f = GroupFields(g, 0)
    OBVIOUS
  <2>2. <<>> \in Seq(R) /\ Len(<<>>) = 0
    OBVIOUS
  <2>a. x \in Seq(R)
    BY <1>1, <2>1, <2>2, WithValue
  <2>3. Len(x) = 1 /\ x[1] = g.id
    <3>1. x \in Seq(R) /\ OneMore(x, <<>>, g.id)
      BY <1>1, <2>1, <2>2, WithValue
    <3> QED
      BY <2>2, <3>1 DEF OneMore
  <2>4. y \in Seq(R) /\ Len(y) = 2 /\ y[1] = x[1] /\ y[2] = g.name
    <3>1. y \in Seq(R) /\ OneMore(y, x, g.name)
      BY <1>1, <2>1, <2>a, WithValue
    <3> QED
      BY <2>3, <3>1 DEF OneMore
  <2>5. f \in Seq(R) /\ Len(f) = 2 /\ f[1] = g.id /\ f[2] = g.name
    <3>1. PICK i \in Nat : i = 0 /\ i <= Len(g.members)
      BY <1>1
    <3>2. f \in Seq(R) /\ AreFields(f, g, i)
      BY <1>2, <2>1, <3>1
    <3> QED
      BY <3>1, <3>2 DEF AreFields
  <2>6. \A k \in 1..Len(f) : f[k] = y[k]
    BY <2>3, <2>4, <2>5
  <2>7. f = y
    BY <2>4, <2>5, <2>6, SeqEqual
  <2> QED
    BY <2>1, <2>7
<1>4. ASSUME NEW i \in 0..(Len(g.members) - 1)
      PROVE  GroupFields(g, i + 1)
               = With(With(GroupFields(g, i), g.members[i + 1].na), g.members[i + 1].ep)
  <2>1. PICK a, b : a = g.members[i + 1].na /\ b = g.members[i + 1].ep
    OBVIOUS
  <2>2. i \in Nat /\ i + 1 \in Nat /\ i <= Len(g.members) /\ i + 1 <= Len(g.members)
        /\ a \in R /\ b \in R
    BY <1>1, <2>1
  <2>3. PICK f, x, y, h : /\ f = GroupFields(g, i) /\ x = With(f, a) /\ y = With(x, b)
                          /\ h = GroupFields(g, i + 1)
    OBVIOUS
  <2>4. /\ f \in Seq(R) /\ Len(f) = 2 * i + 2 /\ f[1] = g.id /\ f[2] = g.name
        /\ \A k \in 1..i : f[2 * k + 1] = g.members[k].na /\ f[2 * k + 2] = g.members[k].ep
    BY <1>2, <2>2, <2>3 DEF AreFields
  <2>5. /\ h \in Seq(R) /\ Len(h) = 2 * (i + 1) + 2 /\ h[1] = g.id /\ h[2] = g.name
        /\ \A k \in 1..(i + 1) : h[2 * k + 1] = g.members[k].na /\ h[2 * k + 2] = g.members[k].ep
    <3>1. PICK j \in Nat : j = i + 1 /\ j <= Len(g.members)
      BY <2>2
    <3>2. h \in Seq(R) /\ AreFields(h, g, j)
      BY <1>2, <2>3, <3>1
    <3> QED
      BY <3>1, <3>2 DEF AreFields
  <2>6. f \in Seq(R)
    BY <2>4
  <2>7. /\ x \in Seq(R) /\ Len(x) = Len(f) + 1 /\ (\A k \in 1..Len(f) : x[k] = f[k])
        /\ x[Len(f) + 1] = a
    <3>1. x \in Seq(R) /\ OneMore(x, f, a)
      BY <2>2, <2>3, <2>6, WithValue
    <3> QED
      BY <3>1 DEF OneMore
  <2>8. x \in Seq(R)
    BY <2>7
  <2>9. /\ y \in Seq(R) /\ Len(y) = Len(x) + 1 /\ (\A k \in 1..Len(x) : y[k] = x[k])
        /\ y[Len(x) + 1] = b
    <3>1. y \in Seq(R) /\ OneMore(y, x, b)
      BY <2>2, <2>3, <2>8, WithValue
    <3> QED
      BY <3>1 DEF OneMore
  <2>10. Len(h) = 2 * i + 4 /\ Len(y) = 2 * i + 4 /\ Len(f) = 2 * i + 2 /\ Len(x) = 2 * i + 3
    BY <2>2, <2>4, <2>5, <2>7, <2>9
  <2>11. ASSUME NEW k \in 1..Len(h) PROVE h[k] = y[k]
    <3>1. k \in 1..(2 * i + 4)
      BY <2>10
    <3>2. CASE k = 1 \/ k = 2
      BY <2>2, <2>4, <2>5, <2>7, <2>9, <2>10, <3>2
    <3>3. CASE k = 2 * i + 3
      <4>1. k = 2 * (i + 1) + 1 /\ i + 1 \in 1..(i + 1)
        BY <2>2, <3>3
      <4>2. h[k] = a
        BY <2>1, <2>5, <4>1
      <4>3. k = Len(f) + 1 /\ k \in 1..Len(x)
        BY <2>2, <2>10, <3>3
      <4> QED
        BY <2>7, <2>9, <4>2, <4>3
    <3>4. CASE k = 2 * i + 4
      <4>1. k = 2 * (i + 1) + 2 /\ i + 1 \in 1..(i + 1) /\ k = Len(x) + 1
        BY <2>2, <2>10, <3>4
      <4> QED
        BY <2>1, <2>5, <2>9, <4>1
    <3>5. CASE k \in 3..(2 * i + 2)
      <4>1. PICK j \in 1..i : k = 2 * j + 1 \/ k = 2 * j + 2
        <5>1. (k - 1) \div 2 \in 1..i /\ (k = 2 * ((k - 1) \div 2) + 1 \/ k = 2 * ((k - 1) \div 2) + 2)
          BY <2>2, <3>5
        <5> QED
          BY <5>1
      <4>2. j \in 1..(i + 1) /\ k \in 1..Len(f) /\ k \in 1..Len(x)
        BY <2>2, <2>10, <3>5
      <4>3. h[k] = f[k]
        BY <2>4, <2>5, <4>1, <4>2
      <4> QED
        BY <2>7, <2>9, <4>2, <4>3
    <3> QED
      BY <2>2, <3>1, <3>2, <3>3, <3>4, <3>5
  <2>12. h = y
    BY <2>5, <2>9, <2>10, <2>11, SeqEqual
  <2> QED
    BY <2>1, <2>3, <2>12
<1> QED
  BY <1>3, <1>4

\* The state of the parser when it has read i members of a group.
MemberState(t, e, g, i) ==
    IF i < Len(g.members) THEN State(From(t, 4 * i + 5), "ok", e, <<>>, GroupFields(g, i))
                          ELSE State(<<>>, "end", e, <<>>, GroupFields(g, i))

\* What the loop of ParseGroup starts with and what it does for a member.
GroupStart(t, e) == GetQuoted(GetNumber(Start(t, e), 2))

OneMember(q) == IF q.code # "ok" THEN q ELSE GetNumber(GetNumber(q, 2), 1)

LEMMA GroupStartRead ==
    ASSUME NEW g \in GroupRecord, NEW e \in {"none", "other"}
    PROVE  /\ g.id <= 65280 /\ g.name \in PlainName =>
                GroupStart(GroupText(g), e) = MemberState(GroupText(g), e, g, 0)
           /\ ~(g.id <= 65280 /\ g.name \in PlainName) => Failed(GroupStart(GroupText(g), e))
<1>1. /\ g.id \in Nat /\ g.id <= 65535 /\ g.name \in AnyName /\ Len(g.members) \in Nat
      /\ \A i \in 1..Len(g.members) : g.members[i].na \in Nat /\ g.members[i].ep \in Nat
  BY GroupFieldValues
<1>2. PICK before, after, n, v : /\ before = GroupBefore(g) /\ after = MemberTokens(g.members)
                                 /\ n = g.name /\ v = g.id
  OBVIOUS
<1>3. before \in Seq(Token) /\ Len(before) = 2 /\ before[1] = Num(v) /\ before[2] = Comma
  <2>1. PICK x : x = Num(v)
    OBVIOUS
  <2>2. x \in Token /\ Comma \in Token
    BY <1>1, <1>2, <2>1, TokenProperties
  <2> QED
    BY <1>2, <2>1, <2>2 DEF GroupBefore
<1>4. /\ after \in Seq(Token) /\ Len(after) = 4 * Len(g.members)
      /\ MembersAhead(after, 0, g.members)
  BY <1>1, <1>2, MemberTokensAre
<1>5. before \in Seq(Token) /\ after \in Seq(Token) /\ n \in AnyName
  BY <1>1, <1>2, <1>3, <1>4
<1>6. PICK t : t = FirstText(before, n, after)
  OBVIOUS
<1>7. t = GroupText(g)
  BY <1>2, <1>6, Zenon DEF GroupText
<1>8. /\ t \in Seq(Token) /\ Len(t) \in Nat /\ Len(before) < Len(t)
      /\ \A i \in 1..Len(before) : t[i] = before[i]
  BY <1>5, <1>6, FirstTextBefore
<1>9. t[1] = Num(v) /\ t[2] = Comma /\ 1 \in 1..Len(t) /\ 1 < Len(t)
  BY <1>3, <1>8
<1>10. PICK k : k = 1 /\ k \in 1..Len(t) /\ k < Len(t) /\ t[k] = Num(v) /\ t[k + 1] = Comma
  BY <1>9
<1>11. PICK p0 : p0 = State(From(t, k), "ok", e, <<>>, <<>>)
  OBVIOUS
<1>12. Start(t, e) = p0
  BY <1>8, <1>10, <1>11, FromSteps DEF Start, State
<1>13. PICK f1, f2 : f1 = With(<<>>, v) /\ f2 = With(f1, n)
  OBVIOUS
<1>14. PICK p1 : p1 = GetNumber(p0, 2)
  OBVIOUS
<1>15. e # "range" /\ v \in Nat /\ v <= 65535 /\ t \in Seq(Token)
  BY <1>1, <1>2, <1>8
<1>16. /\ v <= 65280 => p1 = State(From(t, k + 2), "ok", e, <<>>, f1)
       /\ v > 65280 => Failed(p1)
  BY <1>10, <1>11, <1>13, <1>14, <1>15, AddressAt
<1>17. GroupStart(t, e) = GetQuoted(p1)
  BY <1>12, <1>14 DEF GroupStart
<1>18. ASSUME v > 65280 PROVE Failed(GroupStart(t, e))
  BY <1>16, <1>17, <1>18, FailedStays
<1>19. ASSUME v <= 65280
       PROVE  /\ n \notin PlainName => Failed(GroupStart(t, e))
              /\ n \in PlainName => GroupStart(t, e) = MemberState(t, e, g, 0)
  <2>1. GroupStart(t, e) = PastName(before, n, after, e, <<>>, f1)
    <3>1. k + 2 = Len(before) + 1
      BY <1>3, <1>10
    <3> QED
      BY <1>6, <1>16, <1>17, <1>19, <3>1 DEF PastName
  <2>2. NameIsRead(before, n, after, e, <<>>, f1)
    BY <1>5, NameRead
  <2>3. GroupFields(g, 0) = f2
    BY <1>2, <1>13, GroupFieldsSteps
  <2>4. ASSUME n \in PlainName PROVE GroupStart(t, e) = MemberState(t, e, g, 0)
    <3>1. CASE Len(g.members) = 0
      <4>1. Len(after) = 0
        BY <1>4, <3>1
      <4>2. GroupStart(t, e) = State(<<>>, "end", e, <<>>, f2)
        BY <1>13, <2>1, <2>2, <2>4, <4>1 DEF NameIsRead
      <4> QED
        BY <2>3, <3>1, <4>2 DEF MemberState
    <3>2. CASE Len(g.members) # 0
      <4>1. 1 \in 1..Len(g.members) /\ 0 + 4 * 1 - 3 = 1 /\ Len(after) > 0
        BY <1>1, <1>4, <3>2
      <4>2. after[1] = Comma
        BY <1>4, <4>1 DEF MembersAhead
      <4>3. PICK j : j = Len(before) + 3
        OBVIOUS
      <4>4. GroupStart(t, e) = State(From(t, j), "ok", e, <<>>, f2)
        BY <1>6, <1>13, <2>1, <2>2, <2>4, <4>1, <4>2, <4>3 DEF NameIsRead
      <4>5. j = 4 * 0 + 5 /\ 0 < Len(g.members)
        BY <1>1, <1>3, <3>2, <4>3
      <4> QED
        BY <2>3, <4>4, <4>5 DEF MemberState
    <3> QED
      BY <3>1, <3>2
  <2> QED
    BY <2>1, <2>2, <2>4 DEF NameIsRead
<1> QED
  BY <1>2, <1>7, <1>15, <1>18, <1>19

LEMMA MemberSteps ==
    ASSUME NEW g \in GroupRecord, g.name \in PlainName, NEW e \in {"none", "other"},
           NEW i \in 0..(Len(g.members) - 1)
    PROVE  /\ g.members[i + 1].na <= 65280 =>
                OneMember(MemberState(GroupText(g), e, g, i))
                  = MemberState(GroupText(g), e, g, i + 1)
           /\ g.members[i + 1].na > 65280 =>
                Failed(OneMember(MemberState(GroupText(g), e, g, i)))
<1>1. /\ Len(g.members) \in Nat
      /\ \A j \in 1..Len(g.members) :
           /\ g.members[j].na \in Nat /\ g.members[j].na <= 65535
           /\ g.members[j].ep \in Nat /\ g.members[j].ep <= 255
  BY GroupFieldValues
<1>2. PICK t : t = GroupText(g)
  OBVIOUS
<1>3. /\ t \in Seq(Token) /\ Len(t) = 3 + 4 * Len(g.members)
      /\ MembersAhead(t, 3, g.members)
  BY <1>2, GroupTextWhole
<1>4. PICK k, v, w, f : /\ k = 4 * i + 5 /\ v = g.members[i + 1].na /\ w = g.members[i + 1].ep
                        /\ f = GroupFields(g, i)
  OBVIOUS
<1>5. v \in Nat /\ v <= 65535 /\ w \in Nat /\ w <= 255
  <2>1. i + 1 \in 1..Len(g.members)
    BY <1>1
  <2> QED
    BY <1>1, <1>4, <2>1
<1>6. /\ k \in 1..Len(t) /\ k < Len(t) /\ k + 2 \in 1..Len(t)
      /\ t[k] = Num(v) /\ t[k + 1] = Comma /\ t[k + 2] = Num(w)
  <2>1. i + 1 \in 1..Len(g.members)
    BY <1>1
  <2>2. /\ t[3 + 4 * (i + 1) - 3] = Comma /\ t[3 + 4 * (i + 1) - 2] = Num(v)
        /\ t[3 + 4 * (i + 1) - 1] = Comma /\ t[3 + 4 * (i + 1)] = Num(w)
    BY <1>3, <1>4, <2>1 DEF MembersAhead
  <2>3. /\ 3 + 4 * (i + 1) - 2 = k /\ 3 + 4 * (i + 1) - 1 = k + 1 /\ 3 + 4 * (i + 1) = k + 2
        /\ k \in 1..Len(t) /\ k < Len(t) /\ k + 2 \in 1..Len(t)
    BY <1>1, <1>3, <1>4
  <2> QED
    BY <2>2, <2>3
<1>7. PICK p : p = State(From(t, k), "ok", e, <<>>, f)
  OBVIOUS
<1>8. MemberState(t, e, g, i) = p
  BY <1>1, <1>4, <1>7 DEF MemberState
<1>9. OneMember(p) = GetNumber(GetNumber(p, 2), 1)
  <2>1. p.code = "ok"
    BY <1>7, StateFields
  <2> QED
    BY <2>1 DEF OneMember
<1>10. e # "range" /\ t \in Seq(Token) /\ k \in 1..Len(t) /\ k < Len(t)
       /\ t[k] = Num(v) /\ t[k + 1] = Comma /\ v \in Nat /\ v <= 65535
  BY <1>3, <1>5, <1>6
<1>11. /\ v <= 65280 => GetNumber(p, 2) = State(From(t, k + 2), "ok", e, <<>>, With(f, v))
       /\ v > 65280 => Failed(GetNumber(p, 2))
  BY <1>7, <1>10, AddressAt
<1>12. ASSUME v > 65280 PROVE Failed(OneMember(p))
  BY <1>9, <1>11, <1>12, FailedStays
<1>13. ASSUME v <= 65280 PROVE OneMember(p) = MemberState(t, e, g, i + 1)
  <2>1. PICK q, j, h : /\ q = GetNumber(p, 2) /\ j = k + 2 /\ h = With(f, v)
    OBVIOUS
  <2>2. q = State(From(t, j), "ok", e, <<>>, h)
    BY <1>11, <1>13, <2>1
  <2>3. /\ t \in Seq(Token) /\ j \in 1..Len(t) /\ w \in Nat /\ w <= 255 /\ t[j] = Num(w)
        /\ e # "range"
    BY <1>5, <1>6, <1>10, <2>1
  <2>4. /\ j < Len(t) /\ t[j + 1] = Comma =>
             GetNumber(q, 1) = State(From(t, j + 2), "ok", e, <<>>, With(h, w))
        /\ j = Len(t) => GetNumber(q, 1) = State(<<>>, "end", e, <<>>, With(h, w))
    BY <2>2, <2>3, EndpointAt
  <2>5. With(h, w) = GroupFields(g, i + 1)
    BY <1>4, <2>1, GroupFieldsSteps
  <2>6. CASE i + 1 < Len(g.members)
    <3>1. i + 2 \in 1..Len(g.members) /\ 3 + 4 * (i + 2) - 3 = j + 1 /\ j < Len(t)
          /\ j + 2 = 4 * (i + 1) + 5
      <4>1. PICK n, l : n = Len(g.members) /\ l = Len(t)
        OBVIOUS
      <4>2. n \in Nat /\ i \in 0..(n - 1) /\ l = 3 + 4 * n /\ i + 1 < n /\ j = 4 * i + 5 + 2
        BY <1>1, <1>3, <1>4, <2>1, <2>6, <4>1
      <4>3. i + 2 \in 1..n /\ 3 + 4 * (i + 2) - 3 = j + 1 /\ j < l /\ j + 2 = 4 * (i + 1) + 5
        BY <4>2
      <4> QED
        BY <4>1, <4>3
    <3>2. t[j + 1] = Comma
      <4>1. t[3 + 4 * (i + 2) - 3] = Comma
        BY <1>3, <3>1 DEF MembersAhead
      <4> QED
        BY <3>1, <4>1
    <3>3. OneMember(p) = State(From(t, j + 2), "ok", e, <<>>, With(h, w))
      BY <1>9, <2>1, <2>4, <3>1, <3>2
    <3> QED
      BY <2>5, <2>6, <3>1, <3>3 DEF MemberState
  <2>7. CASE ~(i + 1 < Len(g.members))
    <3>1. j = Len(t)
      BY <1>1, <1>3, <1>4, <2>1, <2>7
    <3>2. OneMember(p) = State(<<>>, "end", e, <<>>, With(h, w))
      BY <1>9, <2>1, <2>4, <3>1
    <3> QED
      BY <2>5, <2>7, <3>2 DEF MemberState
  <2> QED
    BY <2>6, <2>7
<1> QED
  BY <1>2, <1>4, <1>5, <1>8, <1>12, <1>13

\* The loop of ParseGroup: after each member the state of the parser.
MemberLoop(p, n, g) == g = [i \in 0..n |-> IF i = 0 THEN p ELSE OneMember(g[i - 1])]

LEMMA MemberLoopExists ==
    ASSUME NEW p, NEW n \in Nat
    PROVE  \E g : MemberLoop(p, n, g)
<1> DEFINE T == {m \in 0..n : \E g : MemberLoop(p, m, g)}
<1>1. 0 \in T
  <2> DEFINE g == [i \in 0..0 |-> p]
  <2>1. MemberLoop(p, 0, g)
    BY DEF MemberLoop
  <2> QED
    BY <2>1
<1>2. ASSUME NEW m \in 0..(n - 1), m \in T PROVE m + 1 \in T
  <2>1. PICK g : MemberLoop(p, m, g)
    BY <1>2
  <2> DEFINE h == [i \in 0..(m + 1) |-> IF i <= m THEN g[i] ELSE OneMember(g[m])]
  <2>2. MemberLoop(p, m + 1, h)
    BY <2>1 DEF MemberLoop
  <2>3. m + 1 \in 0..n
    OBVIOUS
  <2> QED
    BY <2>2, <2>3
<1> HIDE DEF T
<1>3. \A m \in 0..n : m \in T
  BY <1>1, <1>2, UpTo
<1>4. n \in T
  BY <1>3
<1> QED
  BY <1>4 DEF T

LEMMA ParseGroupLoop ==
    ASSUME NEW t, NEW e
    PROVE  \E g : /\ g[0] = GroupStart(t, e)
                  /\ \A i \in 0..(MaxMembers - 1) : g[i + 1] = OneMember(g[i])
                  /\ ParseGroup(t, e) = g[MaxMembers]
<1> DEFINE members[i \in 0..MaxMembers] ==
             IF i = 0 THEN GetQuoted(GetNumber(Start(t, e), 2))
             ELSE IF members[i - 1].code # "ok" THEN members[i - 1]
             ELSE GetNumber(GetNumber(members[i - 1], 2), 1)
<1>1. MaxMembers \in Nat
  BY BoundAssumption
<1>2. \E g : MemberLoop(GroupStart(t, e), MaxMembers, g)
  BY <1>1, MemberLoopExists
<1>3. MemberLoop(GroupStart(t, e), MaxMembers, members)
  BY <1>2 DEF MemberLoop, GroupStart, OneMember
<1>4. ParseGroup(t, e) = members[MaxMembers]
  BY DEF ParseGroup, MembersRead
<1> HIDE DEF members
<1>5. members[0] = GroupStart(t, e)
  BY <1>1, <1>3 DEF MemberLoop
<1>6. ASSUME NEW i \in 0..(MaxMembers - 1) PROVE members[i + 1] = OneMember(members[i])
  BY <1>1, <1>3 DEF MemberLoop
<1> QED
  BY <1>4, <1>5, <1>6

\* The members a group is read back with.
MembersBack(g) == IF Len(g.members) < MaxMembers THEN Len(g.members) ELSE MaxMembers

\* A group is read as it was written but for the members there is no room for;
\* one with an identifier or, among the members that are read, an address above
\* 16#FF00, or with a name that is not one string of the line is an error.
LEMMA GroupRead ==
    ASSUME NEW g \in GroupRecord, NEW e \in {"none", "other"}
    PROVE  LET p == ParseGroup(GroupText(g), e)
               good == /\ g.id <= 65280 /\ g.name \in PlainName
                       /\ \A k \in 1..MembersBack(g) : g.members[k].na <= 65280
           IN  /\ good => p = MemberState(GroupText(g), e, g, MembersBack(g))
               /\ ~good => Failed(p)
<1>1. MaxMembers \in Nat
  BY BoundAssumption
<1>2. PICK t, n : t = GroupText(g) /\ n = Len(g.members)
  OBVIOUS
<1>3. n \in Nat /\ \A k \in 1..n : g.members[k].na \in Nat
  BY <1>2, GroupFieldValues
<1>4. PICK s : /\ s[0] = GroupStart(t, e)
               /\ \A i \in 0..(MaxMembers - 1) : s[i + 1] = OneMember(s[i])
               /\ ParseGroup(t, e) = s[MaxMembers]
  BY ParseGroupLoop
<1> DEFINE min(i) == IF i < n THEN i ELSE n
           small(k) == g.members[k].na <= 65280
           good(i) == /\ g.id <= 65280 /\ g.name \in PlainName
                      /\ \A k \in 1..min(i) : small(k)
           T == {i \in 0..MaxMembers :
                   /\ good(i) => s[i] = MemberState(t, e, g, min(i))
                   /\ ~good(i) => Failed(s[i])}
<1>5. ASSUME NEW p, Failed(p) PROVE Failed(OneMember(p))
  BY <1>5 DEF OneMember, Failed
<1>6. 0 \in T
  <2>1. min(0) = 0
    BY <1>3
  <2>2. good(0) <=> g.id <= 65280 /\ g.name \in PlainName
    BY <2>1
  <2>3. /\ g.id <= 65280 /\ g.name \in PlainName => s[0] = MemberState(t, e, g, 0)
        /\ ~(g.id <= 65280 /\ g.name \in PlainName) => Failed(s[0])
    BY <1>2, <1>4, GroupStartRead
  <2> HIDE DEF min, good
  <2> QED
    BY <1>1, <2>1, <2>2, <2>3
<1>7. ASSUME NEW i \in 0..(MaxMembers - 1), i \in T PROVE i + 1 \in T
  <2>1. s[i + 1] = OneMember(s[i])
    BY <1>4
  <2>2. i + 1 \in 0..MaxMembers
    BY <1>1
  <2>3. CASE i < n
    <3>1. i \in 0..(n - 1) /\ min(i) = i /\ min(i + 1) = i + 1
      BY <1>3, <2>3
    <3>2. good(i + 1) <=> good(i) /\ g.members[i + 1].na <= 65280
      <4>1. PICK j : j = i + 1
        OBVIOUS
      <4>2. \A k : k \in 1..j <=> k \in 1..i \/ k = j
        BY <3>1, <4>1
      <4> HIDE DEF min, small
      <4>3. good(i + 1) <=> good(i) /\ small(j)
        BY <3>1, <4>1, <4>2
      <4> QED
        BY <4>1, <4>3 DEF small
    <3>3. ASSUME good(i)
          PROVE  /\ s[i] = MemberState(t, e, g, i) /\ i \in 0..(Len(g.members) - 1)
                 /\ g.name \in PlainName
      BY <1>2, <1>7, <3>1, <3>3
    <3> HIDE DEF good, min
    <3>4. ASSUME good(i + 1) PROVE s[i + 1] = MemberState(t, e, g, min(i + 1))
      BY <1>2, <2>1, <3>1, <3>2, <3>3, <3>4, MemberSteps
    <3>5. ASSUME ~good(i + 1) PROVE Failed(s[i + 1])
      <4>1. CASE good(i)
        <5>1. g.members[i + 1].na > 65280
          <6>1. i + 1 \in 1..n
            BY <1>3, <2>3
          <6> QED
            BY <1>3, <3>2, <3>5, <4>1, <6>1
        <5> QED
          BY <1>2, <2>1, <3>3, <4>1, <5>1, MemberSteps
      <4>2. CASE ~good(i)
        BY <1>5, <1>7, <2>1, <4>2
      <4> QED
        BY <4>1, <4>2
    <3> QED
      BY <2>2, <3>4, <3>5
  <2>4. CASE ~(i < n)
    <3>1. min(i) = n /\ min(i + 1) = n
      BY <1>1, <1>3, <2>4
    <3>2. good(i + 1) <=> good(i)
      <4> HIDE DEF min, small
      <4> QED
        BY <3>1
    <3>3. ASSUME good(i) PROVE s[i] = MemberState(t, e, g, n)
      BY <1>7, <3>1, <3>3
    <3> HIDE DEF good, min
    <3>4. ASSUME good(i + 1) PROVE s[i + 1] = MemberState(t, e, g, min(i + 1))
      <4>1. s[i] = MemberState(t, e, g, n)
        BY <3>2, <3>3, <3>4
      <4>2. s[i] = State(<<>>, "end", e, <<>>, GroupFields(g, n))
        BY <1>2, <1>3, <4>1 DEF MemberState
      <4>3. s[i].code = "end"
        BY <4>2, StateFields
      <4>4. s[i + 1] = s[i]
        BY <2>1, <4>3 DEF OneMember
      <4> QED
        BY <3>1, <4>1, <4>4
    <3>5. ASSUME ~good(i + 1) PROVE Failed(s[i + 1])
      BY <1>5, <1>7, <2>1, <3>2, <3>5
    <3> QED
      BY <2>2, <3>4, <3>5
  <2> QED
    BY <2>3, <2>4
<1>8. MaxMembers \in T
  <2> HIDE DEF T
  <2>1. \A i \in 0..MaxMembers : i \in T
    BY <1>1, <1>6, <1>7, UpTo
  <2> QED
    BY <1>1, <2>1
<1>9. min(MaxMembers) = MembersBack(g)
  BY <1>1, <1>2, <1>3 DEF MembersBack
<1>10. good(MaxMembers) <=> /\ g.id <= 65280 /\ g.name \in PlainName
                            /\ \A k \in 1..MembersBack(g) : g.members[k].na <= 65280
  BY <1>9
<1> HIDE DEF min, good
<1> QED
  BY <1>2, <1>4, <1>8, <1>9, <1>10

-----------------------------------------------------------------------------
(* The rest of a line that a name has broken. *)

LEMMA FailedLoopsStay ==
    ASSUME NEW p, Failed(p)
    PROVE  LastByte(p) = p /\ NextByte(p) = p /\ OneMember(p) = p
BY DEF Failed, LastByte, NextByte, HexByte, OneMember

\* Where no number stands nothing is read, and the value is 0.
LEMMA NoNumberAhead ==
    ASSUME NEW r, r # <<>>, Head(r) = Junk, NEW e, NEW b, NEW f,
           NEW p, p = State(r, "ok", e, b, f)
    PROVE  Value(p) = 0 /\ Strtoul(p) = p /\ Strtoul(p) = State(r, "ok", e, b, f)
<1>1. p.rest = r
  BY StateFields
<1>2. Head(r).t = "junk"
  BY DEF Junk
<1>3. ~AtNumber(p)
  BY <1>1, <1>2 DEF AtNumber
<1>4. Value(p) = 0
  BY <1>3 DEF Value
<1>5. ~(Value(p) > ULongMax)
  BY <1>4, WidthAssumption
<1>6. Strtoul(p) = State(IF AtNumber(p) THEN Rest(r) ELSE r, "ok",
                         IF Value(p) > ULongMax THEN "range" ELSE e, b, f)
  BY StrtoulState
<1>7. Strtoul(p) = State(r, "ok", e, b, f)
  BY <1>3, <1>5, <1>6
<1> QED
  BY <1>4, <1>7

LEMMA NoFieldEnds ==
    ASSUME NEW r, r # <<>>, Head(r) = Junk, NEW e, NEW b, NEW f
    PROVE  Failed(NextField(State(r, "ok", e, b, f)))
<1>1. Head(r) # Comma
  BY TokenProperties
<1>2. NextField(State(r, "ok", e, b, f)) = State(r, "unexpected", e, b, f)
  BY <1>1, NextFieldSteps
<1>3. NextField(State(r, "ok", e, b, f)).code = "unexpected"
  BY <1>2, StateFields
<1> QED
  BY <1>3 DEF Failed

LEMMA NoByte ==
    ASSUME NEW r, r # <<>>, Head(r) = Junk, NEW e, e # "range", NEW b, NEW f,
           NEW p, p = State(r, "ok", e, b, f)
    PROVE  /\ LastByte(p) = State(r, "ok", e, Before(0, b), f)
           /\ Failed(NextByte(p))
<1>1. Value(p) = 0 /\ Strtoul(p) = p
  BY NoNumberAhead
<1>2. p.code = "ok" /\ p.bytes = b /\ p.errno = e
  BY StateFields
<1>3. ~OutOfRange(p, Byte - 1)
  BY <1>1, <1>2, Limits DEF OutOfRange
<1>4. PICK q : q = [p EXCEPT !.bytes = Before(0, b)]
  OBVIOUS
<1>5. q = State(r, "ok", e, Before(0, b), f)
  BY <1>4, SetBytes
<1>6. q = [Strtoul(p) EXCEPT !.bytes = Before(Value(p), @)]
  BY <1>1, <1>2, <1>4
<1>7. LastByte(p) = q
  BY <1>2, <1>3, <1>6 DEF LastByte, HexByte, Before
<1>8. q.rest = r /\ Head(r) # Colon
  BY <1>5, StateFields, TokenProperties
<1>9. NextByte(p) = [q EXCEPT !.code = "hex"]
  BY <1>2, <1>3, <1>6, <1>8 DEF NextByte, HexByte, Before
<1>10. [q EXCEPT !.code = "hex"] = State(r, "hex", e, Before(0, b), f)
  BY <1>5, SetCode
<1>11. NextByte(p).code = "hex"
  BY <1>9, <1>10, StateFields
<1> QED
  BY <1>5, <1>7, <1>11 DEF Failed

\* A line that starts with what no field starts with is an error in every list.
LEMMA JunkFails ==
    ASSUME NEW t, t # <<>>, Head(t) = Junk, NEW e \in {"none", "other"}
    PROVE  Failed(ParseDevice(t, e)) /\ Failed(ParseGroup(t, e))
<1>1. PICK p : p = State(t, "ok", e, <<>>, <<>>)
  OBVIOUS
<1>2. Start(t, e) = p /\ e # "range" /\ p.code = "ok" /\ p.errno = e /\ p.fields = <<>>
  BY <1>1, StateFields DEF Start, State
<1>3. HexLen \in Nat /\ HexLen >= 1 /\ MaxMembers \in Nat
  BY WidthAssumption, BoundAssumption
<1>4. Failed(GetHex(p))
  <2>1. PICK g : /\ HexLoop(p, HexLen, g)
                 /\ GetHex(p) =
                      LET q == g[HexLen] IN
                      IF q.code # "ok" THEN q
                      ELSE NextField([q EXCEPT !.fields = With(@, q.bytes)])
    BY <1>2, GetHexLoop
  <2>2. /\ g[0] = p
        /\ \A i \in 0..(HexLen - 1) : g[i + 1] = IF i + 1 < HexLen THEN NextByte(g[i])
                                                                   ELSE LastByte(g[i])
    BY <2>1, HexLoopSteps
  <2>3. CASE HexLen = 1
    <3>1. PICK q : q = g[HexLen]
      OBVIOUS
    <3>2. q = LastByte(p)
      BY <2>2, <2>3, <3>1
    <3>3. PICK b : b = Before(0, <<>>)
      OBVIOUS
    <3>4. q = State(t, "ok", e, b, <<>>)
      BY <1>1, <1>2, <3>2, <3>3, NoByte
    <3>5. q.code = "ok" /\ q.fields = <<>> /\ q.bytes = b
      BY <3>4, StateFields
    <3>6. GetHex(p) = NextField([q EXCEPT !.fields = With(<<>>, b)])
      BY <2>1, <3>1, <3>5
    <3>7. [q EXCEPT !.fields = With(<<>>, b)] = State(t, "ok", e, b, With(<<>>, b))
      BY <3>4, SetFields
    <3>8. Failed(NextField(State(t, "ok", e, b, With(<<>>, b))))
      BY NoFieldEnds
    <3> QED
      BY <3>6, <3>7, <3>8
  <2>4. CASE HexLen # 1
    <3> DEFINE T == {i \in 0..HexLen : i = 0 \/ Failed(g[i])}
    <3>1. 0 \in T
      BY <1>3
    <3>2. ASSUME NEW i \in 0..(HexLen - 1), i \in T PROVE i + 1 \in T
      <4>1. i + 1 \in 0..HexLen
        BY <1>3
      <4>2. CASE i = 0
        <5>1. g[i + 1] = NextByte(p)
          BY <1>3, <2>2, <2>4, <4>2
        <5>2. Failed(NextByte(p))
          BY <1>1, <1>2, NoByte
        <5> QED
          BY <4>1, <5>1, <5>2
      <4>3. CASE i # 0
        <5>1. Failed(g[i])
          BY <3>2, <4>3
        <5>2. LastByte(g[i]) = g[i] /\ NextByte(g[i]) = g[i]
          BY <5>1, FailedLoopsStay
        <5>3. g[i + 1] = g[i]
          BY <2>2, <5>2
        <5> QED
          BY <4>1, <5>1, <5>3
      <4> QED
        BY <4>2, <4>3
    <3> HIDE DEF T
    <3>3. \A i \in 0..HexLen : i \in T
      BY <1>3, <3>1, <3>2, UpTo
    <3>4. Failed(g[HexLen])
      BY <1>3, <3>3 DEF T
    <3>5. g[HexLen].code # "ok"
      BY <3>4 DEF Failed
    <3>6. GetHex(p) = g[HexLen]
      BY <2>1, <3>5
    <3> QED
      BY <3>4, <3>6
  <2> QED
    BY <2>3, <2>4
<1>5. Failed(ParseDevice(t, e))
  <2>1. PICK q : q = GetHex(p)
    OBVIOUS
  <2>2. GetNumber(q, 2) = q /\ GetNumber(q, 1) = q /\ GetQuoted(q) = q
    BY <1>4, <2>1, FailedStays
  <2>3. ParseDevice(t, e) = GetQuoted(GetNumber(GetNumber(q, 2), 1))
    BY <1>2, <2>1 DEF ParseDevice
  <2> QED
    BY <1>4, <2>1, <2>2, <2>3
<1>6. Failed(GroupStart(t, e))
  <2>1. Value(p) = 0 /\ Strtoul(p) = p
    BY <1>1, NoNumberAhead
  <2>2. PICK n : n = 2 /\ FieldLimit(n) = 65280
    BY Limits
  <2>3. ~OutOfRange(p, FieldLimit(n))
    BY <1>2, <2>1, <2>2 DEF OutOfRange
  <2>4. PICK f : f = With(<<>>, 0 % Byte ^ n)
    OBVIOUS
  <2>5. GetNumber(p, n) = NextField([p EXCEPT !.fields = With(@, 0 % Byte ^ n)])
    BY <1>2, <2>1, <2>3 DEF GetNumber, With
  <2>6. GetNumber(p, n) = NextField([p EXCEPT !.fields = f])
    BY <1>2, <2>4, <2>5
  <2>7. [p EXCEPT !.fields = f] = State(t, "ok", e, <<>>, f)
    BY <1>1, SetFields
  <2>8. Failed(NextField(State(t, "ok", e, <<>>, f)))
    BY NoFieldEnds
  <2>9. PICK q : q = GetNumber(p, 2)
    OBVIOUS
  <2>10. Failed(q) /\ GroupStart(t, e) = GetQuoted(q)
    BY <1>2, <2>2, <2>6, <2>7, <2>8, <2>9 DEF GroupStart
  <2> QED
    BY <2>10, FailedStays
<1>7. Failed(ParseGroup(t, e))
  <2>1. PICK g : /\ g[0] = GroupStart(t, e)
                 /\ \A i \in 0..(MaxMembers - 1) : g[i + 1] = OneMember(g[i])
                 /\ ParseGroup(t, e) = g[MaxMembers]
    BY ParseGroupLoop
  <2> DEFINE T == {i \in 0..MaxMembers : Failed(g[i])}
  <2>2. 0 \in T
    BY <1>3, <1>6, <2>1
  <2>3. ASSUME NEW i \in 0..(MaxMembers - 1), i \in T PROVE i + 1 \in T
    <3>1. Failed(g[i]) /\ g[i + 1] = OneMember(g[i]) /\ i + 1 \in 0..MaxMembers
      BY <1>3, <2>1, <2>3
    <3>2. g[i + 1] = g[i]
      BY <3>1, FailedLoopsStay
    <3> QED
      BY <3>1, <3>2
  <2> HIDE DEF T
  <2>4. \A i \in 0..MaxMembers : i \in T
    BY <1>3, <2>2, <2>3, UpTo
  <2> QED
    BY <1>3, <2>1, <2>4 DEF T
<1> QED
  BY <1>5, <1>7

-----------------------------------------------------------------------------
(* What a line says. *)

LEMMA DeviceLinesMeant ==
    ASSUME NEW r \in DeviceRecord
    PROVE  DeviceLines(r) \in Seq(Meant("device"))
<1>1. r.name \in AnyName
  BY DEF DeviceRecord
<1>2. PICK before, n, after, t : /\ before = DeviceBefore(r) /\ n = r.name /\ after = <<>>
                                 /\ t = FirstText(before, n, after)
  OBVIOUS
<1>3. before \in Seq(Token) /\ after \in Seq(Token) /\ n \in AnyName
  BY <1>1, <1>2, DeviceBeforeIs
<1>4. t \in Seq(Token)
  BY <1>2, <1>3, FirstTextBefore
<1>5. Head(DeviceLines(r)).text = t
  BY <1>2, DeviceTextIs DEF DeviceText
<1>6. r \in DeviceRecord \cup GroupRecord \cup {NoRec} /\ r # NoRec
  BY RecordAssumption
<1>7. PICK l : l = Line(t, r)
  OBVIOUS
<1>8. l \in AnyLine /\ l.of = r /\ l.text = t
  BY <1>4, <1>6, <1>7, LineFields
<1>9. l \in Meant("device")
  BY <1>5, <1>6, <1>8 DEF Meant
<1>10. PICK y, m : y = <<Junk>> \o after /\ m = Line(y, NoRec)
  OBVIOUS
<1>11. y \in Seq(Token) /\ y # <<>> /\ Head(y) = Junk
  BY <1>2, <1>10, TokenProperties
<1>12. m \in AnyLine /\ m.of = NoRec /\ m.text = y
  <2>1. NoRec \in DeviceRecord \cup GroupRecord \cup {NoRec}
    OBVIOUS
  <2>2. m = Line(y, NoRec) /\ y \in Seq(Token)
    BY <1>10, <1>11, Zenon
  <2> QED
    BY <2>1, <2>2, LineFields
<1>13. m \in Meant("device")
  <2>1. \A e \in {"none", "other"} : Failed(ParseDevice(y, e))
    BY <1>11, JunkFails
  <2> QED
    BY <1>12, <2>1 DEF Meant
<1>14. DeviceLines(r) = TwoLines(before, n, after, r)
  BY <1>2, Zenon DEF DeviceLines, DeviceBefore, Joined
<1>15. DeviceLines(r) = <<l, m>> \/ DeviceLines(r) = <<l>>
  <2>1. PICK u, v, ls : /\ u = Line(FirstText(before, n, after), r)
                        /\ v = Line(<<Junk>> \o after, NoRec)
                        /\ ls = TwoLines(before, n, after, r)
    OBVIOUS
  <2>2. ls = <<u, v>> \/ ls = <<u>>
    BY <2>1, TwoLinesAre, Zenon
  <2>3. u = l
    BY <1>2, <1>7, <2>1, Zenon
  <2>4. v = m
    BY <1>10, <2>1, Zenon
  <2> QED
    BY <1>14, <2>1, <2>2, <2>3, <2>4, Zenon
<1>16. PICK M, ls : M = Meant("device") /\ ls = DeviceLines(r)
  OBVIOUS
<1>17. l \in M /\ m \in M
  BY <1>9, <1>13, <1>16
<1>18. ls = <<l, m>> \/ ls = <<l>>
  BY <1>15, <1>16
<1>19. ls \in Seq(M)
  <2>1. CASE ls = <<l, m>>
    BY <1>17, <2>1
  <2>2. CASE ls = <<l>>
    BY <1>17, <2>2
  <2> QED
    BY <1>18, <2>1, <2>2
<1> QED
  BY <1>16, <1>19

LEMMA GroupLinesMeant ==
    ASSUME NEW g \in GroupRecord
    PROVE  GroupLines(g) \in Seq(Meant("group"))
<1>1. /\ g.id \in Nat /\ g.name \in AnyName /\ Len(g.members) \in Nat
      /\ \A i \in 1..Len(g.members) : g.members[i].na \in Nat /\ g.members[i].ep \in Nat
  BY GroupFieldValues
<1>2. PICK before, n, after, t : /\ before = GroupBefore(g) /\ n = g.name
                                 /\ after = MemberTokens(g.members)
                                 /\ t = FirstText(before, n, after)
  OBVIOUS
<1>3. before \in Seq(Token) /\ after \in Seq(Token) /\ n \in AnyName
  <2>1. PICK x : x = Num(g.id)
    OBVIOUS
  <2>2. x \in Token /\ Comma \in Token
    BY <1>1, <2>1, TokenProperties
  <2>3. before \in Seq(Token)
    BY <1>2, <2>1, <2>2 DEF GroupBefore
  <2>4. after \in Seq(Token)
    BY <1>1, <1>2, MemberTokensAre
  <2> QED
    BY <1>1, <1>2, <2>3, <2>4
<1>4. t \in Seq(Token)
  BY <1>2, <1>3, FirstTextBefore
<1>5. Head(GroupLines(g)).text = t
  BY <1>2, GroupTextIs DEF GroupText
<1>6. g \in DeviceRecord \cup GroupRecord \cup {NoRec} /\ g # NoRec
  BY RecordAssumption
<1>7. PICK l : l = Line(t, g)
  OBVIOUS
<1>8. l \in AnyLine /\ l.of = g /\ l.text = t
  BY <1>4, <1>6, <1>7, LineFields
<1>9. l \in Meant("group")
  BY <1>5, <1>6, <1>8 DEF Meant
<1>10. PICK y, m : y = <<Junk>> \o after /\ m = Line(y, NoRec)
  OBVIOUS
<1>11. y \in Seq(Token) /\ y # <<>> /\ Head(y) = Junk
  <2>1. PICK x : x = <<Junk>>
    OBVIOUS
  <2>2. x \in Seq(Token) /\ Len(x) = 1 /\ x[1] = Junk
    BY <2>1, TokenProperties
  <2>3. /\ y \in Seq(Token) /\ Len(y) = Len(x) + Len(after) /\ Len(after) \in Nat
        /\ \A i \in 1..Len(x) : y[i] = x[i]
    <3>1. y = Joined(x, after) /\ after \in Seq(Token)
      BY <1>3, <1>10, <2>1, Zenon DEF Joined
    <3> QED
      BY <2>2, <3>1, JoinedProperties
  <2> QED
    BY <2>2, <2>3
<1>12. m \in AnyLine /\ m.of = NoRec /\ m.text = y
  <2>1. NoRec \in DeviceRecord \cup GroupRecord \cup {NoRec}
    OBVIOUS
  <2>2. m = Line(y, NoRec) /\ y \in Seq(Token)
    BY <1>10, <1>11, Zenon
  <2> QED
    BY <2>1, <2>2, LineFields
<1>13. m \in Meant("group")
  <2>1. \A e \in {"none", "other"} : Failed(ParseGroup(y, e))
    BY <1>11, JunkFails
  <2> QED
    BY <1>12, <2>1 DEF Meant
<1>14. GroupLines(g) = TwoLines(before, n, after, g)
  BY <1>2, Zenon DEF GroupLines, GroupBefore
<1>15. GroupLines(g) = <<l, m>> \/ GroupLines(g) = <<l>>
  <2>1. PICK u, v, ls : /\ u = Line(FirstText(before, n, after), g)
                        /\ v = Line(<<Junk>> \o after, NoRec)
                        /\ ls = TwoLines(before, n, after, g)
    OBVIOUS
  <2>2. ls = <<u, v>> \/ ls = <<u>>
    BY <2>1, TwoLinesAre, Zenon
  <2>3. u = l
    BY <1>2, <1>7, <2>1, Zenon
  <2>4. v = m
    BY <1>10, <2>1, Zenon
  <2> QED
    BY <1>14, <2>1, <2>2, <2>3, <2>4, Zenon
<1>16. PICK M, ls : M = Meant("group") /\ ls = GroupLines(g)
  OBVIOUS
<1>17. l \in M /\ m \in M
  BY <1>9, <1>13, <1>16
<1>18. ls = <<l, m>> \/ ls = <<l>>
  BY <1>15, <1>16
<1>19. ls \in Seq(M)
  <2>1. CASE ls = <<l, m>>
    BY <1>17, <2>1
  <2>2. CASE ls = <<l>>
    BY <1>17, <2>2
  <2> QED
    BY <1>18, <2>1, <2>2
<1> QED
  BY <1>16, <1>19

LEMMA DeviceFieldsAre ==
    ASSUME NEW r
    PROVE  LET f == DeviceFields(r) IN
           f[1] = r.ieee /\ f[2] = r.na /\ f[3] = r.ep /\ f[4] = r.name
<1>1. PICK R : R = {r.ieee, r.na, r.ep, r.name}
  OBVIOUS
<1>2. PICK f0, f1, f2, f3, f4 : /\ f0 = <<>> /\ f1 = With(f0, r.ieee) /\ f2 = With(f1, r.na)
                                /\ f3 = With(f2, r.ep) /\ f4 = With(f3, r.name)
  OBVIOUS
<1>3. f0 \in Seq(R) /\ Len(f0) = 0
  BY <1>2
<1>4. r.ieee \in R /\ r.na \in R /\ r.ep \in R /\ r.name \in R
  BY <1>1
<1>5. f1 \in Seq(R) /\ OneMore(f1, f0, r.ieee)
  BY <1>2, <1>3, <1>4, WithValue
<1>6. f2 \in Seq(R) /\ OneMore(f2, f1, r.na)
  BY <1>2, <1>4, <1>5, WithValue
<1>7. f3 \in Seq(R) /\ OneMore(f3, f2, r.ep)
  BY <1>2, <1>4, <1>6, WithValue
<1>8. f4 \in Seq(R) /\ OneMore(f4, f3, r.name)
  BY <1>2, <1>4, <1>7, WithValue
<1>9. Len(f1) = 1 /\ f1[1] = r.ieee
  BY <1>3, <1>5 DEF OneMore
<1>10. Len(f2) = 2 /\ f2[1] = r.ieee /\ f2[2] = r.na
  BY <1>6, <1>9 DEF OneMore
<1>11. Len(f3) = 3 /\ f3[1] = r.ieee /\ f3[2] = r.na /\ f3[3] = r.ep
  BY <1>7, <1>10 DEF OneMore
<1>12. f4[1] = r.ieee /\ f4[2] = r.na /\ f4[3] = r.ep /\ f4[4] = r.name
  BY <1>8, <1>11 DEF OneMore
<1>13. f4 = DeviceFields(r)
  BY <1>2 DEF DeviceFields
<1> QED
  BY <1>12, <1>13

\* What a line of a list is for: the record it was written for, read back, or
\* an error.
ReadsAs(l, e) ==
    IF Readable(l.of) THEN ~Failed(Parse(l.text, e)) /\ Reading(Parse(l.text, e)) = ReadBack(l.of)
                      ELSE Failed(Parse(l.text, e))

LEMMA DeviceReadsAs ==
    ASSUME kind = "device", NEW l \in Meant(kind), l.of # NoRec, NEW e \in {"none", "other"}
    PROVE  ReadsAs(l, e)
<1>1. PICK r : r = l.of
  OBVIOUS
<1>2. r \in DeviceRecord /\ l.text = DeviceText(r)
  BY <1>1, DeviceTextIs DEF Meant
<1>3. PICK p : p = ParseDevice(DeviceText(r), e)
  OBVIOUS
<1>4. Parse(l.text, e) = p
  BY <1>2, <1>3 DEF Parse
<1>5. /\ r.na <= 65280 /\ r.name \in PlainName =>
           p = State(<<>>, "end", e, r.ieee, DeviceFields(r))
      /\ ~(r.na <= 65280 /\ r.name \in PlainName) => Failed(p)
  BY <1>2, <1>3, DeviceRead
<1>6. Readable(r) <=> r.na <= 65280 /\ r.name \in PlainName
  BY DEF Readable
<1>7. ASSUME Readable(r) PROVE ~Failed(p) /\ Reading(p) = ReadBack(r)
  <2>1. p.code = "end" /\ p.fields = DeviceFields(r)
    BY <1>5, <1>6, <1>7, StateFields
  <2>2. PICK f : f = DeviceFields(r) /\ f[1] = r.ieee /\ f[2] = r.na /\ f[3] = r.ep /\ f[4] = r.name
    BY DeviceFieldsAre
  <2>3. Reading(p) = [ieee |-> f[1], na |-> f[2], ep |-> f[3], name |-> f[4]]
    BY <2>1, <2>2 DEF Reading
  <2>4. r = [ieee |-> r.ieee, na |-> r.na, ep |-> r.ep, name |-> r.name]
    BY <1>2 DEF DeviceRecord
  <2>5. ReadBack(r) = r
    BY DEF ReadBack
  <2> QED
    BY <2>1, <2>2, <2>3, <2>4, <2>5 DEF Failed
<1> QED
  BY <1>1, <1>4, <1>5, <1>6, <1>7 DEF ReadsAs

\* The record of the fields of a group of which i members are read.
LEMMA GroupFieldsRead ==
    ASSUME kind # "device", NEW g \in GroupRecord, NEW i \in Nat, i <= Len(g.members),
           NEW p, p.fields = GroupFields(g, i)
    PROVE  Reading(p) = [g EXCEPT !.members = SubSeq(@, 1, i)]
<1>1. PICK f, ms : f = GroupFields(g, i) /\ ms = g.members
  OBVIOUS
<1>2. AreFields(f, g, i)
  BY <1>1, GroupFieldsAre
<1>3. /\ Len(f) = 2 * i + 2 /\ f[1] = g.id /\ f[2] = g.name
      /\ \A k \in 1..i : f[2 * k + 1] = ms[k].na /\ f[2 * k + 2] = ms[k].ep
  BY <1>1, <1>2 DEF AreFields
<1>4. (Len(f) - 2) \div 2 = i
  BY <1>3
<1>5. Reading(p) = [id |-> f[1], name |-> f[2],
                    members |-> [k \in 1..i |-> [na |-> f[2 * k + 1], ep |-> f[2 * k + 2]]]]
  BY <1>1, <1>4 DEF Reading
<1>6. PICK A, E : A = 0..(Byte ^ 2 - 1) /\ E = 0..(Byte - 1)
  OBVIOUS
<1>7. g \in [id : A, name : AnyName, members : Seq([na : A, ep : E])]
  BY <1>6, Zenon DEF GroupRecord
<1>8. PICK M : M = [na : A, ep : E]
  OBVIOUS
<1>9. ms \in Seq(M)
  BY <1>1, <1>7, <1>8
<1>10. Len(ms) \in Nat /\ \A k \in 1..Len(ms) : ms[k] \in M
  BY <1>9, LenProperties
<1>11. ASSUME NEW k \in 1..i PROVE ms[k] = [na |-> f[2 * k + 1], ep |-> f[2 * k + 2]]
  <2>1. PICK m : m = ms[k]
    OBVIOUS
  <2>2. m \in M
    BY <1>1, <1>10, <2>1
  <2>3. m = [na |-> m.na, ep |-> m.ep]
    BY <1>8, <2>2
  <2>4. PICK x, y : x = f[2 * k + 1] /\ y = f[2 * k + 2]
    OBVIOUS
  <2>5. x = m.na /\ y = m.ep
    BY <1>3, <2>1, <2>4
  <2>6. m = [na |-> x, ep |-> y]
    BY <2>3, <2>5, Zenon
  <2> QED
    BY <2>1, <2>4, <2>6, Zenon
<1>12. SubSeq(ms, 1, i) = [k \in 1..i |-> ms[k]]
  <2>1. SubSeq(ms, 1, i) = [k \in 1..(1 + i - 1) |-> ms[1 + k - 1]]
    OBVIOUS
  <2> QED
    BY <2>1
<1>13. SubSeq(ms, 1, i) = [k \in 1..i |-> [na |-> f[2 * k + 1], ep |-> f[2 * k + 2]]]
  BY <1>11, <1>12
<1>14. PICK x, h : x = SubSeq(ms, 1, i) /\ h = Reading(p)
  OBVIOUS
<1>15. h = [id |-> g.id, name |-> g.name, members |-> x]
  BY <1>3, <1>5, <1>13, <1>14
<1>16. [g EXCEPT !.members = x] = [id |-> g.id, name |-> g.name, members |-> x]
  BY <1>7
<1> QED
  BY <1>1, <1>14, <1>15, <1>16

LEMMA GroupReadsAs ==
    ASSUME kind = "group", NEW l \in Meant(kind), l.of # NoRec, NEW e \in {"none", "other"}
    PROVE  ReadsAs(l, e)
<1>1. PICK g : g = l.of
  OBVIOUS
<1>2. g \in GroupRecord /\ l.text = GroupText(g)
  BY <1>1, GroupTextIs DEF Meant
<1>3. PICK p, i : p = ParseGroup(GroupText(g), e) /\ i = MembersBack(g)
  OBVIOUS
<1>4. Parse(l.text, e) = p
  BY <1>2, <1>3 DEF Parse
<1>5. Len(g.members) \in Nat /\ DOMAIN g.members = 1..Len(g.members) /\ MaxMembers \in Nat
  BY <1>2, GroupFieldValues, BoundAssumption
<1>6. i \in Nat /\ i <= Len(g.members) /\ i = IF Len(g.members) < MaxMembers THEN Len(g.members)
                                                                             ELSE MaxMembers
  BY <1>3, <1>5 DEF MembersBack
<1>7. DOMAIN g.members \cap (1..MaxMembers) = 1..i
  BY <1>5, <1>6
<1>8. Readable(g) <=> /\ g.id <= 65280 /\ g.name \in PlainName
                      /\ \A k \in 1..i : g.members[k].na <= 65280
  BY <1>7 DEF Readable
<1>9. /\ Readable(g) => p = MemberState(GroupText(g), e, g, i)
      /\ ~Readable(g) => Failed(p)
  BY <1>2, <1>3, <1>8, GroupRead
<1>10. ASSUME Readable(g) PROVE ~Failed(p) /\ Reading(p) = ReadBack(g)
  <2>1. (p.code = "ok" \/ p.code = "end") /\ p.fields = GroupFields(g, i)
    <3>1. \E t, c : c \in {"ok", "end"} /\ p = State(t, c, e, <<>>, GroupFields(g, i))
      BY <1>9, <1>10 DEF MemberState
    <3> QED
      BY <3>1, StateFields
  <2>2. Reading(p) = [g EXCEPT !.members = SubSeq(@, 1, i)]
    BY <1>2, <1>6, <2>1, GroupFieldsRead
  <2>3. ReadBack(g) = [g EXCEPT !.members = SubSeq(@, 1, i)]
    BY <1>6, Zenon DEF ReadBack
  <2> QED
    BY <2>1, <2>2, <2>3 DEF Failed
<1> QED
  BY <1>1, <1>4, <1>9, <1>10 DEF ReadsAs

-----------------------------------------------------------------------------
(* Searching. *)

\* A search that has looked at lines 1 to i, for each i up to n.
SearchLoop(f, e, k, n, g) ==
    g = [i \in 0..n |-> IF i = 0 THEN Begin(f, e) ELSE Examine(g[i - 1], i, k)]

LEMMA SearchLoopExists ==
    ASSUME NEW f, NEW e, NEW k, NEW n \in Nat
    PROVE  \E g : SearchLoop(f, e, k, n, g)
<1> DEFINE T == {m \in 0..n : \E g : SearchLoop(f, e, k, m, g)}
<1>1. 0 \in T
  <2> DEFINE g == [i \in 0..0 |-> Begin(f, e)]
  <2>1. SearchLoop(f, e, k, 0, g)
    BY DEF SearchLoop
  <2> QED
    BY <2>1
<1>2. ASSUME NEW m \in 0..(n - 1), m \in T PROVE m + 1 \in T
  <2>1. PICK g : SearchLoop(f, e, k, m, g)
    BY <1>2
  <2> DEFINE h == [i \in 0..(m + 1) |-> IF i <= m THEN g[i] ELSE Examine(g[m], m + 1, k)]
  <2>2. SearchLoop(f, e, k, m + 1, h)
    BY <2>1 DEF SearchLoop
  <2>3. m + 1 \in 0..n
    OBVIOUS
  <2> QED
    BY <2>2, <2>3
<1> HIDE DEF T
<1>3. \A m \in 0..n : m \in T
  BY <1>1, <1>2, UpTo
<1>4. n \in T
  BY <1>3
<1> QED
  BY <1>4 DEF T

\* Line by line.
Scan(f, e, k, g) ==
    /\ g[0] = Begin(f, e)
    /\ \A i \in 0..(Len(f) - 1) : g[i + 1] = Examine(g[i], i + 1, k)

LEMMA SearchScan ==
    ASSUME NEW f, Len(f) \in Nat, NEW e, NEW k
    PROVE  \E g : Scan(f, e, k, g) /\ Search(f, e, k) = g[Len(f)]
<1> DEFINE scan[i \in 0..Len(f)] == IF i = 0 THEN Begin(f, e) ELSE Examine(scan[i - 1], i, k)
<1>1. \E g : SearchLoop(f, e, k, Len(f), g)
  BY SearchLoopExists
<1>2. SearchLoop(f, e, k, Len(f), scan)
  BY <1>1 DEF SearchLoop
<1>3. Search(f, e, k) = scan[Len(f)]
  BY DEF Search
<1> HIDE DEF scan
<1>4. scan[0] = Begin(f, e)
  BY <1>2 DEF SearchLoop
<1>5. ASSUME NEW i \in 0..(Len(f) - 1) PROVE scan[i + 1] = Examine(scan[i], i + 1, k)
  BY <1>2 DEF SearchLoop
<1> QED
  BY <1>3, <1>4, <1>5 DEF Scan

\* The state of a search.
Searching(f, e, a, r, o) == [file |-> f, errno |-> e, at |-> a, rec |-> r, over |-> o]

\* A line of the file marked as bad.
Marked(f, i) == [f EXCEPT ![i] = MarkError(@)]

LEMMA SearchingFields ==
    ASSUME NEW f, NEW e, NEW a, NEW r, NEW o
    PROVE  /\ Searching(f, e, a, r, o).file = f /\ Searching(f, e, a, r, o).errno = e
           /\ Searching(f, e, a, r, o).at = a /\ Searching(f, e, a, r, o).rec = r
           /\ Searching(f, e, a, r, o).over = o
BY DEF Searching

LEMMA IsSearching ==
    ASSUME NEW f, NEW e, NEW a, NEW r, NEW o,
           NEW s \in [file : {f}, errno : {e}, at : {a}, rec : {r}, over : {o}]
    PROVE  s = Searching(f, e, a, r, o)
BY DEF Searching

\* What becomes of a search at line i.
Examined(f, e, a, r, o, i, k) ==
    LET s == Searching(f, e, a, r, o)
        l == f[i]
        p == Parse(l.text, e)
    IN  /\ o => Examine(s, i, k) = s
        /\ ~o /\ ~l.whole => Examine(s, i, k) = Searching(f, e, a, r, TRUE)
        /\ ~o /\ l.whole /\ l.mark \in Ignored => Examine(s, i, k) = s
        /\ ~o /\ l.whole /\ l.mark \notin Ignored /\ Failed(p) =>
             Examine(s, i, k) = Searching(Marked(f, i), p.errno, a, r, o)
        /\ ~o /\ l.whole /\ l.mark \notin Ignored /\ ~Failed(p) /\ Key(Reading(p)) = k =>
             Examine(s, i, k) = Searching(f, e, i, Reading(p), TRUE)
        /\ ~o /\ l.whole /\ l.mark \notin Ignored /\ ~Failed(p) /\ Key(Reading(p)) # k =>
             Examine(s, i, k) = s

LEMMA ExamineSteps ==
    ASSUME NEW f, NEW e, NEW a, NEW r, NEW o \in BOOLEAN, NEW i, NEW k, f[i].whole \in BOOLEAN
    PROVE  Examined(f, e, a, r, o, i, k)
<1> PICK s : s = Searching(f, e, a, r, o)
  OBVIOUS
<1> PICK l : l = f[i]
  OBVIOUS
<1> PICK p : p = Parse(l.text, e)
  OBVIOUS
<1>1. s.file = f /\ s.errno = e /\ s.over = o
  BY SearchingFields
<1>2. s \in [file : {f}, errno : {e}, at : {a}, rec : {r}, over : {o}]
  BY DEF Searching
<1>3. ASSUME o PROVE Examine(s, i, k) = s
  BY <1>1, <1>3 DEF Examine
<1>4. ASSUME ~o, ~l.whole PROVE Examine(s, i, k) = Searching(f, e, a, r, TRUE)
  <2>1. Examine(s, i, k) = [s EXCEPT !.over = TRUE]
    BY <1>1, <1>4 DEF Examine
  <2>2. [s EXCEPT !.over = TRUE] \in [file : {f}, errno : {e}, at : {a}, rec : {r}, over : {TRUE}]
    BY <1>2
  <2> QED
    BY <2>1, <2>2, IsSearching
<1>5. ASSUME ~o, l.whole, l.mark \in Ignored PROVE Examine(s, i, k) = s
  BY <1>1, <1>5 DEF Examine
<1>6. ASSUME ~o, l.whole, l.mark \notin Ignored, Failed(p)
      PROVE  Examine(s, i, k) = Searching(Marked(f, i), p.errno, a, r, o)
  <2>1. Examine(s, i, k) = Reject(s, i, p)
    BY <1>1, <1>6 DEF Examine
  <2>2. Reject(s, i, p) = [s EXCEPT !.file = Marked(@, i), !.errno = p.errno]
    BY DEF Reject, Marked
  <2>3. PICK h, x : h = Marked(f, i) /\ x = p.errno
    OBVIOUS
  <2>4. Examine(s, i, k) = [s EXCEPT !.file = h, !.errno = x]
    BY <1>1, <2>1, <2>2, <2>3
  <2>5. [s EXCEPT !.file = h, !.errno = x]
          \in [file : {h}, errno : {x}, at : {a}, rec : {r}, over : {o}]
    BY <1>2
  <2> QED
    BY <2>3, <2>4, <2>5, IsSearching
<1>7. ASSUME ~o, l.whole, l.mark \notin Ignored, ~Failed(p), Key(Reading(p)) = k
      PROVE  Examine(s, i, k) = Searching(f, e, i, Reading(p), TRUE)
  <2>1. PICK x : x = Reading(p)
    OBVIOUS
  <2>2. Examine(s, i, k) = [s EXCEPT !.at = i, !.rec = x, !.over = TRUE]
    BY <1>1, <1>7, <2>1 DEF Examine
  <2>3. PICK q : q = [s EXCEPT !.at = i, !.rec = x, !.over = TRUE]
    OBVIOUS
  <2>4. q \in [file : {f}, errno : {e}, at : {i}, rec : {x}, over : {TRUE}]
    BY <1>2, <2>3
  <2>5. q = Searching(f, e, i, x, TRUE)
    BY <2>4, IsSearching
  <2> QED
    BY <2>1, <2>2, <2>3, <2>5
<1>8. ASSUME ~o, l.whole, l.mark \notin Ignored, ~Failed(p), Key(Reading(p)) # k
      PROVE  Examine(s, i, k) = s
  BY <1>1, <1>8 DEF Examine
<1> QED
  BY <1>3, <1>4, <1>5, <1>6, <1>7, <1>8 DEF Examined

-----------------------------------------------------------------------------
(* Errors that are kept. *)

\* A state of the parser whose errno is the one it started with, or ERANGE.
Kept(p, e) == \E r, c, x, b, f : x \in {e, "range"} /\ p = State(r, c, x, b, f)

LEMMA KeptErrno ==
    ASSUME NEW p, NEW e, Kept(p, e)
    PROVE  p.errno \in {e, "range"}
BY StateFields DEF Kept

LEMMA KeptSteps ==
    ASSUME NEW p, NEW e, Kept(p, e)
    PROVE  /\ Kept(Strtoul(p), e)
           /\ \A x : Kept([p EXCEPT !.code = x], e)
           /\ \A x : Kept([p EXCEPT !.rest = x], e)
           /\ \A x : Kept([p EXCEPT !.bytes = x], e)
           /\ \A x : Kept([p EXCEPT !.fields = x], e)
<1>1. PICK r, c, x, b, f : x \in {e, "range"} /\ p = State(r, c, x, b, f)
  BY DEF Kept
<1>2. Kept(Strtoul(p), e)
  <2>1. PICK s, y : /\ y = IF Value(p) > ULongMax THEN "range" ELSE x
                    /\ s = IF AtNumber(p) THEN Rest(r) ELSE r
    OBVIOUS
  <2>2. Strtoul(p) = State(s, c, y, b, f)
    BY <1>1, <2>1, StrtoulState
  <2>3. y \in {e, "range"}
    BY <1>1, <2>1
  <2> QED
    BY <2>2, <2>3 DEF Kept
<1>3. ASSUME NEW y PROVE Kept([p EXCEPT !.code = y], e)
  <2>1. [p EXCEPT !.code = y] = State(r, y, x, b, f)
    BY <1>1, SetCode
  <2> QED
    BY <1>1, <2>1 DEF Kept
<1>4. ASSUME NEW y PROVE Kept([p EXCEPT !.rest = y], e)
  <2>1. [p EXCEPT !.rest = y] = State(y, c, x, b, f)
    BY <1>1, SetRest
  <2> QED
    BY <1>1, <2>1 DEF Kept
<1>5. ASSUME NEW y PROVE Kept([p EXCEPT !.bytes = y], e)
  <2>1. [p EXCEPT !.bytes = y] = State(r, c, x, y, f)
    <3>1. p \in [rest : {r}, code : {c}, errno : {x}, bytes : {b}, fields : {f}]
      BY <1>1 DEF State
    <3>2. PICK q : q = [p EXCEPT !.bytes = y]
      OBVIOUS
    <3>3. q \in [rest : {r}, code : {c}, errno : {x}, bytes : {y}, fields : {f}]
      BY <3>1, <3>2
    <3>4. q = State(r, c, x, y, f)
      BY <3>3, IsState
    <3> QED
      BY <3>2, <3>4
  <2> QED
    BY <1>1, <2>1 DEF Kept
<1>6. ASSUME NEW y PROVE Kept([p EXCEPT !.fields = y], e)
  <2>1. [p EXCEPT !.fields = y] = State(r, c, x, b, y)
    BY <1>1, SetFields
  <2> QED
    BY <1>1, <2>1 DEF Kept
<1> QED
  BY <1>2, <1>3, <1>4, <1>5, <1>6

LEMMA NextFieldKeeps ==
    ASSUME NEW p, NEW e, Kept(p, e)
    PROVE  Kept(NextField(p), e)
<1>1. PICK q : q = Rest(p.rest)
  OBVIOUS
<1>2. \/ NextField(p) = p \/ NextField(p) = [p EXCEPT !.code = "end"]
      \/ NextField(p) = [p EXCEPT !.rest = q] \/ NextField(p) = [p EXCEPT !.code = "unexpected"]
  BY <1>1 DEF NextField, Rest
<1> QED
  BY <1>2, KeptSteps

LEMMA NumberKeeps ==
    ASSUME NEW p, NEW e, Kept(p, e), NEW n
    PROVE  Kept(GetNumber(p, n), e)
<1>1. PICK v : v = Value(p) % Byte ^ n
  OBVIOUS
<1>2. PICK q : q = Strtoul(p)
  OBVIOUS
<1>3. PICK f : f = With(q.fields, v)
  OBVIOUS
<1>4. Kept(q, e)
  BY <1>2, KeptSteps
<1>5. Kept([q EXCEPT !.fields = f], e)
  BY <1>4, KeptSteps
<1>6. Kept(NextField([q EXCEPT !.fields = f]), e)
  BY <1>5, NextFieldKeeps
<1>7. \/ GetNumber(p, n) = p
      \/ GetNumber(p, n) = [p EXCEPT !.code = "missing"]
      \/ GetNumber(p, n) = [q EXCEPT !.code = "range"]
      \/ GetNumber(p, n) = NextField([q EXCEPT !.fields = f])
  BY <1>1, <1>2, <1>3 DEF GetNumber, With
<1> QED
  BY <1>4, <1>6, <1>7, KeptSteps

LEMMA QuotedKeeps ==
    ASSUME NEW p, NEW e, Kept(p, e)
    PROVE  Kept(GetQuoted(p), e)
<1>1. PICK r, f : r = Rest(p.rest) /\ f = With(p.fields, Head(p.rest).name)
  OBVIOUS
<1>2. PICK q : q = [p EXCEPT !.rest = r]
  OBVIOUS
<1>3. Kept(q, e)
  BY <1>2, KeptSteps
<1>4. PICK u : u = [q EXCEPT !.fields = f]
  OBVIOUS
<1>5. Kept(NextField(u), e)
  BY <1>3, <1>4, KeptSteps, NextFieldKeeps
<1>6. \/ GetQuoted(p) = p
      \/ \E c : GetQuoted(p) = [p EXCEPT !.code = c]
      \/ GetQuoted(p) = NextField([p EXCEPT !.rest = Rest(@), !.fields = With(@, Head(p.rest).name)])
  BY DEF GetQuoted, Rest, With
<1>7. [p EXCEPT !.rest = Rest(@), !.fields = With(@, Head(p.rest).name)] = u
  <2>1. p.rest = p.rest /\ q.fields = p.fields
    BY <1>2
  <2> QED
    BY <1>1, <1>2, <1>4, <2>1
<1> QED
  BY <1>5, <1>6, <1>7, KeptSteps

LEMMA HexKeeps ==
    ASSUME NEW p, NEW e, Kept(p, e)
    PROVE  /\ Kept(NextByte(p), e) /\ Kept(LastByte(p), e)
<1>1. PICK t, v : t = Strtoul(p) /\ v = Value(p)
  OBVIOUS
<1>2. PICK q : q = [t EXCEPT !.bytes = Before(v, @)]
  OBVIOUS
<1>3. Kept(t, e)
  BY <1>1, KeptSteps
<1>4. Kept(q, e)
  <2>1. PICK x : x = Before(v, t.bytes)
    OBVIOUS
  <2>2. q = [t EXCEPT !.bytes = x]
    BY <1>2, <2>1
  <2> QED
    BY <1>3, <2>2, KeptSteps
<1>5. PICK y : y = Rest(q.rest)
  OBVIOUS
<1>6. LastByte(p) = p \/ LastByte(p) = [t EXCEPT !.code = "range"] \/ LastByte(p) = q
  BY <1>1, <1>2 DEF LastByte, HexByte, Before
<1>7. \/ NextByte(p) = p \/ NextByte(p) = [t EXCEPT !.code = "range"]
      \/ NextByte(p) = [q EXCEPT !.rest = y] \/ NextByte(p) = [q EXCEPT !.code = "hex"]
  <2>1. PICK u : u = [Strtoul(p) EXCEPT !.bytes = <<Value(p)>> \o @]
    OBVIOUS
  <2>2. u = q
    BY <1>1, <1>2, <2>1 DEF Before
  <2>3. NextByte(p) =
          CASE p.code # "ok" -> p
            [] p.code = "ok" /\ OutOfRange(p, Byte - 1) -> [Strtoul(p) EXCEPT !.code = "range"]
            [] OTHER -> IF u.rest # <<>> /\ Head(u.rest) = Colon
                          THEN [u EXCEPT !.rest = Tail(@)]
                          ELSE [u EXCEPT !.code = "hex"]
    BY <2>1 DEF NextByte, HexByte
  <2>4. [u EXCEPT !.rest = Tail(@)] = [q EXCEPT !.rest = y]
    BY <1>5, <2>2 DEF Rest
  <2> QED
    BY <1>1, <2>2, <2>3, <2>4
<1>8. Kept(LastByte(p), e)
  BY <1>3, <1>4, <1>6, KeptSteps
<1>9. Kept([t EXCEPT !.code = "range"], e)
  BY <1>3, KeptSteps
<1>10. Kept([q EXCEPT !.rest = y], e) /\ Kept([q EXCEPT !.code = "hex"], e)
  BY <1>4, KeptSteps
<1> QED
  BY <1>7, <1>8, <1>9, <1>10

\* Whatever a line is, the parser leaves errno as it is or sets it to ERANGE.
LEMMA ParseKeeps ==
    ASSUME NEW t, NEW e
    PROVE  Parse(t, e).errno \in {e, "range"}
<1>1. PICK p : p = State(t, "ok", e, <<>>, <<>>)
  OBVIOUS
<1>2. Start(t, e) = p /\ Kept(p, e) /\ p.code = "ok"
  <2>1. Start(t, e) = p
    BY <1>1 DEF Start, State
  <2>2. \E x : x = e /\ x \in {e, "range"} /\ p = State(t, "ok", x, <<>>, <<>>)
    BY <1>1
  <2>3. Kept(p, e)
    BY <2>2 DEF Kept
  <2> QED
    BY <1>1, <2>1, <2>3, StateFields
<1>3. HexLen \in Nat /\ MaxMembers \in Nat
  BY WidthAssumption, BoundAssumption
<1>4. Kept(GetHex(p), e)
  <2>1. PICK g : /\ HexLoop(p, HexLen, g)
                 /\ GetHex(p) =
                      LET q == g[HexLen] IN
                      IF q.code # "ok" THEN q
                      ELSE NextField([q EXCEPT !.fields = With(@, q.bytes)])
    BY <1>2, GetHexLoop
  <2>2. /\ g[0] = p
        /\ \A i \in 0..(HexLen - 1) : g[i + 1] = IF i + 1 < HexLen THEN NextByte(g[i])
                                                                   ELSE LastByte(g[i])
    BY <2>1, HexLoopSteps
  <2> DEFINE T == {i \in 0..HexLen : Kept(g[i], e)}
  <2>3. 0 \in T
    BY <1>2, <1>3, <2>2
  <2>4. ASSUME NEW i \in 0..(HexLen - 1), i \in T PROVE i + 1 \in T
    <3>1. i + 1 \in 0..HexLen /\ Kept(g[i], e)
      BY <1>3, <2>4
    <3>2. Kept(NextByte(g[i]), e) /\ Kept(LastByte(g[i]), e)
      BY <3>1, HexKeeps
    <3>3. g[i + 1] = NextByte(g[i]) \/ g[i + 1] = LastByte(g[i])
      BY <2>2
    <3> QED
      BY <3>1, <3>2, <3>3
  <2> HIDE DEF T
  <2>5. \A i \in 0..HexLen : i \in T
    BY <1>3, <2>3, <2>4, UpTo
  <2>6. PICK q, f : q = g[HexLen] /\ f = With(q.fields, q.bytes)
    OBVIOUS
  <2>7. Kept(q, e)
    BY <1>3, <2>5, <2>6 DEF T
  <2>8. Kept(NextField([q EXCEPT !.fields = f]), e)
    BY <2>7, KeptSteps, NextFieldKeeps
  <2>9. GetHex(p) = q \/ GetHex(p) = NextField([q EXCEPT !.fields = f])
    BY <2>1, <2>6
  <2> QED
    BY <2>7, <2>8, <2>9
<1>5. Kept(ParseDevice(t, e), e)
  <2>1. PICK q1, q2, q3 : /\ q1 = GetHex(p) /\ q2 = GetNumber(q1, 2) /\ q3 = GetNumber(q2, 1)
    OBVIOUS
  <2>2. Kept(q1, e)
    BY <1>4, <2>1
  <2>3. Kept(q2, e)
    BY <2>1, <2>2, NumberKeeps
  <2>4. Kept(q3, e)
    BY <2>1, <2>3, NumberKeeps
  <2>5. ParseDevice(t, e) = GetQuoted(q3)
    BY <1>2, <2>1 DEF ParseDevice
  <2> QED
    BY <2>4, <2>5, QuotedKeeps
<1>6. Kept(ParseGroup(t, e), e)
  <2>1. PICK g : /\ g[0] = GroupStart(t, e)
                 /\ \A i \in 0..(MaxMembers - 1) : g[i + 1] = OneMember(g[i])
                 /\ ParseGroup(t, e) = g[MaxMembers]
    BY ParseGroupLoop
  <2>2. Kept(g[0], e)
    <3>1. PICK q : q = GetNumber(p, 2)
      OBVIOUS
    <3>2. Kept(q, e)
      BY <1>2, <3>1, NumberKeeps
    <3>3. g[0] = GetQuoted(q)
      BY <1>2, <2>1, <3>1 DEF GroupStart
    <3> QED
      BY <3>2, <3>3, QuotedKeeps
  <2> DEFINE T == {i \in 0..MaxMembers : Kept(g[i], e)}
  <2>3. 0 \in T
    BY <1>3, <2>2
  <2>4. ASSUME NEW i \in 0..(MaxMembers - 1), i \in T PROVE i + 1 \in T
    <3>1. i + 1 \in 0..MaxMembers /\ Kept(g[i], e) /\ g[i + 1] = OneMember(g[i])
      BY <1>3, <2>1, <2>4
    <3>2. PICK q1, q2 : q1 = GetNumber(g[i], 2) /\ q2 = GetNumber(q1, 1)
      OBVIOUS
    <3>3. Kept(q1, e)
      BY <3>1, <3>2, NumberKeeps
    <3>4. Kept(q2, e)
      BY <3>2, <3>3, NumberKeeps
    <3>5. OneMember(g[i]) = g[i] \/ OneMember(g[i]) = q2
      BY <3>2 DEF OneMember
    <3> QED
      BY <3>1, <3>4, <3>5
  <2> HIDE DEF T
  <2>5. \A i \in 0..MaxMembers : i \in T
    BY <1>3, <2>3, <2>4, UpTo
  <2> QED
    BY <1>3, <2>1, <2>5 DEF T
<1> QED
  BY <1>5, <1>6, KeptErrno DEF Parse

-----------------------------------------------------------------------------
(* Files of lines that are meant. *)

Kinds == {"device", "group"}

\* What is true of every file: its lines are ones the gateway writes for a
\* record, or ones that are errors in a list of this kind.
LinesAreMeant ==
    /\ kind \in Kinds
    /\ file \in Seq(Meant(kind))
    /\ errno \in {"none", "other", "range"}

LEMMA MeantFields ==
    ASSUME kind \in Kinds, NEW l \in Meant(kind)
    PROVE  /\ l.whole \in BOOLEAN /\ l.short \in BOOLEAN /\ l.mark \in {" "} \cup Ignored
           /\ \A e \in {"none", "other"} :
                IF l.of = NoRec THEN Failed(Parse(l.text, e)) ELSE ReadsAs(l, e)
<1>1. l \in AnyLine
  BY DEF Meant
<1>2. l.whole \in BOOLEAN /\ l.short \in BOOLEAN /\ l.mark \in {" "} \cup Ignored
  BY <1>1 DEF AnyLine
<1>3. ASSUME NEW e \in {"none", "other"}, l.of = NoRec PROVE Failed(Parse(l.text, e))
  BY <1>3 DEF Meant, Parse
<1>4. ASSUME NEW e \in {"none", "other"}, l.of # NoRec PROVE ReadsAs(l, e)
  <2>1. kind = "device" \/ kind = "group"
    BY DEF Kinds
  <2> QED
    BY <1>4, <2>1, DeviceReadsAs, GroupReadsAs
<1> QED
  BY <1>2, <1>3, <1>4

\* A line keeps its meaning whatever is written over its first character.
LEMMA MarkKeeps ==
    ASSUME NEW k, NEW l \in Meant(k), NEW m \in {" "} \cup Ignored
    PROVE  /\ [l EXCEPT !.mark = m] \in Meant(k)
           /\ [l EXCEPT !.mark = m].mark = m
           /\ [l EXCEPT !.mark = m].text = l.text /\ [l EXCEPT !.mark = m].whole = l.whole
<1>1. PICK q : q = [l EXCEPT !.mark = m]
  OBVIOUS
<1>2. l \in AnyLine
  BY DEF Meant
<1>3. /\ q \in AnyLine /\ q.mark = m /\ q.text = l.text /\ q.of = l.of
      /\ q.whole = l.whole /\ q.short = l.short
  BY <1>1, <1>2 DEF AnyLine
<1>4. q \in Meant(k)
  BY <1>3 DEF Meant
<1> QED
  BY <1>1, <1>3, <1>4

LEMMA MarkErrorKeeps ==
    ASSUME kind \in Kinds, NEW l \in Meant(kind)
    PROVE  MarkError(l) \in Meant(kind)
<1>1. MarkError(l) = l \/ MarkError(l) = [l EXCEPT !.mark = "?"]
  BY DEF MarkError
<1>2. PICK m : m = "?"
  OBVIOUS
<1>3. m \in {" "} \cup Ignored
  BY <1>2 DEF Ignored
<1>4. [l EXCEPT !.mark = m] \in Meant(kind)
  BY <1>3, MarkKeeps
<1> QED
  BY <1>1, <1>2, <1>4

\* Files of the same length whose lines differ in the mark of a bad line.
SameButMarks(f, h, i) ==
    /\ Len(h) = Len(f)
    /\ \A j \in 1..Len(f) : IF j <= i THEN h[j] = f[j] \/ h[j] = MarkError(f[j]) ELSE h[j] = f[j]

\* A search leaves the lines it has not come to as they are, and errno as it is
\* but for ERANGE.
LEMMA ScanKeeps ==
    ASSUME kind \in Kinds, NEW f \in Seq(Meant(kind)), NEW e, NEW k, NEW g, Scan(f, e, k, g)
    PROVE  \A i \in 0..Len(f) : \E h, x, a, r, o :
             /\ g[i] = Searching(h, x, a, r, o)
             /\ h \in Seq(Meant(kind)) /\ SameButMarks(f, h, i)
             /\ x \in {e, "range"} /\ o \in BOOLEAN
<1> DEFINE P(i) == \E h, x, a, r, o :
                     /\ g[i] = Searching(h, x, a, r, o)
                     /\ h \in Seq(Meant(kind)) /\ SameButMarks(f, h, i)
                     /\ x \in {e, "range"} /\ o \in BOOLEAN
           T == {i \in 0..Len(f) : P(i)}
<1>1. Len(f) \in Nat /\ DOMAIN f = 1..Len(f) /\ \A j \in 1..Len(f) : f[j] \in Meant(kind)
  BY LenProperties
<1>2. g[0] = Begin(f, e) /\ \A i \in 0..(Len(f) - 1) : g[i + 1] = Examine(g[i], i + 1, k)
  BY DEF Scan
<1>3. 0 \in T
  <2>1. g[0] = Searching(f, e, 0, NoRec, FALSE)
    BY <1>2 DEF Begin, Searching
  <2>2. SameButMarks(f, f, 0)
    BY <1>1 DEF SameButMarks
  <2>3. PICK o \in BOOLEAN : o = FALSE
    OBVIOUS
  <2>4. \E a, r : g[0] = Searching(f, e, a, r, o)
    BY <2>1, <2>3
  <2>5. P(0)
    BY <2>2, <2>4
  <2> HIDE DEF P
  <2> QED
    BY <1>1, <2>5
<1>4. ASSUME NEW i \in 0..(Len(f) - 1), i \in T PROVE i + 1 \in T
  <2>1. PICK h, x, a, r, o : /\ g[i] = Searching(h, x, a, r, o)
                             /\ h \in Seq(Meant(kind)) /\ SameButMarks(f, h, i)
                             /\ x \in {e, "range"} /\ o \in BOOLEAN
    BY <1>4
  <2>2. PICK s, n : s = g[i] /\ n = i + 1
    OBVIOUS
  <2>3. n \in 1..Len(f) /\ i \in Nat /\ n \in 0..Len(f) /\ g[n] = Examine(s, n, k)
    BY <1>1, <1>2, <2>2
  <2>4. /\ Len(h) = Len(f) /\ h[n] = f[n]
        /\ \A j \in 1..Len(f) : h[j] = f[j] \/ (j < n /\ h[j] = MarkError(f[j]))
    BY <1>1, <2>1, <2>2, <2>3 DEF SameButMarks
  <2>5. PICK l, p : l = h[n] /\ p = Parse(l.text, x)
    OBVIOUS
  <2>6. l \in Meant(kind) /\ l.whole \in BOOLEAN
    BY <1>1, <2>3, <2>4, <2>5, MeantFields
  <2>7. p.errno \in {x, "range"}
    BY <2>5, ParseKeeps
  <2>8. SameButMarks(f, h, n)
    BY <1>1, <2>2, <2>3, <2>4 DEF SameButMarks
  <2>9. Marked(h, n) \in Seq(Meant(kind)) /\ SameButMarks(f, Marked(h, n), n)
    <3>1. PICK m, M : m = MarkError(l) /\ M = Meant(kind)
      OBVIOUS
    <3>2. m \in M /\ h \in Seq(M) /\ n \in 1..Len(h)
      BY <2>1, <2>3, <2>4, <2>6, <3>1, MarkErrorKeeps
    <3>3. Marked(h, n) = [h EXCEPT ![n] = m]
      BY <2>5, <3>1 DEF Marked
    <3>4. PICK q : q = [h EXCEPT ![n] = m]
      OBVIOUS
    <3>5. q \in Seq(M) /\ Len(q) = Len(h) /\ \A j \in 1..Len(h) : q[j] = IF j = n THEN m ELSE h[j]
      BY <3>2, <3>4
    <3>6. q[n] = MarkError(f[n])
      BY <2>4, <2>5, <3>1, <3>2, <3>5
    <3>7. SameButMarks(f, q, n)
      BY <1>1, <2>3, <2>4, <3>5, <3>6 DEF SameButMarks
    <3> QED
      BY <3>1, <3>3, <3>4, <3>5, <3>7
  <2>10. \/ g[n] = s \/ g[n] = Searching(h, x, a, r, TRUE)
         \/ g[n] = Searching(Marked(h, n), p.errno, a, r, o)
         \/ g[n] = Searching(h, x, n, Reading(p), TRUE)
    <3>1. o \in BOOLEAN /\ h[n].whole \in BOOLEAN
      BY <2>1, <2>5, <2>6
    <3>2. Examined(h, x, a, r, o, n, k)
      BY <3>1, ExamineSteps
    <3>3. PICK u : u = Examine(s, n, k)
      OBVIOUS
    <3>4. \/ u = s \/ u = Searching(h, x, a, r, TRUE)
          \/ u = Searching(Marked(h, n), p.errno, a, r, o)
          \/ u = Searching(h, x, n, Reading(p), TRUE)
      BY <2>1, <2>2, <2>5, <2>6, <3>2, <3>3 DEF Examined
    <3> QED
      BY <2>3, <3>3, <3>4
  <2>11. p.errno \in {e, "range"}
    BY <2>1, <2>7
  <2>12. P(n)
    BY <2>1, <2>2, <2>8, <2>9, <2>10, <2>11
  <2> QED
    BY <2>2, <2>3, <2>12
<1> HIDE DEF T
<1>5. \A i \in 0..Len(f) : i \in T
  BY <1>1, <1>3, <1>4, UpTo
<1> QED
  BY <1>5 DEF T

LEMMA SearchKeeps ==
    ASSUME kind \in Kinds, NEW f \in Seq(Meant(kind)), NEW e, NEW k
    PROVE  /\ Search(f, e, k).file \in Seq(Meant(kind))
           /\ SameButMarks(f, Search(f, e, k).file, Len(f))
           /\ Search(f, e, k).errno \in {e, "range"}
<1>1. Len(f) \in Nat
  BY LenProperties
<1>2. PICK g : Scan(f, e, k, g) /\ Search(f, e, k) = g[Len(f)]
  BY <1>1, SearchScan
<1>3. \A i \in 0..Len(f) : \E h, x, a, r, o :
        /\ g[i] = Searching(h, x, a, r, o)
        /\ h \in Seq(Meant(kind)) /\ SameButMarks(f, h, i)
        /\ x \in {e, "range"} /\ o \in BOOLEAN
  BY <1>2, ScanKeeps
<1>4. PICK i \in 0..Len(f) : i = Len(f)
  BY <1>1
<1>5. PICK h, x, a, r, o : /\ g[i] = Searching(h, x, a, r, o)
                           /\ h \in Seq(Meant(kind)) /\ SameButMarks(f, h, i)
                           /\ x \in {e, "range"} /\ o \in BOOLEAN
  BY <1>3
<1>6. Search(f, e, k).file = h /\ Search(f, e, k).errno = x
  BY <1>2, <1>4, <1>5, SearchingFields
<1> QED
  BY <1>4, <1>5, <1>6

LEMMA CopiedKeeps ==
    ASSUME NEW k, NEW f \in Seq(Meant(k))
    PROVE  /\ Copied(f) \in Seq(Meant(k))
           /\ Len(Copied(f)) = Cardinality({i \in Reached(f) : f[i].mark # ";"})
           /\ \A i \in 1..Len(Copied(f)) :
                Copied(f)[i] = f[NthOf({j \in Reached(f) : f[j].mark # ";"}, i)]
<1>1. PICK S : S = {i \in Reached(f) : f[i].mark # ";"}
  OBVIOUS
<1>2. S \subseteq DOMAIN f
  BY <1>1 DEF Reached
<1>3. Copied(f) = Selected(f, S)
  BY <1>1 DEF Copied
<1>4. PICK c : c = Selected(f, S)
  OBVIOUS
<1>5. /\ c \in Seq(Meant(k)) /\ Len(c) = Cardinality(S)
      /\ \A i \in DOMAIN c : c[i] = f[NthOf(S, i)]
  BY <1>2, <1>4, SelectedProperties
<1>6. DOMAIN c = 1..Len(c)
  BY <1>5, LenProperties
<1> QED
  BY <1>1, <1>3, <1>4, <1>5, <1>6

\* Two lines that a search cannot tell apart.
Alike(l, m) ==
    /\ l.text = m.text /\ l.whole = m.whole
    /\ l.mark \in Ignored <=> m.mark \in Ignored

\* The file a start leaves.
Started(f) ==
    [i \in DOMAIN Copied(f) |->
       IF Copied(f)[i].mark = "?" THEN [Copied(f)[i] EXCEPT !.mark = "@"] ELSE Copied(f)[i]]

LEMMA StartUpKeeps ==
    ASSUME NEW k, NEW f \in Seq(Meant(k))
    PROVE  /\ Started(f) \in Seq(Meant(k)) /\ Len(Started(f)) = Len(Copied(f))
           /\ \A i \in 1..Len(Started(f)) : Alike(Copied(f)[i], Started(f)[i])
<1>1. PICK c, M, h : c = Copied(f) /\ M = Meant(k) /\ h = Started(f)
  OBVIOUS
<1>2. c \in Seq(M)
  BY <1>1, CopiedKeeps
<1>3. Len(c) \in Nat /\ DOMAIN c = 1..Len(c) /\ \A i \in 1..Len(c) : c[i] \in M
  BY <1>2, LenProperties
<1>4. ASSUME NEW i \in 1..Len(c)
      PROVE  h[i] \in M /\ Alike(c[i], h[i])
  <2>1. PICK l, m : l = c[i] /\ m = "@"
    OBVIOUS
  <2>2. l \in M /\ m \in {" "} \cup Ignored
    BY <1>3, <2>1 DEF Ignored
  <2>3. PICK q : q = [l EXCEPT !.mark = m]
    OBVIOUS
  <2>4. q \in M /\ q.mark = m /\ q.text = l.text /\ q.whole = l.whole
    <3>1. l \in Meant(k) /\ m \in {" "} \cup Ignored
      BY <1>1, <2>2
    <3>2. /\ [l EXCEPT !.mark = m] \in Meant(k)
          /\ [l EXCEPT !.mark = m].mark = m
          /\ [l EXCEPT !.mark = m].text = l.text /\ [l EXCEPT !.mark = m].whole = l.whole
      BY <3>1, MarkKeeps
    <3> QED
      BY <1>1, <2>3, <3>2
  <2>5. h[i] = IF l.mark = "?" THEN q ELSE l
    BY <1>1, <1>3, <2>1, <2>3 DEF Started
  <2>6. "?" \in Ignored /\ "@" \in Ignored
    BY DEF Ignored
  <2> QED
    BY <2>1, <2>2, <2>4, <2>5, <2>6 DEF Alike
<1>5. h = [i \in 1..Len(c) |-> h[i]]
  BY <1>1, <1>3 DEF Started
<1>6. h \in Seq(M) /\ Len(h) = Len(c)
  BY <1>3, <1>4, <1>5, IsASeq
<1> QED
  BY <1>1, <1>4, <1>6

LEMMA LinesAreMeantInit == Init => LinesAreMeant
BY DEF Init, LinesAreMeant, Kinds

LEMMA LinesAreMeantNext == LinesAreMeant /\ [Next]_vars => LinesAreMeant'
<1> SUFFICES ASSUME LinesAreMeant, [Next]_vars PROVE LinesAreMeant'
  OBVIOUS
<1>1. kind \in Kinds /\ file \in Seq(Meant(kind)) /\ errno \in {"none", "other", "range"}
  BY DEF LinesAreMeant
<1> SUFFICES /\ kind' = kind /\ file' \in Seq(Meant(kind))
             /\ errno' \in {"none", "other", "range"}
  <2>1. ASSUME kind' = kind PROVE Meant(kind)' = Meant(kind)
    BY <2>1 DEF Meant
  <2> QED
    BY <1>1, <2>1 DEF LinesAreMeant
<1>2. PICK M : M = Meant(kind)
  OBVIOUS
<1>3. file \in Seq(M)
  BY <1>1, <1>2
<1>4. ASSUME NEW r \in Records, Add(r) PROVE file' \in Seq(M)
  <2>1. Lines(r) \in Seq(M)
    <3>1. CASE kind = "device"
      BY <1>2, <3>1, RecordAssumption, DeviceLinesMeant DEF Records, Lines
    <3>2. CASE kind = "group"
      BY <1>2, <3>2, RecordAssumption, GroupLinesMeant DEF Records, Lines
    <3> QED
      BY <1>1, <3>1, <3>2 DEF Kinds
  <2>2. PICK ls : ls = Lines(r)
    OBVIOUS
  <2>3. file' = Joined(file, ls)
    BY <1>4, <2>2 DEF Add, Joined
  <2> QED
    BY <1>3, <2>1, <2>2, <2>3, JoinedProperties
<1>5. ASSUME NEW k
      PROVE  /\ Search(file, errno, k).file \in Seq(M)
             /\ Search(file, errno, k).errno \in {"none", "other", "range"}
  BY <1>1, <1>2, SearchKeeps
<1>6. ASSUME NEW k, Delete(k) PROVE file' \in Seq(M)
  <2>1. PICK h, a, c : /\ h = Search(file, errno, k).file /\ a = Search(file, errno, k).at
                       /\ c = ";"
    OBVIOUS
  <2>2. h \in Seq(M)
    BY <1>5, <2>1
  <2>3. file' = h \/ file' = [h EXCEPT ![a].mark = c]
    BY <1>6, <2>1 DEF Delete
  <2>4. [h EXCEPT ![a].mark = c] \in Seq(M)
    <3>1. CASE a \in DOMAIN h
      <4>1. h[a] \in M /\ c \in {" "} \cup Ignored
        <5>1. h[a] \in M
          BY <2>2, <3>1
        <5>2. c \in {" "} \cup Ignored
          BY <2>1 DEF Ignored
        <5> QED
          BY <5>1, <5>2
      <4>2. PICK q : q = [h[a] EXCEPT !.mark = c]
        OBVIOUS
      <4>3. q \in M
        BY <1>2, <4>1, <4>2, MarkKeeps
      <4>4. [h EXCEPT ![a].mark = c] = [h EXCEPT ![a] = q]
        BY <3>1, <4>2
      <4>5. [h EXCEPT ![a] = q] \in Seq(M)
        BY <2>2, <3>1, <4>3
      <4> QED
        BY <4>4, <4>5
    <3>2. CASE a \notin DOMAIN h
      <4>1. [h EXCEPT ![a].mark = c] = h
        BY <2>2, <3>2
      <4> QED
        BY <2>2, <4>1
    <3> QED
      BY <3>1, <3>2
  <2> QED
    BY <2>2, <2>3, <2>4
<1>7. ASSUME NEW i \in 1..MaxLines, NEW l \in HandLines[kind], Edit(i, l) PROVE file' \in Seq(M)
  <2>1. l \in M
    BY <1>1, <1>2, HandAssumption DEF Kinds
  <2>2. file' = Append(file, l) \/ (file' = [file EXCEPT ![i] = l] /\ i \in 1..Len(file))
    <3>1. Len(file) \in Nat /\ i \in 1..(Len(file) + 1)
      BY <1>3, <1>7, LenProperties DEF Edit
    <3> QED
      BY <1>7, <3>1 DEF Edit
  <2>3. Append(file, l) \in Seq(M)
    BY <1>3, <2>1, AppendProperties
  <2>4. i \in 1..Len(file) => [file EXCEPT ![i] = l] \in Seq(M)
    BY <1>3, <2>1
  <2> QED
    BY <2>2, <2>3, <2>4
<1>8. ASSUME StartUp PROVE file' \in Seq(M)
  <2>1. PICK h : h = file'
    OBVIOUS
  <2>2. h = Started(file)
    BY <1>8, <2>1 DEF StartUp, Started
  <2>3. h \in Seq(M)
    BY <1>1, <1>2, <2>2, StartUpKeeps
  <2> QED
    BY <2>1, <2>3
<1>9. CASE \E r \in Records : Add(r)
  BY <1>1, <1>2, <1>4, <1>9 DEF Add
<1>10. CASE \E k \in Keys : Find(k)
  BY <1>2, <1>5, <1>10 DEF Find
<1>11. CASE \E k \in Keys : Delete(k)
  <2>1. PICK k : Delete(k)
    BY <1>11
  <2>2. kind' = kind /\ errno' = Search(file, errno, k).errno
    BY <2>1 DEF Delete
  <2> QED
    BY <1>2, <1>5, <1>6, <2>1, <2>2
<1>12. CASE ListAll
  BY <1>2, <1>5, <1>12 DEF ListAll
<1>13. CASE OtherCallFails \/ Stop
  BY <1>1, <1>13 DEF OtherCallFails, Stop
<1>14. CASE StartUp
  BY <1>2, <1>8, <1>14 DEF StartUp
<1>15. CASE \E i \in 1..MaxLines, l \in HandLines[kind] : Edit(i, l)
  BY <1>1, <1>2, <1>7, <1>15 DEF Edit
<1>16. CASE UNCHANGED vars
  BY <1>1, <1>16 DEF vars
<1> QED
  BY <1>9, <1>10, <1>11, <1>12, <1>13, <1>14, <1>15, <1>16 DEF Next

\* The lines of the file stay such lines whatever is added, marked by a search,
\* deleted, copied at a start or written by a person.
THEOREM LinesAlwaysMeant == Spec => []LinesAreMeant
BY LinesAreMeantInit, LinesAreMeantNext, PTL DEF Spec

LEMMA MeantReadsBack == LinesAreMeant => ReadsBack
<1> SUFFICES ASSUME LinesAreMeant, NEW i \in DOMAIN file, NEW e \in {"none", "other"},
                    file[i].of # NoRec
             PROVE  IF Readable(file[i].of)
                      THEN /\ ~Failed(Parse(file[i].text, e))
                           /\ Reading(Parse(file[i].text, e)) = ReadBack(file[i].of)
                      ELSE Failed(Parse(file[i].text, e))
  BY DEF ReadsBack
<1>1. PICK l : l = file[i]
  OBVIOUS
<1>2. kind \in Kinds /\ file \in Seq(Meant(kind))
  BY DEF LinesAreMeant
<1>3. l \in Meant(kind)
  BY <1>1, <1>2
<1>4. ReadsAs(l, e)
  BY <1>1, <1>2, <1>3, MeantFields
<1> QED
  BY <1>1, <1>4 DEF ReadsAs

\* What is written is what is read: the record of a line the gateway wrote, or a
\* person who got it right, is read back as it is, for every address, name,
\* group and line; and one the limits of the parser do not let through is an
\* error.
THEOREM AlwaysReadsBack == Spec => []ReadsBack
BY LinesAlwaysMeant, MeantReadsBack, PTL

-----------------------------------------------------------------------------
(* What a search finds. *)

LEMMA KeyReadBack ==
    ASSUME kind \in Kinds, NEW l \in Meant(kind), l.of # NoRec
    PROVE  Key(ReadBack(l.of)) = Key(l.of)
<1>1. CASE kind = "device"
  BY <1>1 DEF ReadBack
<1>2. CASE kind = "group"
  <2>1. PICK g, i : /\ g = l.of
                    /\ i = IF Len(g.members) < MaxMembers THEN Len(g.members) ELSE MaxMembers
    OBVIOUS
  <2>2. g \in GroupRecord
    BY <1>2, <2>1 DEF Meant
  <2>3. PICK x : x = SubSeq(g.members, 1, i)
    OBVIOUS
  <2>4. ReadBack(g) = [g EXCEPT !.members = x]
    BY <1>2, <2>1, <2>3 DEF ReadBack
  <2>5. PICK A, B, C : g \in [id : A, name : B, members : C]
    BY <2>2, Zenon DEF GroupRecord
  <2>6. PICK q : q = [g EXCEPT !.members = x]
    OBVIOUS
  <2>7. q.id = g.id
    BY <2>5, <2>6
  <2>8. Key(q) = q.id /\ Key(g) = g.id
    BY <1>2 DEF Key
  <2> QED
    BY <2>1, <2>4, <2>6, <2>7, <2>8
<1> QED
  BY <1>1, <1>2 DEF Kinds

\* Of the lines a search has come to, the ones it is after.
Hits(f, k, i) == {j \in Reached(f) : j <= i /\ Says(f[j]) /\ Key(f[j].of) = k}

LEMMA HitsSteps ==
    ASSUME NEW R, NEW f \in Seq(R), NEW k, NEW i \in 0..(Len(f) - 1), NEW n, n = i + 1
    PROVE  /\ n \in Reached(f) /\ Says(f[n]) /\ Key(f[n].of) = k =>
                Hits(f, k, n) = Hits(f, k, i) \cup {n}
           /\ ~(n \in Reached(f) /\ Says(f[n]) /\ Key(f[n].of) = k) => Hits(f, k, n) = Hits(f, k, i)
           /\ n \in Reached(f) <=> \A j \in 1..n : f[j].whole
           /\ Hits(f, k, i) # {} => FirstOf(Hits(f, k, n)) = FirstOf(Hits(f, k, i))
           /\ Hits(f, k, i) = {} /\ n \in Hits(f, k, n) => FirstOf(Hits(f, k, n)) = n
<1>1. Len(f) \in Nat /\ DOMAIN f = 1..Len(f)
  BY LenProperties
<1>2. n \in 1..Len(f) /\ n \in Nat /\ i \in Nat
  BY <1>1
<1>3. PICK D : D = Reached(f)
  OBVIOUS
<1>4. D \subseteq 1..Len(f) /\ (n \in D <=> \A j \in 1..n : f[j].whole)
  BY <1>1, <1>2, <1>3 DEF Reached
<1>5. PICK P : P = {j \in D : Says(f[j]) /\ Key(f[j].of) = k}
  OBVIOUS
<1>6. PICK A, B : A = {j \in P : j <= i} /\ B = {j \in P : j <= n}
  OBVIOUS
<1>7. Hits(f, k, i) = A
  BY <1>3, <1>5, <1>6 DEF Hits
<1>8. Hits(f, k, n) = B
  BY <1>3, <1>5, <1>6 DEF Hits
<1>9. P \subseteq Nat /\ A \subseteq Nat /\ B \subseteq Nat
  <2>1. D \subseteq Nat
    BY <1>1, <1>4
  <2>2. P \subseteq D /\ A \subseteq P /\ B \subseteq P
    BY <1>5, <1>6
  <2> QED
    BY <2>1, <2>2
<1>10. \A j \in P : j <= n <=> j <= i \/ j = n
  BY <1>2, <1>9
<1>11. n \in P => B = A \cup {n}
  BY <1>2, <1>6, <1>10
<1>12. n \notin P => B = A
  BY <1>6, <1>10
<1>13. n \in P <=> n \in D /\ Says(f[n]) /\ Key(f[n].of) = k
  BY <1>5
<1>14. ASSUME A # {} PROVE FirstOf(B) = FirstOf(A)
  <2>1. FirstOf(A) \in A /\ \A j \in A : FirstOf(A) <= j
    BY <1>9, <1>14, FirstOfProperties
  <2>2. B # {}
    BY <1>11, <1>12, <1>14
  <2>3. FirstOf(B) \in B /\ \A j \in B : FirstOf(B) <= j
    BY <1>9, <2>2, FirstOfProperties
  <2>4. PICK a, b : a = FirstOf(A) /\ b = FirstOf(B)
    OBVIOUS
  <2>5. a \in B /\ a <= i /\ a \in Nat /\ b \in Nat
    BY <1>6, <1>9, <1>11, <1>12, <2>1, <2>3, <2>4
  <2>6. b <= a
    BY <2>3, <2>4, <2>5
  <2>7. b \in A
    BY <1>2, <1>6, <2>3, <2>4, <2>5, <2>6
  <2>8. a <= b
    BY <2>1, <2>4, <2>7
  <2> QED
    BY <2>4, <2>5, <2>6, <2>8
<1>15. ASSUME A = {}, n \in B PROVE FirstOf(B) = n
  <2>1. B = {n}
    BY <1>6, <1>10, <1>15
  <2>2. FirstOf(B) \in B
    BY <1>9, <1>15, FirstOfProperties
  <2> QED
    BY <2>1, <2>2
<1> QED
  BY <1>3, <1>4, <1>7, <1>8, <1>11, <1>12, <1>13, <1>14, <1>15

\* A search at line i that has met no number out of range has left the good
\* lines as they are, and has found the first record with its key if there is one.
Found(f, k, i, h, r, o) ==
    /\ \A j \in 1..Len(f) : Says(f[j]) => h[j] = f[j]
    /\ Hits(f, k, i) = {} => r = NoRec /\ (o <=> \E j \in 1..i : ~f[j].whole)
    /\ Hits(f, k, i) # {} => o /\ r = ReadBack(f[FirstOf(Hits(f, k, i))].of)

LEMMA ScanFinds ==
    ASSUME kind \in Kinds, NEW f \in Seq(Meant(kind)), NEW e \in {"none", "other", "range"},
           NEW k, NEW g, Scan(f, e, k, g)
    PROVE  \A i \in 0..Len(f) : g[i].errno # "range" =>
             Found(f, k, i, g[i].file, g[i].rec, g[i].over)
<1> DEFINE T == {i \in 0..Len(f) : g[i].errno # "range" =>
                   Found(f, k, i, g[i].file, g[i].rec, g[i].over)}
<1>1. Len(f) \in Nat /\ DOMAIN f = 1..Len(f) /\ \A j \in 1..Len(f) : f[j] \in Meant(kind)
  BY LenProperties
<1>2. g[0] = Begin(f, e) /\ \A i \in 0..(Len(f) - 1) : g[i + 1] = Examine(g[i], i + 1, k)
  BY DEF Scan
<1>3. 0 \in T
  <2>1. g[0].file = f /\ g[0].rec = NoRec /\ g[0].over = FALSE
    BY <1>2 DEF Begin
  <2>2. Hits(f, k, 0) = {}
    BY <1>1 DEF Hits, Reached
  <2>3. ~\E j \in 1..0 : ~f[j].whole
    OBVIOUS
  <2>4. PICK h, r, o : h = g[0].file /\ r = g[0].rec /\ o = g[0].over
    OBVIOUS
  <2>5. Found(f, k, 0, h, r, o)
    BY <2>1, <2>2, <2>3, <2>4 DEF Found
  <2> QED
    BY <1>1, <2>4, <2>5
<1>4. ASSUME NEW i \in 0..(Len(f) - 1), i \in T PROVE i + 1 \in T
  <2>1. i \in 0..Len(f) /\ i \in Nat
    BY <1>1
  <2>2. PICK h, x, a, r, o : /\ g[i] = Searching(h, x, a, r, o)
                             /\ h \in Seq(Meant(kind)) /\ SameButMarks(f, h, i)
                             /\ x \in {e, "range"} /\ o \in BOOLEAN
    BY <2>1, ScanKeeps
  <2>3. PICK n : n = i + 1
    OBVIOUS
  <2>4. n \in 1..Len(f) /\ n \in 0..Len(f) /\ g[n] = Examine(Searching(h, x, a, r, o), n, k)
    BY <1>1, <1>2, <2>1, <2>2, <2>3
  <2>5. h[n] = f[n] /\ Len(h) = Len(f)
    BY <1>1, <2>2, <2>3, <2>4 DEF SameButMarks
  <2>6. PICK l, p : l = f[n] /\ p = Parse(l.text, x)
    OBVIOUS
  <2>7. /\ l \in Meant(kind) /\ l.whole \in BOOLEAN /\ l.mark \in {" "} \cup Ignored
        /\ \A y \in {"none", "other"} :
             IF l.of = NoRec THEN Failed(Parse(l.text, y)) ELSE ReadsAs(l, y)
    BY <1>1, <2>4, <2>6, MeantFields
  <2>8. Examined(h, x, a, r, o, n, k)
    <3>1. o \in BOOLEAN /\ h[n].whole \in BOOLEAN
      BY <2>2, <2>5, <2>6, <2>7
    <3> QED
      BY <3>1, ExamineSteps
  <2>9. p.errno \in {x, "range"}
    BY <2>6, ParseKeeps
  <2>10. \/ g[n] = Searching(h, x, a, r, o) \/ g[n] = Searching(h, x, a, r, TRUE)
         \/ g[n] = Searching(Marked(h, n), p.errno, a, r, o)
         \/ g[n] = Searching(h, x, n, Reading(p), TRUE)
    BY <2>2, <2>4, <2>5, <2>6, <2>7, <2>8 DEF Examined
  <2> SUFFICES ASSUME g[n].errno # "range"
               PROVE  Found(f, k, n, g[n].file, g[n].rec, g[n].over)
    BY <2>3, <2>4
  <2>11. x # "range"
    <3>1. g[n].errno = x \/ g[n].errno = p.errno
      <4>1. PICK c, u, y, z : c = TRUE /\ u = Marked(h, n) /\ y = p.errno /\ z = Reading(p)
        OBVIOUS
      <4>2. \/ g[n] = Searching(h, x, a, r, o) \/ g[n] = Searching(h, x, a, r, c)
            \/ g[n] = Searching(u, y, a, r, o) \/ g[n] = Searching(h, x, n, z, c)
        BY <2>10, <4>1
      <4>3. CASE g[n] = Searching(h, x, a, r, o)
        BY <4>3, SearchingFields
      <4>4. CASE g[n] = Searching(h, x, a, r, c)
        BY <4>4, SearchingFields
      <4>5. CASE g[n] = Searching(u, y, a, r, o)
        BY <4>1, <4>5, SearchingFields
      <4>6. CASE g[n] = Searching(h, x, n, z, c)
        BY <4>6, SearchingFields
      <4> QED
        BY <4>2, <4>3, <4>4, <4>5, <4>6
    <3> QED
      BY <2>9, <3>1
  <2>12. x \in {"none", "other"}
    BY <2>2, <2>11
  <2>13. Found(f, k, i, h, r, o)
    <3>1. g[i].errno = x /\ g[i].file = h /\ g[i].rec = r /\ g[i].over = o
      BY <2>2, SearchingFields
    <3> QED
      BY <1>4, <2>11, <3>1
  <2>14. PICK A, B : A = Hits(f, k, i) /\ B = Hits(f, k, n)
    OBVIOUS
  <2>15. PICK b \in BOOLEAN : b <=> \E j \in 1..i : ~f[j].whole
    OBVIOUS
  <2>16. /\ \A j \in 1..Len(f) : Says(f[j]) => h[j] = f[j]
         /\ A = {} => r = NoRec /\ (o <=> b)
         /\ A # {} => o /\ r = ReadBack(f[FirstOf(A)].of)
    BY <2>13, <2>14, <2>15 DEF Found
  <2>17. (\E j \in 1..n : ~f[j].whole) <=> b \/ ~l.whole
    <3>1. \A j : j \in 1..n <=> j \in 1..i \/ j = n
      BY <2>1, <2>3
    <3> QED
      BY <2>6, <2>15, <3>1
  <2>18. n \in Reached(f) <=> ~b /\ l.whole
    <3>1. n \in Reached(f) <=> \A j \in 1..n : f[j].whole
      BY <2>3, HitsSteps
    <3> QED
      BY <2>17, <3>1
  <2>19. /\ n \in Reached(f) /\ Says(l) /\ Key(l.of) = k => B = A \cup {n}
         /\ ~(n \in Reached(f) /\ Says(l) /\ Key(l.of) = k) => B = A
         /\ A # {} => FirstOf(B) = FirstOf(A)
         /\ A = {} /\ n \in B => FirstOf(B) = n
    BY <2>3, <2>6, <2>14, HitsSteps
  <2>20. ASSUME NEW u, NEW q, NEW c \in BOOLEAN, NEW y, NEW z,
                g[n] = Searching(u, y, z, q, c),
                \A j \in 1..Len(f) : Says(f[j]) => u[j] = f[j],
                B = {} => q = NoRec /\ (c <=> b \/ ~l.whole),
                B # {} => c /\ q = ReadBack(f[FirstOf(B)].of)
         PROVE  Found(f, k, n, g[n].file, g[n].rec, g[n].over)
    <3>1. g[n].file = u /\ g[n].rec = q /\ g[n].over = c
      BY <2>20, SearchingFields
    <3>2. Found(f, k, n, u, q, c)
      BY <2>14, <2>17, <2>20 DEF Found
    <3> QED
      BY <3>1, <3>2
  <2>21. CASE o
    <3>1. g[n] = Searching(h, x, a, r, o)
      BY <2>4, <2>8, <2>21 DEF Examined
    <3>2. B = {} => A = {}
      BY <2>19
    <3>3. A = {} => B = {}
      BY <2>16, <2>18, <2>19, <2>21
    <3>4. B = {} => r = NoRec /\ (o <=> b \/ ~l.whole)
      BY <2>16, <2>21, <3>2
    <3>5. B # {} => o /\ r = ReadBack(f[FirstOf(B)].of)
      BY <2>16, <2>19, <3>3
    <3> QED
      BY <2>2, <2>16, <2>20, <3>1, <3>4, <3>5
  <2>22. CASE ~o /\ ~l.whole
    <3>1. g[n] = Searching(h, x, a, r, TRUE)
      BY <2>4, <2>5, <2>6, <2>8, <2>22 DEF Examined
    <3>2. A = {} /\ B = {} /\ r = NoRec
      BY <2>16, <2>18, <2>19, <2>22
    <3>3. PICK c \in BOOLEAN : c = TRUE
      OBVIOUS
    <3>4. g[n] = Searching(h, x, a, r, c) /\ (c <=> b \/ ~l.whole)
      BY <2>22, <3>1, <3>3
    <3> QED
      BY <2>16, <2>20, <3>2, <3>4
  <2>23. CASE ~o /\ l.whole
    <3>1. A = {} /\ r = NoRec /\ ~b /\ n \in Reached(f)
      BY <2>16, <2>18, <2>23
    <3>2. CASE l.mark \in Ignored
      <4>1. g[n] = Searching(h, x, a, r, o)
        BY <2>4, <2>5, <2>6, <2>8, <2>23, <3>2 DEF Examined
      <4>2. ~Says(l)
        BY <3>2 DEF Says, Ignored
      <4>3. B = {}
        BY <2>19, <3>1, <4>2
      <4> QED
        BY <2>2, <2>16, <2>20, <2>23, <3>1, <4>1, <4>3
    <3>3. CASE l.mark \notin Ignored /\ (l.of = NoRec \/ ~Readable(l.of))
      <4>1. Failed(p)
        BY <2>6, <2>7, <2>12, <3>3 DEF ReadsAs
      <4>2. PICK u, y : u = Marked(h, n) /\ y = p.errno
        OBVIOUS
      <4>3. g[n] = Searching(u, y, a, r, o)
        BY <2>4, <2>5, <2>6, <2>8, <2>23, <3>3, <4>1, <4>2 DEF Examined
      <4>4. ~Says(l)
        BY <3>3 DEF Says
      <4>5. B = {}
        BY <2>19, <3>1, <4>4
      <4>6. \A j \in 1..Len(f) : Says(f[j]) => u[j] = f[j]
        <5>1. \A j \in 1..Len(f) : j # n => u[j] = h[j]
          <6>1. DOMAIN h = 1..Len(f)
            BY <2>2, <2>5, LenProperties
          <6> QED
            BY <4>2, <6>1 DEF Marked
        <5> QED
          BY <2>6, <2>16, <4>4, <5>1
      <4> QED
        BY <2>2, <2>20, <2>23, <3>1, <4>3, <4>5, <4>6
    <3>4. CASE l.mark \notin Ignored /\ l.of # NoRec /\ Readable(l.of)
      <4>1. ~Failed(p) /\ Reading(p) = ReadBack(l.of)
        BY <2>6, <2>7, <2>12, <3>4 DEF ReadsAs
      <4>2. Key(Reading(p)) = Key(l.of)
        BY <2>7, <3>4, <4>1, KeyReadBack
      <4>3. Says(l)
        BY <2>7, <3>4 DEF Says
      <4>4. CASE Key(l.of) = k
        <5>1. PICK q, c : q = Reading(p) /\ c = TRUE
          OBVIOUS
        <5>2. g[n] = Searching(h, x, n, q, c)
          BY <2>4, <2>5, <2>6, <2>8, <2>23, <3>4, <4>1, <4>2, <4>4, <5>1 DEF Examined
        <5>3. B = {n} /\ FirstOf(B) = n
          BY <2>19, <3>1, <4>3, <4>4
        <5>4. q = ReadBack(f[FirstOf(B)].of)
          BY <2>6, <4>1, <5>1, <5>3
        <5> QED
          BY <2>16, <2>20, <5>1, <5>2, <5>3, <5>4
      <4>5. CASE Key(l.of) # k
        <5>1. g[n] = Searching(h, x, a, r, o)
          BY <2>4, <2>5, <2>6, <2>8, <2>23, <3>4, <4>1, <4>2, <4>5 DEF Examined
        <5>2. B = {}
          BY <2>19, <3>1, <4>5
        <5> QED
          BY <2>2, <2>16, <2>20, <2>23, <3>1, <5>1, <5>2
      <4> QED
        BY <4>4, <4>5
    <3> QED
      BY <3>2, <3>3, <3>4
  <2> QED
    BY <2>7, <2>21, <2>22, <2>23
<1> HIDE DEF T
<1>5. \A i \in 0..Len(f) : i \in T
  BY <1>1, <1>3, <1>4, UpTo
<1> QED
  BY <1>5 DEF T

LEMMA SearchFinds ==
    ASSUME kind \in Kinds, NEW f \in Seq(Meant(kind)), NEW e \in {"none", "other", "range"},
           NEW k, Search(f, e, k).errno # "range"
    PROVE  Found(f, k, Len(f), Search(f, e, k).file, Search(f, e, k).rec, Search(f, e, k).over)
<1>1. Len(f) \in Nat
  BY LenProperties
<1>2. PICK g : Scan(f, e, k, g) /\ Search(f, e, k) = g[Len(f)]
  BY <1>1, SearchScan
<1>3. \A i \in 0..Len(f) : g[i].errno # "range" => Found(f, k, i, g[i].file, g[i].rec, g[i].over)
  BY <1>2, ScanFinds
<1>4. PICK i \in 0..Len(f) : i = Len(f)
  BY <1>1
<1> QED
  BY <1>2, <1>3, <1>4

LEMMA FindStep ==
    ASSUME LinesAreMeant, NEW k, Find(k), errno' # "range"
    PROVE  LET hits == {i \in Reached(file) : Says(file[i]) /\ Key(file[i].of) = k}
           IN  found' = IF hits = {} THEN NoRec ELSE ReadBack(file[FirstOf(hits)].of)
<1>1. kind \in Kinds /\ file \in Seq(Meant(kind)) /\ errno \in {"none", "other", "range"}
  BY DEF LinesAreMeant
<1>2. PICK s : s = Search(file, errno, k)
  OBVIOUS
<1>3. errno' = s.errno /\ found' = s.rec
  BY <1>2 DEF Find
<1>4. Found(file, k, Len(file), s.file, s.rec, s.over)
  BY <1>1, <1>2, <1>3, SearchFinds
<1>5. PICK H : H = {i \in Reached(file) : Says(file[i]) /\ Key(file[i].of) = k}
  OBVIOUS
<1>6. Hits(file, k, Len(file)) = H
  <2>1. Len(file) \in Nat /\ DOMAIN file = 1..Len(file)
    BY <1>1, LenProperties
  <2>2. \A i \in Reached(file) : i <= Len(file)
    BY <2>1 DEF Reached
  <2> QED
    BY <1>5, <2>2 DEF Hits
<1>7. H = {} => s.rec = NoRec
  BY <1>4, <1>6 DEF Found
<1>8. H # {} => s.rec = ReadBack(file[FirstOf(H)].of)
  BY <1>4, <1>6 DEF Found
<1> QED
  BY <1>3, <1>5, <1>7, <1>8

\* Whatever lines there are before it, bad ones too, a search finds the first
\* record with its key, unless it comes by a number that strtoul cannot represent.
THEOREM SearchFindsFirst == Spec => FindsFirst
<1>1. LinesAreMeant /\ [Next]_vars =>
        [\A k \in Keys : Find(k) /\ errno' # "range" =>
           LET hits == {i \in Reached(file) : Says(file[i]) /\ Key(file[i].of) = k}
           IN  found' = IF hits = {} THEN NoRec ELSE ReadBack(file[FirstOf(hits)].of)]_vars
  BY FindStep
<1> QED
  BY <1>1, LinesAlwaysMeant, PTL DEF Spec, FindsFirst

\* What a step of the running gateway does to a line that is good.
LEMMA GoodLineStep ==
    ASSUME LinesAreMeant, Next, up, up', NEW i \in DOMAIN file, Says(file[i]), errno' # "range"
    PROVE  file'[i].mark \notin {"?", "@"}
<1>1. kind \in Kinds /\ file \in Seq(Meant(kind)) /\ errno \in {"none", "other", "range"}
  BY DEF LinesAreMeant
<1>2. Len(file) \in Nat /\ DOMAIN file = 1..Len(file) /\ i \in 1..Len(file)
  BY <1>1, LenProperties
<1>3. file[i].mark \notin {"?", "@"}
  BY DEF Says
<1>4. ASSUME NEW k, errno' = Search(file, errno, k).errno
      PROVE  Search(file, errno, k).file[i] = file[i]
  <2>1. PICK s : s = Search(file, errno, k)
    OBVIOUS
  <2>2. Found(file, k, Len(file), s.file, s.rec, s.over)
    BY <1>1, <1>4, <2>1, SearchFinds
  <2>3. s.file[i] = file[i]
    BY <1>2, <2>2 DEF Found
  <2> QED
    BY <2>1, <2>3
<1>5. ASSUME NEW r \in Records, Add(r) PROVE file'[i] = file[i]
  <2>1. Lines(r) \in Seq(Meant(kind))
    <3>1. CASE kind = "device"
      BY <3>1, RecordAssumption, DeviceLinesMeant DEF Records, Lines
    <3>2. CASE kind = "group"
      BY <3>2, RecordAssumption, GroupLinesMeant DEF Records, Lines
    <3> QED
      BY <1>1, <3>1, <3>2 DEF Kinds
  <2>2. PICK ls, M : ls = Lines(r) /\ M = Meant(kind)
    OBVIOUS
  <2>3. file' = Joined(file, ls) /\ ls \in Seq(M) /\ file \in Seq(M)
    BY <1>1, <1>5, <2>1, <2>2 DEF Add, Joined
  <2> QED
    BY <1>2, <2>3, JoinedProperties
<1>6. ASSUME NEW k, Find(k) PROVE file'[i] = file[i]
  BY <1>4, <1>6 DEF Find
<1>7. ASSUME ListAll PROVE file'[i] = file[i]
  <2>1. PICK k : k = NoRec
    OBVIOUS
  <2>2. errno' = Search(file, errno, k).errno /\ file' = Search(file, errno, k).file
    BY <1>7, <2>1 DEF ListAll
  <2> QED
    BY <1>4, <2>2
<1>8. ASSUME NEW k, Delete(k) PROVE file'[i] = file[i] \/ file'[i].mark = ";"
  <2>1. PICK h, a, c : /\ h = Search(file, errno, k).file /\ a = Search(file, errno, k).at
                       /\ c = ";"
    OBVIOUS
  <2>2. file' = h \/ file' = [h EXCEPT ![a].mark = c]
    BY <1>8, <2>1 DEF Delete
  <2>3. h[i] = file[i]
    BY <1>4, <1>8, <2>1 DEF Delete
  <2>4. h \in Seq(Meant(kind)) /\ Len(h) = Len(file)
    BY <1>1, <2>1, SearchKeeps DEF SameButMarks
  <2>5. i \in DOMAIN h
    BY <1>2, <2>4, LenProperties
  <2>6. PICK l : l = file[i]
    OBVIOUS
  <2>7. [l EXCEPT !.mark = c].mark = c
    <3>1. l \in Meant(kind)
      BY <1>1, <1>2, <2>6, LenProperties
    <3>2. c \in {" "} \cup Ignored
      BY <2>1 DEF Ignored
    <3> QED
      BY <3>1, <3>2, MarkKeeps
  <2>8. PICK u : u = [h EXCEPT ![a].mark = c]
    OBVIOUS
  <2>9. u[i] = IF i = a THEN [l EXCEPT !.mark = c] ELSE l
    BY <2>3, <2>5, <2>6, <2>8
  <2> QED
    BY <2>1, <2>2, <2>3, <2>6, <2>7, <2>8, <2>9
<1>9. ASSUME OtherCallFails PROVE file'[i] = file[i]
  BY <1>9 DEF OtherCallFails
<1>10. ~Stop /\ ~StartUp /\ ~\E j \in 1..MaxLines, l \in HandLines[kind] : Edit(j, l)
  BY DEF Stop, StartUp, Edit
<1>11. file'[i] = file[i] \/ file'[i].mark = ";"
  BY <1>5, <1>6, <1>7, <1>8, <1>9, <1>10 DEF Next
<1> QED
  BY <1>3, <1>11

\* A search, a deletion and an addition leave good lines good; a line is marked
\* as bad although it is not only by a process whose errno is ERANGE.
THEOREM GoodLinesStayGood == Spec => GoodLinesSurvive
<1>1. LinesAreMeant /\ [Next]_vars =>
        [up /\ up' =>
           \A i \in DOMAIN file : Says(file[i]) /\ file'[i].mark \in {"?", "@"}
                                    => errno' = "range"]_vars
  BY GoodLineStep
<1> QED
  BY <1>1, LinesAlwaysMeant, PTL DEF Spec, GoodLinesSurvive

-----------------------------------------------------------------------------
(* What a start leaves to be found. *)

\* Of the indices in S, the number of those up to n, which follows i.
RankGrows(S, i, n) ==
    /\ RankIn(S, i) \in Nat
    /\ n \in S => RankIn(S, n) = RankIn(S, i) + 1
    /\ n \notin S => RankIn(S, n) = RankIn(S, i)
    /\ (\A j \in S : j <= i) => RankIn(S, i) = Cardinality(S)

LEMMA RankSteps ==
    ASSUME NEW m \in Nat, NEW S \in SUBSET (1..m), NEW i \in Nat
    PROVE  RankGrows(S, i, i + 1) /\ RankIn(S, 0) = 0
<1>1. IsFiniteSet(S) /\ S \subseteq Nat
  BY RankProperties
<1>2. PICK A, B : A = {j \in S : j <= i} /\ B = {j \in S : j <= i + 1}
  OBVIOUS
<1>3. RankIn(S, i) = Cardinality(A) /\ RankIn(S, i + 1) = Cardinality(B)
  BY <1>2 DEF RankIn
<1>4. IsFiniteSet(A) /\ Cardinality(A) \in Nat
  <2>1. A \subseteq S
    BY <1>2
  <2>2. IsFiniteSet(A)
    BY <1>1, <2>1, FS_Subset
  <2> QED
    BY <2>2, FS_CardinalityType
<1>5. ASSUME i + 1 \in S PROVE Cardinality(B) = Cardinality(A) + 1
  <2>1. PICK n : n = i + 1
    OBVIOUS
  <2>2. \A j \in S : j <= n <=> j <= i \/ j = n
    BY <1>1, <2>1
  <2>3. n \in S /\ ~(n <= i) /\ n <= n
    BY <1>5, <2>1
  <2>4. B = {j \in S : j <= n}
    BY <1>2, <2>1
  <2>5. B = A \cup {n}
    BY <1>2, <2>2, <2>3, <2>4
  <2>6. n \notin A
    BY <1>2, <2>3
  <2> QED
    BY <1>4, <2>5, <2>6, FS_AddElement
<1>6. ASSUME i + 1 \notin S PROVE B = A
  <2>1. \A j \in S : j <= i + 1 <=> j <= i
    BY <1>1, <1>6
  <2> QED
    BY <1>2, <2>1
<1>7. ASSUME \A j \in S : j <= i PROVE A = S
  BY <1>2, <1>7
<1>8. RankIn(S, 0) = 0
  <2>1. \A j \in S : ~(j <= 0)
    OBVIOUS
  <2>2. PICK E : E = {j \in S : j <= 0}
    OBVIOUS
  <2>3. E = {}
    BY <2>1, <2>2
  <2> QED
    BY <2>2, <2>3, FS_EmptySet DEF RankIn
<1>9. RankGrows(S, i, i + 1)
  BY <1>3, <1>4, <1>5, <1>6, <1>7 DEF RankGrows
<1> QED
  BY <1>8, <1>9

\* Ranks count the indices.
LEMMA NthOfRank ==
    ASSUME NEW m \in Nat, NEW S \in SUBSET (1..m), NEW i \in S
    PROVE  RankIn(S, i) \in 1..Cardinality(S) /\ NthOf(S, RankIn(S, i)) = i
<1>1. PICK r : r = RankIn(S, i)
  OBVIOUS
<1>2. r \in 1..Cardinality(S)
  BY <1>1, RankProperties
<1>3. PICK j : j = NthOf(S, r)
  OBVIOUS
<1>4. j \in S /\ RankIn(S, j) = r
  BY <1>2, <1>3, NthOfProperties
<1>5. Cardinality(S) \in Nat
  BY RankProperties
<1>6. r \in Nat /\ i \in Nat /\ j \in Nat
  BY <1>2, <1>4, <1>5
<1>7. i < j => RankIn(S, i) < RankIn(S, j)
  BY <1>4, RankProperties
<1>8. j < i => RankIn(S, j) < RankIn(S, i)
  BY <1>4, RankProperties
<1>9. i = j
  BY <1>1, <1>4, <1>6, <1>7, <1>8
<1> QED
  BY <1>1, <1>2, <1>3, <1>9

\* Two searches that have come to the same.
Agree(s, t) == s.errno = t.errno /\ s.rec = t.rec /\ s.over = t.over

LEMMA ExamineAgrees ==
    ASSUME NEW f, NEW h, NEW e, NEW a, NEW b, NEW r, NEW o \in BOOLEAN, NEW i, NEW j, NEW k,
           f[i].whole \in BOOLEAN, Alike(f[i], h[j])
    PROVE  Agree(Examine(Searching(f, e, a, r, o), i, k), Examine(Searching(h, e, b, r, o), j, k))
<1>1. PICK s, t, u, v : /\ s = Searching(f, e, a, r, o) /\ t = Searching(h, e, b, r, o)
                        /\ u = Examine(s, i, k) /\ v = Examine(t, j, k)
  OBVIOUS
<1>2. PICK l, p : l = f[i] /\ p = Parse(l.text, e)
  OBVIOUS
<1>3. /\ h[j].text = l.text /\ h[j].whole = l.whole /\ l.whole \in BOOLEAN
      /\ h[j].mark \in Ignored <=> l.mark \in Ignored
  BY <1>2 DEF Alike
<1>4. Examined(f, e, a, r, o, i, k) /\ Examined(h, e, b, r, o, j, k)
  BY <1>2, <1>3, ExamineSteps
<1>5. PICK c : c = TRUE
  OBVIOUS
<1> SUFFICES Agree(u, v)
  BY <1>1
<1>6. CASE o \/ (l.whole /\ l.mark \in Ignored)
  <2>1. u = s
    BY <1>1, <1>2, <1>4, <1>6 DEF Examined
  <2>2. v = t
    BY <1>1, <1>3, <1>4, <1>6 DEF Examined
  <2> QED
    BY <1>1, <2>1, <2>2, SearchingFields DEF Agree
<1>7. CASE ~o /\ ~l.whole
  <2>1. u = Searching(f, e, a, r, c)
    BY <1>1, <1>2, <1>4, <1>5, <1>7 DEF Examined
  <2>2. v = Searching(h, e, b, r, c)
    BY <1>1, <1>3, <1>4, <1>5, <1>7 DEF Examined
  <2> QED
    BY <2>1, <2>2, SearchingFields DEF Agree
<1>8. CASE ~o /\ l.whole /\ l.mark \notin Ignored /\ Failed(p)
  <2>1. PICK x, y, e2 : x = Marked(f, i) /\ y = Marked(h, j) /\ e2 = p.errno
    OBVIOUS
  <2>2. u = Searching(x, e2, a, r, o)
    BY <1>1, <1>2, <1>4, <1>8, <2>1 DEF Examined
  <2>3. v = Searching(y, e2, b, r, o)
    BY <1>1, <1>2, <1>3, <1>4, <1>8, <2>1 DEF Examined
  <2> QED
    BY <2>2, <2>3, SearchingFields DEF Agree
<1>9. CASE ~o /\ l.whole /\ l.mark \notin Ignored /\ ~Failed(p) /\ Key(Reading(p)) = k
  <2>1. PICK q : q = Reading(p)
    OBVIOUS
  <2>2. u = Searching(f, e, i, q, c)
    BY <1>1, <1>2, <1>4, <1>5, <1>9, <2>1 DEF Examined
  <2>3. v = Searching(h, e, j, q, c)
    BY <1>1, <1>2, <1>3, <1>4, <1>5, <1>9, <2>1 DEF Examined
  <2> QED
    BY <2>2, <2>3, SearchingFields DEF Agree
<1>10. CASE ~o /\ l.whole /\ l.mark \notin Ignored /\ ~Failed(p) /\ Key(Reading(p)) # k
  <2>1. u = s
    BY <1>1, <1>2, <1>4, <1>10 DEF Examined
  <2>2. v = t
    BY <1>1, <1>2, <1>3, <1>4, <1>10 DEF Examined
  <2> QED
    BY <1>1, <2>1, <2>2, SearchingFields DEF Agree
<1> QED
  BY <1>3, <1>6, <1>7, <1>8, <1>9, <1>10

\* The lines a start keeps.
Keeps(f) == {i \in Reached(f) : f[i].mark # ";"}

\* A line that is kept is found at its rank.
LEMMA StartedLines ==
    ASSUME NEW k, NEW f \in Seq(Meant(k))
    PROVE  /\ Started(f) \in Seq(Meant(k)) /\ Len(Started(f)) = Cardinality(Keeps(f))
           /\ \A i \in Keeps(f) : /\ RankIn(Keeps(f), i) \in 1..Len(Started(f))
                                  /\ Alike(f[i], Started(f)[RankIn(Keeps(f), i)])
<1>1. PICK S, h, c, M : S = Keeps(f) /\ h = Started(f) /\ c = Copied(f) /\ M = Meant(k)
  OBVIOUS
<1>2. c \in Seq(M) /\ Len(c) = Cardinality(S) /\ \A i \in 1..Len(c) : c[i] = f[NthOf(S, i)]
  BY <1>1, CopiedKeeps DEF Keeps
<1>3. /\ h \in Seq(M) /\ Len(h) = Len(c)
      /\ \A i \in 1..Len(h) : Alike(c[i], h[i])
  BY <1>1, StartUpKeeps
<1>4. Len(f) \in Nat /\ DOMAIN f = 1..Len(f)
  BY LenProperties
<1>5. S \in SUBSET (1..Len(f))
  BY <1>1, <1>4 DEF Keeps, Reached
<1>6. ASSUME NEW i \in S
      PROVE  RankIn(S, i) \in 1..Len(h) /\ Alike(f[i], h[RankIn(S, i)])
  <2>1. PICK r : r = RankIn(S, i)
    OBVIOUS
  <2>2. r \in 1..Len(h) /\ r \in 1..Len(c)
    BY <1>2, <1>3, <1>4, <1>5, <2>1, NthOfRank
  <2>3. NthOf(S, r) = i
    BY <1>4, <1>5, <2>1, NthOfRank
  <2>4. c[r] = f[i]
    BY <1>2, <2>2, <2>3
  <2>5. Alike(f[i], h[r])
    BY <1>3, <2>2, <2>4
  <2> QED
    BY <2>1, <2>2, <2>5
<1> QED
  BY <1>1, <1>2, <1>3, <1>6

\* Up to line i of the file before the start, while its lines are whole, the
\* search in it has come to the same as the one in the file after the start has
\* up to the lines that are kept; at a line that is not whole it ends with what
\* the other one finds.
InStep(f, i, s, t, u) ==
    \/ (\A j \in 1..i : f[j].whole) /\ Agree(s, t)
    \/ s.over /\ s.rec = u.rec

LEMMA ScansInStep ==
    ASSUME kind \in Kinds, NEW f \in Seq(Meant(kind)), NEW k, NEW g, NEW w,
           Scan(f, "none", k, g), Scan(Started(f), "none", k, w)
    PROVE  \A i \in 0..Len(f) :
             InStep(f, i, g[i], w[RankIn(Keeps(f), i)], w[Len(Started(f))])
<1>1. PICK S, h, e : S = Keeps(f) /\ h = Started(f) /\ e = "none"
  OBVIOUS
<1>2. /\ h \in Seq(Meant(kind)) /\ Len(h) = Cardinality(S)
      /\ \A i \in S : RankIn(S, i) \in 1..Len(h) /\ Alike(f[i], h[RankIn(S, i)])
  BY <1>1, StartedLines
<1>3. /\ Len(f) \in Nat /\ DOMAIN f = 1..Len(f) /\ Len(h) \in Nat
      /\ \A j \in 1..Len(f) : f[j] \in Meant(kind)
  BY <1>2, LenProperties
<1>4. S \in SUBSET (1..Len(f))
  BY <1>1, <1>3 DEF Keeps, Reached
<1>5. /\ Scan(f, e, k, g) /\ Scan(h, e, k, w)
      /\ g[0] = Begin(f, e) /\ \A i \in 0..(Len(f) - 1) : g[i + 1] = Examine(g[i], i + 1, k)
      /\ w[0] = Begin(h, e) /\ \A i \in 0..(Len(h) - 1) : w[i + 1] = Examine(w[i], i + 1, k)
  BY <1>1 DEF Scan
<1> DEFINE T == {i \in 0..Len(f) : InStep(f, i, g[i], w[RankIn(S, i)], w[Len(h)])}
<1>6. 0 \in T
  <2>1. RankIn(S, 0) = 0
    BY <1>3, <1>4, RankSteps
  <2>2. Agree(g[0], w[0])
    BY <1>5 DEF Begin, Agree
  <2>3. \A j \in 1..0 : f[j].whole
    OBVIOUS
  <2>4. InStep(f, 0, g[0], w[RankIn(S, 0)], w[Len(h)])
    BY <2>1, <2>2, <2>3 DEF InStep
  <2> QED
    BY <1>3, <2>4
<1>7. ASSUME NEW i \in 0..(Len(f) - 1), i \in T PROVE i + 1 \in T
  <2>1. i \in 0..Len(f) /\ i \in Nat
    BY <1>3
  <2>2. PICK n, r, q : n = i + 1 /\ r = RankIn(S, i) /\ q = RankIn(S, n)
    OBVIOUS
  <2>3. n \in 1..Len(f) /\ n \in 0..Len(f) /\ n \in Nat /\ g[n] = Examine(g[i], n, k)
    BY <1>3, <1>5, <2>1, <2>2
  <2>4. /\ r \in Nat /\ (n \in S => q = r + 1) /\ (n \notin S => q = r)
        /\ (\A j \in S : j <= i) => r = Len(h)
    <3>1. RankGrows(S, i, n)
      BY <1>3, <1>4, <2>1, <2>2, RankSteps
    <3> QED
      BY <1>2, <2>2, <3>1 DEF RankGrows
  <2>5. PICK fi, x, a, b, o : /\ g[i] = Searching(fi, x, a, b, o)
                              /\ fi \in Seq(Meant(kind)) /\ SameButMarks(f, fi, i)
                              /\ x \in {e, "range"} /\ o \in BOOLEAN
    <3>1. \A v \in 0..Len(f) : \E h1, x, a, b, o :
            /\ g[v] = Searching(h1, x, a, b, o)
            /\ h1 \in Seq(Meant(kind)) /\ SameButMarks(f, h1, v)
            /\ x \in {e, "range"} /\ o \in BOOLEAN
      <4>1. Scan(f, e, k, g)
        BY <1>5
      <4> QED
        BY <4>1, ScanKeeps
    <3> QED
      BY <2>1, <3>1
  <2>6. fi[n] = f[n]
    BY <1>3, <2>1, <2>2, <2>3, <2>5 DEF SameButMarks
  <2>7. PICK l : l = f[n]
    OBVIOUS
  <2>8. l.whole \in BOOLEAN
    BY <1>3, <2>3, <2>7, MeantFields
  <2>9. Examined(fi, x, a, b, o, n, k)
    BY <2>5, <2>6, <2>7, <2>8, ExamineSteps
  <2>10. g[i].errno = x /\ g[i].rec = b /\ g[i].over = o
    BY <2>5, SearchingFields
  <2>11. InStep(f, i, g[i], w[r], w[Len(h)])
    BY <1>7, <2>2
  <2> SUFFICES InStep(f, n, g[n], w[q], w[Len(h)])
    BY <2>2, <2>3
  <2>12. CASE g[i].over /\ g[i].rec = w[Len(h)].rec
    <3>1. g[n] = g[i]
      BY <2>3, <2>5, <2>9, <2>10, <2>12 DEF Examined
    <3> QED
      BY <2>12, <3>1 DEF InStep
  <2>13. CASE (\A j \in 1..i : f[j].whole) /\ Agree(g[i], w[r])
    <3>1. w[r].errno = x /\ w[r].rec = b /\ w[r].over = o
      BY <2>10, <2>13 DEF Agree
    <3>2. CASE ~l.whole
      <4>1. \A j \in S : j <= i
        <5>1. ASSUME NEW j \in S, n <= j PROVE FALSE
          <6>1. \A v \in 1..j : f[v].whole
            BY <1>1, <5>1 DEF Keeps, Reached
          <6>2. n \in 1..j
            BY <1>4, <2>3, <5>1
          <6> QED
            BY <2>7, <3>2, <6>1, <6>2
        <5>2. \A j \in S : j \in Nat /\ (j <= i \/ n <= j)
          BY <1>4, <2>1, <2>2
        <5> QED
          BY <5>1, <5>2
      <4>2. r = Len(h)
        BY <2>4, <4>1
      <4>3. PICK c : c = TRUE
        OBVIOUS
      <4>4. o => g[n] = Searching(fi, x, a, b, o)
        BY <2>3, <2>5, <2>9 DEF Examined
      <4>5. CASE g[n] = Searching(fi, x, a, b, c)
        <5>1. g[n].over = c /\ g[n].rec = b
          BY <4>5, SearchingFields
        <5> QED
          BY <3>1, <4>2, <4>3, <5>1 DEF InStep
      <4>6. CASE o
        <5>1. g[n] = Searching(fi, x, a, b, o)
          BY <4>4, <4>6
        <5>2. g[n].over = o /\ g[n].rec = b
          BY <5>1, SearchingFields
        <5> QED
          BY <3>1, <4>2, <4>6, <5>2 DEF InStep
      <4>7. ~o => g[n] = Searching(fi, x, a, b, c)
        BY <2>3, <2>5, <2>6, <2>7, <2>9, <3>2, <4>3 DEF Examined
      <4> QED
        BY <2>5, <4>5, <4>6, <4>7
    <3>3. CASE l.whole
      <4>1. \A j \in 1..n : f[j].whole
        <5>1. \A j \in 1..n : j \in 1..i \/ j = n
          BY <2>1, <2>2
        <5> QED
          BY <2>7, <2>13, <3>3, <5>1
      <4>2. n \in Reached(f)
        BY <1>3, <2>3, <4>1 DEF Reached
      <4>3. CASE n \notin S
        <5>1. l.mark = ";"
          BY <1>1, <2>7, <4>2, <4>3 DEF Keeps
        <5>2. l.mark \in Ignored
          BY <5>1 DEF Ignored
        <5>3. g[n] = g[i]
          BY <2>3, <2>5, <2>6, <2>7, <2>9, <3>3, <5>2 DEF Examined
        <5>4. Agree(g[n], w[q])
          BY <2>4, <2>13, <4>3, <5>3
        <5> QED
          BY <4>1, <5>4 DEF InStep
      <4>4. CASE n \in S
        <5>1. q = r + 1 /\ q \in 1..Len(h) /\ Alike(f[n], h[q])
          BY <1>2, <2>2, <2>4, <4>4
        <5>2. r \in 0..(Len(h) - 1) /\ r \in 0..Len(h) /\ w[q] = Examine(w[r], q, k)
          BY <1>3, <1>5, <2>4, <5>1
        <5>3. PICK hi, y, c, d, u : /\ w[r] = Searching(hi, y, c, d, u)
                                    /\ hi \in Seq(Meant(kind)) /\ SameButMarks(h, hi, r)
                                    /\ y \in {e, "range"} /\ u \in BOOLEAN
          BY <1>2, <1>5, <5>2, ScanKeeps
        <5>4. hi[q] = h[q]
          BY <1>3, <2>4, <5>1, <5>3 DEF SameButMarks
        <5>5. y = x /\ d = b /\ u = o
          BY <3>1, <5>3, SearchingFields
        <5>6. Alike(fi[n], hi[q]) /\ fi[n].whole \in BOOLEAN
          BY <2>6, <2>7, <2>8, <5>1, <5>4
        <5>7. Agree(Examine(Searching(fi, x, a, b, o), n, k), Examine(Searching(hi, x, c, b, o), q, k))
          BY <2>5, <5>6, ExamineAgrees
        <5>8. Agree(g[n], w[q])
          BY <2>3, <2>5, <5>2, <5>3, <5>5, <5>7
        <5> QED
          BY <4>1, <5>8 DEF InStep
      <4> QED
        BY <4>3, <4>4
    <3> QED
      BY <2>8, <3>2, <3>3
  <2> QED
    BY <2>11, <2>12, <2>13 DEF InStep
<1> HIDE DEF T
<1>8. \A i \in 0..Len(f) : i \in T
  BY <1>3, <1>6, <1>7, UpTo
<1> QED
  BY <1>1, <1>8 DEF T

LEMMA StartedFinds ==
    ASSUME kind \in Kinds, NEW f \in Seq(Meant(kind)), NEW k
    PROVE  Search(Started(f), "none", k).rec = Search(f, "none", k).rec
<1>1. PICK S, h, e : S = Keeps(f) /\ h = Started(f) /\ e = "none"
  OBVIOUS
<1>2. h \in Seq(Meant(kind)) /\ Len(h) = Cardinality(S)
  BY <1>1, StartedLines
<1>3. Len(f) \in Nat /\ Len(h) \in Nat /\ DOMAIN f = 1..Len(f)
  BY <1>2, LenProperties
<1>4. PICK g : Scan(f, e, k, g) /\ Search(f, e, k) = g[Len(f)]
  BY <1>3, SearchScan
<1>5. PICK w : Scan(h, e, k, w) /\ Search(h, e, k) = w[Len(h)]
  BY <1>3, SearchScan
<1>6. \A i \in 0..Len(f) : InStep(f, i, g[i], w[RankIn(S, i)], w[Len(h)])
  BY <1>1, <1>4, <1>5, ScansInStep
<1>7. PICK n \in 0..Len(f) : n = Len(f)
  <2>1. Len(f) \in Nat
    BY <1>3
  <2> QED
    BY <2>1
<1>8. RankIn(S, n) = Len(h)
  <2>1. S \in SUBSET (1..n)
    BY <1>1, <1>3, <1>7 DEF Keeps, Reached
  <2>2. n \in Nat
    BY <1>3, <1>7
  <2>3. RankGrows(S, n, n + 1)
    BY <2>1, <2>2, RankSteps
  <2>4. \A j \in S : j <= n
    BY <2>1
  <2> QED
    BY <1>2, <2>3, <2>4 DEF RankGrows
<1>9. InStep(f, n, g[n], w[Len(h)], w[Len(h)])
  BY <1>6, <1>8
<1>10. g[n].rec = w[Len(h)].rec
  BY <1>9 DEF InStep, Agree
<1> QED
  BY <1>1, <1>4, <1>5, <1>7, <1>10

LEMMA RestartStep ==
    ASSUME LinesAreMeant, Next, ~up, up', NEW k
    PROVE  Search(file', "none", k).rec = Search(file, "none", k).rec
<1>1. kind \in Kinds /\ file \in Seq(Meant(kind))
  BY DEF LinesAreMeant
<1>2. StartUp
  BY DEF Next, Add, Find, Delete, ListAll, OtherCallFails, Stop, Edit
<1>3. PICK h : h = file'
  OBVIOUS
<1>4. h = Started(file)
  BY <1>2, <1>3 DEF StartUp, Started
<1>5. Search(h, "none", k).rec = Search(file, "none", k).rec
  BY <1>1, <1>4, StartedFinds
<1> QED
  BY <1>3, <1>5

\* Whatever the lines are, deleted, marked, malformed or cut short, a restart
\* does not change what a search for a key finds.
THEOREM RestartChangesNoAnswer == Spec => RestartKeepsAnswers
<1>1. LinesAreMeant /\ [Next]_vars =>
        [~up /\ up' =>
           \A k \in Keys : Search(file', "none", k).rec = Search(file, "none", k).rec]_vars
  BY RestartStep
<1> QED
  BY <1>1, LinesAlwaysMeant, PTL DEF Spec, RestartKeepsAnswers
=============================================================================

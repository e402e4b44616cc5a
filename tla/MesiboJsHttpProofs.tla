-------------------------- MODULE MesiboJsHttpProofs --------------------------
(***************************************************************************)
(* Proofs about MesiboJsHttp for any number of requests and Http objects,   *)
(* any responses and any size of the two fields: the life of the contexts,  *)
(* what the callbacks see, and the refinements of HttpExchange and Isolates.*)
(***************************************************************************)
EXTENDS MesiboJsHttp, WellFoundedInduction, TLAPS

-----------------------------------------------------------------------------
(* Strings and memory                                                      *)

\* The texts of bounded length are the short sequences
LEMMA TextSeq ==
    ASSUME NEW n \in Nat
    PROVE  Texts(n) = {s \in Seq(Bytes) : Len(s) <= n}
<1>1. ASSUME NEW s \in Texts(n) PROVE s \in Seq(Bytes) /\ Len(s) <= n
  <2>1. PICK k \in 0 .. n : s \in [1 .. k -> Bytes]
    BY DEF Texts
  <2> QED BY <2>1
<1>2. ASSUME NEW s \in Seq(Bytes), Len(s) <= n PROVE s \in Texts(n)
  <2>1. Len(s) \in 0 .. n /\ s \in [1 .. Len(s) -> Bytes]
    BY <1>2
  <2> QED BY <2>1 DEF Texts
<1> QED BY <1>1, <1>2

\* The memory of a context is a sequence of bytes
LEMMA MemorySeq ==
    /\ MemoryLen \in Nat /\ TypeLen < MemoryLen
    /\ \A m \in [1 .. MemoryLen -> Bytes] : m \in Seq(Bytes) /\ Len(m) = MemoryLen
BY ResponseAssumption DEF MemoryLen

\* memcpy writes bytes over bytes, and nothing else
LEMMA MemcpyType ==
    ASSUME NEW m \in [1 .. MemoryLen -> Bytes], NEW n \in Seq(Bytes), NEW at \in Nat
    PROVE  /\ Memcpy(m, at, n) \in [1 .. MemoryLen -> Bytes]
           /\ \A i \in 1 .. MemoryLen :
                 Memcpy(m, at, n)[i] = IF i - at \in 1 .. Len(n) THEN n[i - at] ELSE m[i]
<1>1. Len(m) = MemoryLen
  BY MemorySeq
<1>2. \A i \in 1 .. MemoryLen :
         (IF i - at \in 1 .. Len(n) THEN n[i - at] ELSE m[i]) \in Bytes
  OBVIOUS
<1> QED BY <1>1, <1>2 DEF Memcpy

\* A byte string is cut behind its first n bytes
Cut(s, n) ==
    /\ n \in 0 .. Len(s)
    /\ \A i \in 1 .. n : s[i] # Nul
    /\ n < Len(s) => s[n + 1] = Nul

\* There is no other place to cut a C string
LEMMA CStringAt ==
    ASSUME NEW s \in Seq(Bytes), NEW n, Cut(s, n)
    PROVE  CString(s) = SubSeq(s, 1, n)
<1> DEFINE P(k) == /\ \A i \in 1 .. k : s[i] # Nul
                   /\ k < Len(s) => s[k + 1] = Nul
<1>1. n \in 0 .. Len(s) /\ P(n)
  BY DEF Cut
<1>2. \A k \in 0 .. Len(s) : P(k) => k = n
  <2> SUFFICES ASSUME NEW k \in 0 .. Len(s), P(k), k # n PROVE FALSE
    OBVIOUS
  <2>1. CASE k < n
    <3>1. k + 1 \in 1 .. n /\ k < Len(s)
      BY <1>1, <2>1
    <3> QED BY <1>1, <3>1
  <2>2. CASE n < k
    <3>1. n + 1 \in 1 .. k /\ n < Len(s)
      BY <1>1, <2>2
    <3> QED BY <1>1, <3>1
  <2> QED BY <1>1, <2>1, <2>2
<1>3. (CHOOSE k \in 0 .. Len(s) : P(k)) = n
  BY <1>1, <1>2
<1> QED BY <1>3 DEF CString

\* A set of numbers that is not empty has a least element
LEMMA LeastElement ==
    ASSUME NEW T, T \subseteq Nat, T # {}
    PROVE  \E x \in T : \A y \in T : x <= y
<1> DEFINE R == {p \in Nat \X Nat : p[1] < p[2]}
<1>1. IsWellFoundedOn(R, Nat)
  BY NatLessThanWellFounded DEF OpToRel
<1>2. PICK x \in T : \A y \in T : ~(<<y, x>> \in R)
  <2> HIDE DEF R
  <2> QED BY <1>1, WFMin
<1>3. ASSUME NEW y \in T PROVE x <= y
  <2>1. y \in Nat /\ x \in Nat /\ <<y, x>> \notin R
    BY <1>2
  <2>2. y < x => <<y, x>> \in R
    BY <2>1
  <2> QED BY <2>1, <2>2
<1> QED BY <1>3

\* Every byte string can be cut: there is a first zero byte, or none at all
LEMMA CutExists ==
    ASSUME NEW s \in Seq(Bytes)
    PROVE  \E n \in 0 .. Len(s) : Cut(s, n)
<1> DEFINE T == {n \in 0 .. Len(s) : n < Len(s) => s[n + 1] = Nul}
<1>1. T \subseteq Nat /\ Len(s) \in T
  OBVIOUS
<1>2. PICK m \in T : \A y \in T : m <= y
  BY <1>1, LeastElement
<1>3. \A i \in 1 .. m : s[i] # Nul
  <2> SUFFICES ASSUME NEW i \in 1 .. m, s[i] = Nul PROVE FALSE
    OBVIOUS
  <2>1. i - 1 \in 0 .. Len(s) /\ i - 1 < m /\ s[i - 1 + 1] = Nul
    OBVIOUS
  <2>2. i - 1 \in T
    BY <2>1
  <2>3. m <= i - 1
    <3> HIDE DEF T
    <3> QED BY <1>2, <2>2
  <2>4. m \in Nat
    BY <1>1
  <2> QED BY <2>1, <2>3, <2>4
<1> QED BY <1>3 DEF Cut

\* A C string is no longer than the bytes it is read from
LEMMA CStringType ==
    ASSUME NEW s \in Seq(Bytes)
    PROVE  CString(s) \in Seq(Bytes) /\ Len(CString(s)) <= Len(s)
<1>1. PICK n \in 0 .. Len(s) : Cut(s, n)
  BY CutExists
<1>2. CString(s) = SubSeq(s, 1, n)
  BY <1>1, CStringAt
<1>3. SubSeq(s, 1, n) \in Seq(Bytes) /\ Len(SubSeq(s, 1, n)) = n
  OBVIOUS
<1> QED BY <1>2, <1>3

\* A C string begins with any bytes that have no zero byte among them
LEMMA CStringBegins ==
    ASSUME NEW s \in Seq(Bytes), NEW p \in Seq(Bytes \ {Nul}), Len(p) <= Len(s),
           \A i \in 1 .. Len(p) : s[i] = p[i]
    PROVE  \E tail \in Texts(Len(s)) : CString(s) = p \o tail
<1>1. PICK n \in 0 .. Len(s) : Cut(s, n)
  BY CutExists
<1>2. CString(s) = SubSeq(s, 1, n)
  BY <1>1, CStringAt
<1>3. Len(p) <= n
  <2> SUFFICES ASSUME n < Len(p) PROVE FALSE
    OBVIOUS
  <2>1. s[n + 1] = Nul /\ n + 1 \in 1 .. Len(p)
    BY <1>1 DEF Cut
  <2> QED BY <2>1
<1> DEFINE tail == SubSeq(s, Len(p) + 1, n)
<1>4. tail \in Seq(Bytes) /\ Len(tail) = n - Len(p)
  BY <1>3
<1>5. \A i \in 1 .. Len(tail) : tail[i] = s[Len(p) + i]
  BY <1>3, <1>4
<1>6. SubSeq(s, 1, n) = p \o tail
  <2>1. SubSeq(s, 1, n) \in Seq(Bytes) /\ Len(SubSeq(s, 1, n)) = n
    OBVIOUS
  <2>2. \A i \in 1 .. n : SubSeq(s, 1, n)[i] = s[i]
    OBVIOUS
  <2> HIDE DEF tail
  <2>3. p \o tail \in Seq(Bytes) /\ Len(p \o tail) = n
    BY <1>4
  <2>4. \A i \in 1 .. n : (p \o tail)[i] = s[i]
    BY <1>3, <1>4, <1>5
  <2> QED BY <2>1, <2>2, <2>3, <2>4
<1>7. tail \in Texts(Len(s))
  <2>1. Len(s) \in Nat /\ Len(tail) <= Len(s)
    BY <1>3, <1>4
  <2> HIDE DEF tail
  <2> QED BY <1>4, <2>1, TextSeq
<1> QED BY <1>2, <1>6, <1>7

\* A text that a zero byte follows is the C string
LEMMA CStringEnds ==
    ASSUME NEW s \in Seq(Bytes), NEW p \in Seq(Bytes \ {Nul}), Len(p) < Len(s),
           \A i \in 1 .. Len(p) : s[i] = p[i],
           s[Len(p) + 1] = Nul
    PROVE  CString(s) = p
<1>1. Cut(s, Len(p))
  BY DEF Cut
<1>2. CString(s) = SubSeq(s, 1, Len(p))
  BY <1>1, CStringAt
<1>3. SubSeq(s, 1, Len(p)) = p
  <2>1. SubSeq(s, 1, Len(p)) \in Seq(Bytes) /\ Len(SubSeq(s, 1, Len(p))) = Len(p)
    OBVIOUS
  <2>2. \A i \in 1 .. Len(p) : SubSeq(s, 1, Len(p))[i] = p[i]
    OBVIOUS
  <2> QED BY <2>1, <2>2
<1> QED BY <1>2, <1>3

\* Zero bytes behind a text do not change it as a C string
LEMMA CStringPadded ==
    ASSUME NEW s \in Seq(Bytes), NEW b \in Seq(Bytes), Len(b) <= Len(s),
           \A i \in 1 .. Len(b) : s[i] = b[i],
           \A i \in Len(b) + 1 .. Len(s) : s[i] = Nul
    PROVE  CString(s) = CString(b)
<1>1. PICK n \in 0 .. Len(b) : Cut(b, n)
  BY CutExists
<1>2. Cut(s, n)
  BY <1>1 DEF Cut
<1>3. SubSeq(s, 1, n) = SubSeq(b, 1, n)
  <2>1. /\ SubSeq(s, 1, n) \in Seq(Bytes) /\ Len(SubSeq(s, 1, n)) = n
        /\ SubSeq(b, 1, n) \in Seq(Bytes) /\ Len(SubSeq(b, 1, n)) = n
    OBVIOUS
  <2>2. \A i \in 1 .. n : SubSeq(s, 1, n)[i] = s[i] /\ SubSeq(b, 1, n)[i] = b[i]
    OBVIOUS
  <2>3. \A i \in 1 .. n : s[i] = b[i]
    OBVIOUS
  <2> QED BY <2>1, <2>2, <2>3
<1> QED BY <1>1, <1>2, <1>3, CStringAt

\* A text without a zero byte is a C string as it is
LEMMA CStringWhole ==
    ASSUME NEW s \in Seq(Bytes), \A i \in 1 .. Len(s) : s[i] # Nul
    PROVE  CString(s) = s
<1>1. Cut(s, Len(s))
  BY DEF Cut
<1>2. SubSeq(s, 1, Len(s)) = s
  OBVIOUS
<1> QED BY <1>1, <1>2, CStringAt

-----------------------------------------------------------------------------
(* Type correctness, and who works on which request                        *)

\* Nothing has been received at first
LEMMA TypeInit == Init => TypeOK
<1> SUFFICES ASSUME Init PROVE TypeOK
  OBVIOUS
<1>1. <<>> \in Texts(BufferLen)
  <2>1. BufferLen \in Nat /\ <<>> \in Seq(Bytes) /\ Len(<<>>) <= BufferLen
    BY ResponseAssumption
  <2> QED BY <2>1, TextSeq
<1>2. NoResponse \in ResponseText
  BY <1>1 DEF NoResponse, ResponseText
<1>3. /\ [i \in 1 .. MemoryLen |-> Nul] \in [1 .. MemoryLen -> Bytes]
      /\ 0 \in 0 .. MemoryLen /\ 0 \in 0 .. BufferLen
  BY MemorySeq, ResponseAssumption
<1> QED BY <1>2, <1>3 DEF Init, TypeOK

\* What the type invariant says of the strings of one request
LEMMA SentType ==
    ASSUME TypeOK, NEW r \in Requests
    PROVE  /\ sent[r] \in ResponseText
           /\ sent[r].body \in Seq(Bytes) /\ Len(sent[r].body) <= BufferLen
           /\ sent[r].type \in Seq(Bytes \ {Nul}) /\ Len(sent[r].type) < MemoryLen
           /\ memory[r] \in [1 .. MemoryLen -> Bytes]
           /\ memory[r] \in Seq(Bytes) /\ Len(memory[r]) = MemoryLen
<1>1. sent[r] \in ResponseText /\ memory[r] \in [1 .. MemoryLen -> Bytes]
  BY DEF TypeOK
<1>2. sent[r].body \in Texts(BufferLen) /\ sent[r].type \in ContentTypes \cup {<<>>}
  BY <1>1 DEF ResponseText
<1>3. sent[r].body \in Seq(Bytes) /\ Len(sent[r].body) <= BufferLen
  BY <1>2, TextSeq, ResponseAssumption
<1>4. <<>> \in Seq(Bytes \ {Nul}) /\ Len(<<>>) < MemoryLen
  BY MemorySeq, ResponseAssumption
<1> QED BY <1>1, <1>2, <1>3, <1>4, MemorySeq, ResponseAssumption

\* A response made of any texts that fit into a context can be shown
LEMMA ShownType ==
    ASSUME NEW st \in Statuses \cup {0}, NEW ty \in Texts(MemoryLen),
           NEW b \in Texts(MemoryLen)
    PROVE  Shown([status |-> st, type |-> ty, body |-> b]) \in ObjectText
<1>1. NewFromUtf8(ty) \in Strings /\ NewFromUtf8(b) \in Strings
  BY Utf8Assumption
<1> QED BY <1>1 DEF Shown, ObjectText

\* The buffer of a context, as a sequence of bytes
LEMMA BufferSeq ==
    ASSUME NEW m \in [1 .. MemoryLen -> Bytes]
    PROVE  /\ SubSeq(m, TypeLen + 1, MemoryLen) \in Seq(Bytes)
           /\ Len(SubSeq(m, TypeLen + 1, MemoryLen)) = BufferLen
           /\ \A i \in 1 .. BufferLen :
                 SubSeq(m, TypeLen + 1, MemoryLen)[i] = m[TypeLen + i]
<1>1. m \in Seq(Bytes) /\ Len(m) = MemoryLen
  BY MemorySeq
<1>2. MemoryLen = TypeLen + BufferLen /\ TypeLen \in Nat /\ BufferLen \in Nat
  BY ResponseAssumption DEF MemoryLen
<1>3. \A i \in TypeLen + 1 .. MemoryLen : m[i] \in Bytes
  BY <1>2
<1> QED BY <1>1, <1>2, <1>3

\* What a context holds can be shown by an Http object
LEMMA ResponseType ==
    ASSUME TypeOK, NEW r \in Requests
    PROVE  Shown(Response(r)) \in ObjectText
<1> DEFINE b == SubSeq(memory[r], TypeLen + 1, MemoryLen)
<1>1. CString(memory[r]) \in Texts(MemoryLen)
  <2>1. CString(memory[r]) \in Seq(Bytes) /\ Len(CString(memory[r])) <= MemoryLen
    BY SentType, CStringType
  <2> QED BY <2>1, TextSeq, MemorySeq
<1>2. CString(b) \in Texts(MemoryLen)
  <2>1. b \in Seq(Bytes) /\ Len(b) <= MemoryLen
    BY SentType, BufferSeq, MemorySeq, ResponseAssumption DEF MemoryLen
  <2> HIDE DEF b
  <2>2. CString(b) \in Seq(Bytes) /\ Len(CString(b)) <= MemoryLen
    BY <2>1, CStringType, MemorySeq
  <2> QED BY <2>2, TextSeq, MemorySeq
<1>3. status[r] \in Statuses \cup {0}
  BY DEF TypeOK
<1> QED BY <1>1, <1>2, <1>3, ShownType DEF Response, TypeString, BodyString

\* The callbacks that collect the response keep the type invariant
LEMMA TypeCollect ==
    ASSUME TypeOK, NEW r \in Requests, datalen[r] = Len(sent[r].body), Collect(r)
    PROVE  TypeOK'
<1> USE DEF TypeOK, fields, reported
<1>1. CASE OnStatus(r)
  <2>1. PICK st \in Statuses, ty \in ContentTypes :
          /\ status' = [status EXCEPT ![r] = st]
          /\ memory' = [memory EXCEPT ![r] = Memcpy(memory[r], 0, ty)]
          /\ sent' = [sent EXCEPT ![r] = [status |-> st, type |-> ty, body |-> sent[r].body]]
          /\ longest' = [longest EXCEPT ![r] = Longer(longest[r], Len(ty))]
    BY <1>1 DEF OnStatus
  <2>2. ty \in Seq(Bytes) /\ Len(ty) \in 0 .. MemoryLen
    BY ResponseAssumption, MemorySeq
  <2>3. Memcpy(memory[r], 0, ty) \in [1 .. MemoryLen -> Bytes]
    BY <2>2, MemcpyType
  <2>4. [status |-> st, type |-> ty, body |-> sent[r].body] \in ResponseText
    BY SentType DEF ResponseText
  <2>5. Longer(longest[r], Len(ty)) \in 0 .. MemoryLen
    BY <2>2 DEF Longer
  <2>6. /\ sent' \in [Requests -> ResponseText] /\ longest' \in [Requests -> 0 .. MemoryLen]
        /\ memory' \in [Requests -> [1 .. MemoryLen -> Bytes]]
        /\ status' \in [Requests -> Statuses \cup {0}]
    BY <2>1, <2>3, <2>4, <2>5
  <2> QED BY <1>1, <2>6 DEF OnStatus
<1>2. CASE OnStatusWithoutType(r)
  BY <1>2 DEF OnStatusWithoutType
<1>3. CASE OnData(r)
  <2>1. PICK part \in Parts :
           IF BufferLen < datalen[r] + Len(part)
           THEN /\ transfer' = [transfer EXCEPT ![r] = "failing"]
                /\ UNCHANGED <<reported, memory, datalen>>
           ELSE AppendPart(r, part)
    BY <1>3 DEF OnData
  <2>2. part \in Seq(Bytes)
    BY ResponseAssumption
  <2>3. CASE BufferLen < datalen[r] + Len(part)
    BY <1>3, <2>1, <2>3 DEF OnData
  <2>4. CASE ~(BufferLen < datalen[r] + Len(part))
    <3>1. /\ memory' = [memory EXCEPT ![r] = Memcpy(memory[r], TypeLen + datalen[r], part)]
          /\ datalen' = [datalen EXCEPT ![r] = datalen[r] + Len(part)]
          /\ sent' = [sent EXCEPT ![r].body = sent[r].body \o part]
          /\ UNCHANGED <<longest, transfer>>
      BY <2>1, <2>4 DEF AppendPart
    <3>2. datalen[r] \in Nat /\ Len(part) \in Nat /\ datalen[r] + Len(part) \in 0 .. BufferLen
      BY <2>2, <2>4, ResponseAssumption
    <3>3. Memcpy(memory[r], TypeLen + datalen[r], part) \in [1 .. MemoryLen -> Bytes]
      <4>1. TypeLen + datalen[r] \in Nat /\ memory[r] \in [1 .. MemoryLen -> Bytes]
        BY <3>2, ResponseAssumption
      <4> QED BY <2>2, <4>1, MemcpyType
    <3>4. sent[r].body \o part \in Texts(BufferLen)
      <4>1. /\ sent[r].body \o part \in Seq(Bytes)
            /\ Len(sent[r].body \o part) <= BufferLen
        BY <2>2, <3>2, SentType
      <4> QED BY <4>1, TextSeq, ResponseAssumption
    <3>5. [sent[r] EXCEPT !.body = sent[r].body \o part] \in ResponseText
      BY <3>4, SentType DEF ResponseText
    <3>6. /\ sent' \in [Requests -> ResponseText] /\ datalen' \in [Requests -> 0 .. BufferLen]
          /\ memory' \in [Requests -> [1 .. MemoryLen -> Bytes]]
      BY <3>1, <3>2, <3>3, <3>5
    <3> QED BY <1>3, <3>1, <3>6 DEF OnData
  <2> QED BY <2>3, <2>4
<1>4. CASE OnDataError(r)
  BY <1>4 DEF OnDataError
<1> QED BY <1>1, <1>2, <1>3, <1>4 DEF Collect

\* on_close is called for a transfer that has not failed, works under the
\* Locker, and finds its context and the object that was sent.  The context of a
\* request that has not failed is live, and that of one that is over has been
\* freed, or is lost by the host's doing.  What has been taken of the body is in
\* the buffer
WorkInv ==
    \A r \in Requests :
        /\ pc[r] # "idle" <=> transfer[r] = "closing"
        /\ pc[r] \notin {"idle", "lock"} <=> lock = r
        /\ transfer[r] \in {"open", "failing", "closing"} => heap[r] = "live"
        /\ transfer[r] \in {"announced", "closed"} => heap[r] = "freed"
        /\ transfer[r] = "unsent" => heap[r] = "none"
        /\ transfer[r] = "unsent" \/ object[r] \in HttpObjects
        /\ datalen[r] = Len(sent[r].body)

\* At first no request has a context, and none is being closed
LEMMA WorkInit == Init => WorkInv
<1> SUFFICES ASSUME Init, NEW r \in Requests
             PROVE  /\ pc[r] = "idle" /\ transfer[r] = "unsent" /\ heap[r] = "none"
                    /\ lock # r
                    /\ datalen[r] = Len(sent[r].body)
  BY DEF WorkInv
<1>1. NoResponse.body = <<>>
  BY DEF NoResponse
<1> QED BY <1>1, NameAssumption DEF Init

\* A step of a request keeps apart who is inside the Locker, and frees no
\* context that is in use
LEMMA WorkStep ==
    ASSUME TypeOK, WorkInv, NEW r \in Requests, RequestStep(r)
    PROVE  WorkInv'
<1> USE NameAssumption DEF TypeOK, WorkInv, Goto, reported, fields
<1>1. ASSUME NEW o \in HttpObjects, HttpCallback(r, o) PROVE WorkInv'
  BY <1>1 DEF HttpCallback, JtoC_HttpCallbackContext, JtoC_HttpOptions
<1>2. CASE OnStatus(r)
  <2>1. PICK st \in Statuses, ty \in ContentTypes :
          sent' = [sent EXCEPT ![r] = [status |-> st, type |-> ty, body |-> sent[r].body]]
    BY <1>2 DEF OnStatus
  <2>2. \A q \in Requests : sent'[q].body = sent[q].body
    BY <2>1
  <2>3. UNCHANGED <<transfer, heap, datalen, object, lock, pc>>
    BY <1>2 DEF OnStatus
  <2> QED BY <2>2, <2>3
<1>3. CASE OnStatusWithoutType(r) \/ OnDataError(r)
  BY <1>3 DEF OnStatusWithoutType, OnDataError
<1>4. CASE OnData(r)
  <2>1. /\ transfer[r] = "open" /\ UNCHANGED <<heap, object, lock, pc>>
        /\ transfer' = transfer \/ transfer' = [transfer EXCEPT ![r] = "failing"]
    BY <1>4 DEF OnData, AppendPart
  <2>2. \A q \in Requests : datalen'[q] = Len(sent'[q].body)
    <3>1. PICK part \in Parts :
             UNCHANGED <<reported, memory, datalen>> \/ AppendPart(r, part)
      BY <1>4 DEF OnData
    <3>2. CASE UNCHANGED <<reported, memory, datalen>>
      BY <3>2
    <3>3. CASE AppendPart(r, part)
      <4>1. /\ datalen' = [datalen EXCEPT ![r] = datalen[r] + Len(part)]
            /\ sent' = [sent EXCEPT ![r].body = sent[r].body \o part]
        BY <3>3 DEF AppendPart
      <4>2. part \in Seq(Bytes) /\ sent[r].body \in Seq(Bytes)
        BY SentType, ResponseAssumption
      <4>3. Len(sent[r].body \o part) = Len(sent[r].body) + Len(part)
        BY <4>2
      <4>4. sent'[r].body = sent[r].body \o part /\ datalen'[r] = datalen[r] + Len(part)
        BY <4>1, SentType DEF ResponseText
      <4>5. \A q \in Requests \ {r} : sent'[q] = sent[q] /\ datalen'[q] = datalen[q]
        BY <4>1
      <4> QED BY <4>3, <4>4, <4>5
    <3> QED BY <3>1, <3>2, <3>3
  <2> QED BY <2>1, <2>2
<1>5. CASE OnCloseFailed(r)
  BY <1>5 DEF OnCloseFailed
<1>6. CASE OnClose(r)
  BY <1>6 DEF OnClose
<1>7. CASE AcquireLocker(r)
  BY <1>7 DEF AcquireLocker
<1>8. CASE GetContext(r)
  BY <1>8 DEF GetContext, Abort
<1>9. CASE SetProperties(r) \/ CallCallback(r)
  BY <1>9 DEF SetProperties, CallCallback
<1>10. CASE DestroyContext(r)
  BY <1>10 DEF DestroyContext
<1> QED
  BY <1>1, <1>2, <1>3, <1>4, <1>5, <1>6, <1>7, <1>8, <1>9, <1>10
     DEF RequestStep, Collect, Work

\* A step of a request keeps the type invariant
LEMMA TypeStep ==
    ASSUME TypeOK, WorkInv, NEW r \in Requests, RequestStep(r)
    PROVE  TypeOK'
<1> USE DEF TypeOK, fields, reported, Goto
<1>1. ASSUME NEW o \in HttpObjects, HttpCallback(r, o) PROVE TypeOK'
  BY <1>1 DEF HttpCallback, JtoC_HttpCallbackContext, JtoC_HttpOptions
<1>2. CASE Collect(r)
  BY <1>2, TypeCollect DEF WorkInv
<1>3. CASE OnCloseFailed(r) \/ OnClose(r)
  BY <1>3 DEF OnCloseFailed, OnClose
<1>4. CASE AcquireLocker(r)
  BY <1>4 DEF AcquireLocker
<1>5. CASE SetProperties(r)
  BY <1>5, ResponseType DEF SetProperties
<1>6. CASE CallCallback(r)
  <2>1. \A o \in HttpObjects : properties[o] \in ObjectText \cup {Unanswered}
    OBVIOUS
  <2>2. object[r] \in HttpObjects
    BY <1>6 DEF CallCallback, WorkInv
  <2> QED BY <1>6, <2>1, <2>2 DEF CallCallback
<1>7. CASE GetContext(r)
  <2>1. CASE pc[r] = "context" /\ Abort
    BY <2>1 DEF Abort
  <2>2. CASE \E next \in {"set", "read"} : Goto(r, "context", next)
    <3>1. UNCHANGED <<transfer, sent, longest, heap, status, memory, datalen, object,
                      properties, lock, seen>>
      BY <1>7 DEF GetContext, Abort
    <3>2. aborted' \in BOOLEAN
      BY <1>7 DEF GetContext, Abort
    <3>3. pc' = [pc EXCEPT ![r] = "set"] \/ pc' = [pc EXCEPT ![r] = "read"]
      BY <2>2
    <3> QED BY <3>1, <3>2, <3>3
  <2> QED BY <1>7, <2>1, <2>2 DEF GetContext
<1>8. CASE DestroyContext(r)
  BY <1>8 DEF DestroyContext
<1> QED BY <1>1, <1>2, <1>3, <1>4, <1>5, <1>6, <1>7, <1>8 DEF RequestStep, Work

\* What an event, or a send() that comes to nothing, leaves alone
LEMMA EventChanges ==
    ASSUME TypeOK, EventStep
    PROVE  /\ UNCHANGED <<transfer, sent, longest, heap, status, memory, datalen, object,
                          properties, pc, seen>>
           /\ aborted' \in BOOLEAN
           /\ \/ lock' = lock
              \/ lock = NoOne /\ lock' = Event
              \/ lock = Event /\ lock' = NoOne
BY DEF TypeOK, EventStep, EnterEvent, LeaveEvent, EventFailsToRead, HttpCallbackBadFunction,
   Abort, vars, fields, reported

\* A step is one of a request, one of an event, or a stutter
LEMMA Steps ==
    ASSUME [Next]_vars
    PROVE  EventStep \/ (\E r \in Requests : RequestStep(r)) \/ UNCHANGED vars
BY DEF Next

\* Both invariants are kept by every step
LEMMA TypeWorkNext == TypeOK /\ WorkInv /\ [Next]_vars => TypeOK' /\ WorkInv'
<1> SUFFICES ASSUME TypeOK, WorkInv, [Next]_vars PROVE TypeOK' /\ WorkInv'
  OBVIOUS
<1>1. CASE UNCHANGED vars
  BY <1>1 DEF TypeOK, WorkInv, vars, fields, reported
<1>2. CASE EventStep
  <2>1. TypeOK'
    BY <1>2, EventChanges DEF TypeOK
  <2>2. WorkInv'
    BY <1>2, EventChanges, NameAssumption DEF WorkInv
  <2> QED BY <2>1, <2>2
<1> QED BY <1>1, <1>2, Steps, TypeStep, WorkStep

\* Both invariants hold in every state
LEMMA TypeWork == Spec => [](TypeOK /\ WorkInv)
BY TypeInit, WorkInit, TypeWorkNext, PTL DEF Spec

\* Every variable keeps to its set, whatever the server answers
THEOREM TypeCorrect == Spec => []TypeOK
BY TypeWork, PTL

\* The context outlives every callback that uses it, for any host that keeps to
\* the order of calls
THEOREM ContextNotFreedEarly == Spec => []ContextLiveWhileUsed
<1>1. WorkInv => ContextLiveWhileUsed
  BY DEF WorkInv, ContextLiveWhileUsed
<1> QED BY <1>1, TypeWork, PTL

\* A context is lost only with a request that is refused or a transfer whose
\* failure is not announced
THEOREM ContextsFreed == Spec => []ContextFreed
<1>1. TypeOK /\ WorkInv => ContextFreed
  BY DEF TypeOK, WorkInv, ContextFreed
<1> QED BY <1>1, TypeWork, PTL

-----------------------------------------------------------------------------
(* What a context holds of the response of its request                     *)

\* The field of the type begins with the last one and ends with zero bytes, and as
\* long as no type has run over, the buffer holds the body and zero bytes
MemoryAt(r) ==
    /\ status[r] = sent[r].status
    /\ Len(sent[r].type) <= longest[r]
    /\ \A i \in 1 .. Len(sent[r].type) : i <= TypeLen => memory[r][i] = sent[r].type[i]
    /\ \A i \in 1 .. TypeLen : longest[r] < i => memory[r][i] = Nul
    /\ longest[r] <= TypeLen =>
           \A i \in 1 .. BufferLen :
               memory[r][TypeLen + i] =
                   IF i <= Len(sent[r].body) THEN sent[r].body[i] ELSE Nul

MemoryInv == \A r \in Requests : MemoryAt(r)

\* At first all bytes are zero
LEMMA MemoryInit == Init => MemoryInv
<1> SUFFICES ASSUME Init PROVE MemoryInv
  OBVIOUS
<1>1. NoResponse.status = 0 /\ NoResponse.type = <<>> /\ NoResponse.body = <<>>
  BY DEF NoResponse
<1>2. \A r \in Requests : /\ status[r] = 0 /\ sent[r] = NoResponse /\ longest[r] = 0
                          /\ memory[r] = [i \in 1 .. MemoryLen |-> Nul]
  BY DEF Init
<1>3. \A r \in Requests : \A i \in 1 .. MemoryLen : memory[r][i] = Nul
  BY <1>2
<1>4. \A i \in 1 .. TypeLen : i \in 1 .. MemoryLen
  BY ResponseAssumption DEF MemoryLen
<1>5. \A i \in 1 .. BufferLen : TypeLen + i \in 1 .. MemoryLen /\ ~(i <= Len(<<>>))
  BY ResponseAssumption DEF MemoryLen
<1>6. Len(<<>>) = 0 /\ 1 .. Len(<<>>) = {}
  OBVIOUS
<1> SUFFICES ASSUME NEW r \in Requests
             PROVE  /\ status[r] = sent[r].status
                    /\ Len(sent[r].type) <= longest[r]
                    /\ \A i \in 1 .. Len(sent[r].type) :
                          i <= TypeLen => memory[r][i] = sent[r].type[i]
                    /\ \A i \in 1 .. TypeLen : longest[r] < i => memory[r][i] = Nul
                    /\ longest[r] <= TypeLen =>
                           \A i \in 1 .. BufferLen :
                               memory[r][TypeLen + i] =
                                   IF i <= Len(sent[r].body) THEN sent[r].body[i] ELSE Nul
  BY DEF MemoryInv, MemoryAt
<1>7. status[r] = sent[r].status /\ Len(sent[r].type) <= longest[r]
  BY <1>1, <1>2, <1>6
<1>8. \A i \in 1 .. Len(sent[r].type) : i <= TypeLen => memory[r][i] = sent[r].type[i]
  BY <1>1, <1>2, <1>6
<1>9. \A i \in 1 .. TypeLen : longest[r] < i => memory[r][i] = Nul
  BY <1>3, <1>4
<1>10. \A i \in 1 .. BufferLen : memory[r][TypeLen + i] = Nul
  BY <1>3, <1>5
<1>11. \A i \in 1 .. BufferLen : ~(i <= Len(sent[r].body))
  BY <1>1, <1>2, <1>5
<1> QED BY <1>7, <1>8, <1>9, <1>10, <1>11

\* A step that leaves the reports, the fields and all other requests alone
LEMMA MemoryStutter ==
    ASSUME MemoryInv, UNCHANGED <<status, sent, longest, memory>>
    PROVE  MemoryInv'
BY DEF MemoryInv, MemoryAt

\* A type is written from the start of its field
LEMMA MemoryOnStatus ==
    ASSUME TypeOK, MemoryInv, NEW r \in Requests, OnStatus(r)
    PROVE  MemoryInv'
<1>1. PICK st \in Statuses, ty \in ContentTypes :
        /\ status' = [status EXCEPT ![r] = st]
        /\ memory' = [memory EXCEPT ![r] = Memcpy(memory[r], 0, ty)]
        /\ sent' = [sent EXCEPT ![r] = [status |-> st, type |-> ty, body |-> sent[r].body]]
        /\ longest' = [longest EXCEPT ![r] = Longer(longest[r], Len(ty))]
  BY DEF OnStatus
<1>2. /\ ty \in Seq(Bytes) /\ Len(ty) \in Nat /\ longest[r] \in Nat
      /\ TypeLen \in Nat /\ BufferLen \in Nat /\ MemoryLen = TypeLen + BufferLen
  BY ResponseAssumption, MemorySeq DEF TypeOK, MemoryLen
<1>3. /\ status'[r] = st /\ memory'[r] = Memcpy(memory[r], 0, ty)
      /\ sent'[r].status = st /\ sent'[r].type = ty /\ sent'[r].body = sent[r].body
      /\ longest'[r] = Longer(longest[r], Len(ty))
  BY <1>1 DEF TypeOK
<1>4. \A q \in Requests \ {r} : /\ status'[q] = status[q] /\ memory'[q] = memory[q]
                                /\ sent'[q] = sent[q] /\ longest'[q] = longest[q]
  BY <1>1 DEF TypeOK
<1>5. \A i \in 1 .. MemoryLen :
         memory'[r][i] = IF i \in 1 .. Len(ty) THEN ty[i] ELSE memory[r][i]
  <2>1. memory[r] \in [1 .. MemoryLen -> Bytes]
    BY DEF TypeOK
  <2>2. \A i \in 1 .. MemoryLen :
           Memcpy(memory[r], 0, ty)[i] =
               IF i - 0 \in 1 .. Len(ty) THEN ty[i - 0] ELSE memory[r][i]
    BY <1>2, <2>1, MemcpyType
  <2> SUFFICES ASSUME NEW i \in 1 .. MemoryLen
               PROVE  memory'[r][i] = IF i \in 1 .. Len(ty) THEN ty[i] ELSE memory[r][i]
    OBVIOUS
  <2>3. i - 0 = i
    BY <1>2
  <2>4. memory'[r][i] = Memcpy(memory[r], 0, ty)[i]
    BY <1>3
  <2> QED BY <2>2, <2>3, <2>4
<1>6. longest'[r] \in Nat /\ Len(ty) <= longest'[r] /\ longest[r] <= longest'[r]
  BY <1>2, <1>3 DEF Longer
<1>7. \A i \in 1 .. Len(ty) : i <= TypeLen => memory'[r][i] = ty[i]
  BY <1>2, <1>5
<1>8. \A i \in 1 .. TypeLen : longest'[r] < i => memory'[r][i] = Nul
  BY <1>2, <1>5, <1>6 DEF MemoryInv, MemoryAt
<1>9. ASSUME longest'[r] <= TypeLen, NEW i \in 1 .. BufferLen
      PROVE  memory'[r][TypeLen + i] =
                 IF i <= Len(sent[r].body) THEN sent[r].body[i] ELSE Nul
  <2>1. TypeLen + i \in 1 .. MemoryLen /\ TypeLen + i \notin 1 .. Len(ty)
    BY <1>2, <1>6, <1>9
  <2>2. longest[r] <= TypeLen
    BY <1>2, <1>6, <1>9
  <2>3. memory'[r][TypeLen + i] = memory[r][TypeLen + i]
    BY <1>5, <2>1
  <2> QED BY <2>2, <2>3 DEF MemoryInv, MemoryAt
<1>10. MemoryAt(r)'
  BY <1>3, <1>6, <1>7, <1>8, <1>9 DEF MemoryAt
<1>11. ASSUME NEW q \in Requests \ {r} PROVE MemoryAt(q)'
  BY <1>4 DEF MemoryInv, MemoryAt
<1> QED BY <1>10, <1>11 DEF MemoryInv

\* A part of the body is written behind what is in the buffer
LEMMA MemoryAppend ==
    ASSUME TypeOK, WorkInv, MemoryInv, NEW r \in Requests, NEW part \in Parts,
           UNCHANGED status, AppendPart(r, part)
    PROVE  MemoryInv'
<1> DEFINE b == sent[r].body
           at == TypeLen + Len(b)
<1>1. /\ part \in Seq(Bytes) /\ b \in Seq(Bytes) /\ Len(b) \in Nat /\ Len(part) \in Nat
      /\ TypeLen \in Nat /\ BufferLen \in Nat /\ MemoryLen = TypeLen + BufferLen
      /\ Len(sent[r].type) \in Nat
  BY SentType, ResponseAssumption DEF MemoryLen
<1>2. /\ memory' = [memory EXCEPT ![r] = Memcpy(memory[r], at, part)]
      /\ sent' = [sent EXCEPT ![r].body = b \o part]
      /\ UNCHANGED longest
  BY DEF AppendPart, WorkInv
<1>3. /\ memory'[r] = Memcpy(memory[r], at, part)
      /\ sent'[r].status = sent[r].status /\ sent'[r].type = sent[r].type
      /\ sent'[r].body = b \o part
  BY <1>2, SentType DEF TypeOK, ResponseText
<1>4. \A q \in Requests \ {r} : memory'[q] = memory[q] /\ sent'[q] = sent[q]
  BY <1>2 DEF TypeOK
<1>5. \A i \in 1 .. MemoryLen :
         memory'[r][i] = IF i - at \in 1 .. Len(part) THEN part[i - at] ELSE memory[r][i]
  <2>1. memory[r] \in [1 .. MemoryLen -> Bytes] /\ part \in Seq(Bytes) /\ at \in Nat
    BY <1>1 DEF TypeOK
  <2> HIDE DEF at, b
  <2>2. \A i \in 1 .. MemoryLen :
           Memcpy(memory[r], at, part)[i] =
               IF i - at \in 1 .. Len(part) THEN part[i - at] ELSE memory[r][i]
    BY <2>1, MemcpyType
  <2> QED BY <1>3, <2>2
<1>6. \A i \in 1 .. TypeLen : memory'[r][i] = memory[r][i]
  <2> SUFFICES ASSUME NEW i \in 1 .. TypeLen PROVE memory'[r][i] = memory[r][i]
    OBVIOUS
  <2>1. i \in 1 .. MemoryLen /\ i - at \notin 1 .. Len(part)
    BY <1>1
  <2> HIDE DEF at
  <2> QED BY <1>5, <2>1
<1>7. /\ \A i \in 1 .. Len(sent[r].type) : i <= TypeLen => memory'[r][i] = sent[r].type[i]
      /\ \A i \in 1 .. TypeLen : longest[r] < i => memory'[r][i] = Nul
  <2>1. \A i \in 1 .. Len(sent[r].type) : i <= TypeLen => i \in 1 .. TypeLen
    BY <1>1
  <2> QED BY <1>6, <2>1 DEF MemoryInv, MemoryAt
<1>8. ASSUME longest[r] <= TypeLen, NEW i \in 1 .. BufferLen
      PROVE  memory'[r][TypeLen + i] =
                 IF i <= Len(b \o part) THEN (b \o part)[i] ELSE Nul
  <2>1. /\ Len(b \o part) = Len(b) + Len(part)
        /\ \A k \in 1 .. Len(b \o part) :
              (b \o part)[k] = IF k <= Len(b) THEN b[k] ELSE part[k - Len(b)]
    BY <1>1
  <2>2. TypeLen + i \in 1 .. MemoryLen /\ (TypeLen + i) - at = i - Len(b)
    BY <1>1
  <2>3. memory'[r][TypeLen + i] =
            IF i - Len(b) \in 1 .. Len(part) THEN part[i - Len(b)]
                                             ELSE memory[r][TypeLen + i]
    <3> HIDE DEF at, b
    <3> QED BY <1>5, <2>2
  <2>4. memory[r][TypeLen + i] = IF i <= Len(b) THEN b[i] ELSE Nul
    BY <1>8 DEF MemoryInv, MemoryAt
  <2> HIDE DEF b
  <2> QED BY <1>1, <2>1, <2>3, <2>4
<1>9. MemoryAt(r)'
  BY <1>2, <1>3, <1>7, <1>8 DEF MemoryInv, MemoryAt
<1>10. ASSUME NEW q \in Requests \ {r} PROVE MemoryAt(q)'
  BY <1>2, <1>4 DEF MemoryInv, MemoryAt
<1> QED BY <1>9, <1>10 DEF MemoryInv

\* Nothing else touches what a context holds
LEMMA MemoryStep ==
    ASSUME TypeOK, WorkInv, MemoryInv, NEW r \in Requests, RequestStep(r)
    PROVE  MemoryInv'
<1>1. CASE OnStatus(r)
  BY <1>1, MemoryOnStatus
<1>2. CASE OnData(r)
  <2>1. PICK part \in Parts :
           UNCHANGED <<reported, memory, datalen>> \/ AppendPart(r, part)
    BY <1>2 DEF OnData
  <2>2. UNCHANGED status
    BY <1>2 DEF OnData
  <2> QED BY <2>1, <2>2, MemoryAppend, MemoryStutter DEF reported
<1>3. CASE ~OnStatus(r) /\ ~OnData(r)
  <2>1. UNCHANGED <<status, sent, longest, memory>>
    BY <1>3 DEF RequestStep, Collect, Work, HttpCallback, OnStatusWithoutType, OnDataError,
       OnCloseFailed, OnClose, AcquireLocker, GetContext, Abort, SetProperties,
       CallCallback, DestroyContext, fields, reported
  <2> QED BY <2>1, MemoryStutter
<1> QED BY <1>1, <1>2, <1>3

\* The invariant of the contexts is kept by every step
LEMMA MemoryNext == TypeOK /\ WorkInv /\ MemoryInv /\ [Next]_vars => MemoryInv'
<1> SUFFICES ASSUME TypeOK, WorkInv, MemoryInv, [Next]_vars PROVE MemoryInv'
  OBVIOUS
<1>1. CASE UNCHANGED vars \/ EventStep
  <2>1. UNCHANGED <<status, sent, longest, memory>>
    BY <1>1, EventChanges DEF vars, fields, reported
  <2> QED BY <2>1, MemoryStutter
<1> QED BY <1>1, Steps, MemoryStep

\* The invariant of the contexts holds in every state
LEMMA MemoryAlways == Spec => []MemoryInv
BY MemoryInit, MemoryNext, TypeWork, PTL DEF Spec

-----------------------------------------------------------------------------
(* A callback sees its own response, and no other request's                *)

\* What x shows of the response of r, be it carried whole or in part
Shows(x, r) ==
    /\ x \in ObjectText
    /\ x.status = sent[r].status
    /\ \E tail \in Texts(MemoryLen) : x.type = NewFromUtf8(KeptType(r) \o tail)
    /\ longest[r] <= TypeLen => x.body = NewFromUtf8(CString(sent[r].body))
    /\ Intact(r) => x = Shown(sent[r])

\* What is kept of a type is a part of it without a zero byte
LEMMA KeptTypeText ==
    ASSUME TypeOK, NEW r \in Requests
    PROVE  /\ KeptType(r) \in Seq(Bytes \ {Nul})
           /\ Len(KeptType(r)) <= TypeLen /\ Len(KeptType(r)) <= Len(sent[r].type)
           /\ \A i \in 1 .. Len(KeptType(r)) : KeptType(r)[i] = sent[r].type[i]
<1> DEFINE ty == sent[r].type
           n == IF Len(ty) < TypeLen THEN Len(ty) ELSE TypeLen
<1>1. ty \in Seq(Bytes \ {Nul}) /\ TypeLen \in Nat
  BY SentType, ResponseAssumption
<1> HIDE DEF ty
<1>2. n \in 0 .. Len(ty) /\ n <= TypeLen
  BY <1>1
<1> HIDE DEF n
<1>3. /\ SubSeq(ty, 1, n) \in Seq(Bytes \ {Nul}) /\ Len(SubSeq(ty, 1, n)) = n
      /\ \A i \in 1 .. n : SubSeq(ty, 1, n)[i] = ty[i]
  BY <1>1, <1>2
<1>4. KeptType(r) = SubSeq(ty, 1, n)
  BY DEF KeptType, n, ty
<1>5. Len(KeptType(r)) = n
  BY <1>3, <1>4
<1> QED BY <1>2, <1>3, <1>4, <1>5 DEF ty

\* The type in a context begins with what is kept of the last one
LEMMA TypeBegins ==
    ASSUME TypeOK, MemoryInv, NEW r \in Requests
    PROVE  \E tail \in Texts(MemoryLen) : TypeString(r) = KeptType(r) \o tail
<1> DEFINE p == KeptType(r)
           m == memory[r]
<1>1. /\ p \in Seq(Bytes \ {Nul}) /\ Len(p) <= TypeLen /\ Len(p) <= Len(sent[r].type)
      /\ \A i \in 1 .. Len(p) : p[i] = sent[r].type[i]
  BY KeptTypeText
<1>2. m \in Seq(Bytes) /\ Len(m) = MemoryLen /\ TypeLen \in Nat /\ TypeLen < MemoryLen
      /\ Len(sent[r].type) \in Nat /\ MemoryLen \in Nat
  BY SentType, MemorySeq, ResponseAssumption
<1>3. \A i \in 1 .. Len(sent[r].type) : i <= TypeLen => m[i] = sent[r].type[i]
  BY DEF MemoryInv, MemoryAt
<1> HIDE DEF p, m
<1>4. Len(p) <= Len(m) /\ \A i \in 1 .. Len(p) : m[i] = p[i]
  BY <1>1, <1>2, <1>3
<1>5. \E tail \in Texts(Len(m)) : CString(m) = p \o tail
  BY <1>1, <1>2, <1>4, CStringBegins
<1> QED BY <1>2, <1>5 DEF TypeString, p, m

\* A type that is the longest and fits is the type in the context
LEMMA TypeWhole ==
    ASSUME TypeOK, MemoryInv, NEW r \in Requests, Intact(r)
    PROVE  TypeString(r) = sent[r].type
<1> DEFINE ty == sent[r].type
           m == memory[r]
<1>1. ty \in Seq(Bytes \ {Nul}) /\ m \in Seq(Bytes) /\ Len(m) = MemoryLen
      /\ TypeLen \in Nat /\ MemoryLen \in Nat /\ TypeLen < MemoryLen
  BY SentType, MemorySeq, ResponseAssumption
<1>2. longest[r] = Len(ty) /\ Len(ty) < TypeLen
  BY DEF Intact
<1>3. /\ \A i \in 1 .. Len(ty) : i <= TypeLen => m[i] = ty[i]
      /\ \A i \in 1 .. TypeLen : longest[r] < i => m[i] = Nul
  BY DEF MemoryInv, MemoryAt
<1> HIDE DEF ty, m
<1>4. /\ Len(ty) < Len(m) /\ \A i \in 1 .. Len(ty) : m[i] = ty[i]
      /\ m[Len(ty) + 1] = Nul
  BY <1>1, <1>2, <1>3
<1>5. CString(m) = ty
  BY <1>1, <1>4, CStringEnds
<1> QED BY <1>5 DEF TypeString, ty, m

\* Unless a type has run over, the C string in the buffer is that of the body
LEMMA BodyKept ==
    ASSUME TypeOK, MemoryInv, NEW r \in Requests, longest[r] <= TypeLen
    PROVE  BodyString(r) = CString(sent[r].body)
<1> DEFINE b == sent[r].body
           t == SubSeq(memory[r], TypeLen + 1, MemoryLen)
<1>1. b \in Seq(Bytes) /\ Len(b) <= BufferLen /\ BufferLen \in Nat
  BY SentType, ResponseAssumption
<1>2. /\ t \in Seq(Bytes) /\ Len(t) = BufferLen
      /\ \A i \in 1 .. BufferLen : t[i] = memory[r][TypeLen + i]
  BY SentType, BufferSeq
<1>3. \A i \in 1 .. BufferLen :
         memory[r][TypeLen + i] = IF i <= Len(b) THEN b[i] ELSE Nul
  BY DEF MemoryInv, MemoryAt
<1> HIDE DEF b, t
<1>4. /\ \A i \in 1 .. Len(b) : t[i] = b[i]
      /\ \A i \in Len(b) + 1 .. Len(t) : t[i] = Nul
  BY <1>1, <1>2, <1>3
<1>5. CString(t) = CString(b)
  BY <1>1, <1>2, <1>4, CStringPadded
<1> QED BY <1>5 DEF BodyString, b, t

\* The object shows the response of the request whose on_close has filled it
LEMMA ResponseShows ==
    ASSUME TypeOK, MemoryInv, NEW r \in Requests
    PROVE  Shows(Shown(Response(r)), r)
<1> DEFINE x == Shown(Response(r))
<1>1. /\ x.status = status[r] /\ x.type = NewFromUtf8(TypeString(r))
      /\ x.body = NewFromUtf8(BodyString(r))
  BY DEF Shown, Response
<1>2. x \in ObjectText
  BY ResponseType
<1>3. status[r] = sent[r].status
  BY DEF MemoryInv, MemoryAt
<1>4. \E tail \in Texts(MemoryLen) : x.type = NewFromUtf8(KeptType(r) \o tail)
  BY <1>1, TypeBegins
<1>5. longest[r] <= TypeLen => x.body = NewFromUtf8(CString(sent[r].body))
  BY <1>1, BodyKept
<1>6. Intact(r) => x = Shown(sent[r])
  <2> SUFFICES ASSUME Intact(r) PROVE x = Shown(sent[r])
    OBVIOUS
  <2>1. TypeString(r) = sent[r].type
    BY TypeWhole
  <2>2. longest[r] <= TypeLen
    BY ResponseAssumption DEF Intact, TypeOK
  <2>3. CString(sent[r].body) = sent[r].body
    BY SentType, CStringWhole DEF Intact
  <2>4. BodyString(r) = sent[r].body
    BY <2>2, <2>3, BodyKept
  <2> QED BY <1>3, <2>1, <2>4 DEF Shown, Response
<1> HIDE DEF x
<1>7. Shows(x, r)
  BY <1>1, <1>2, <1>3, <1>4, <1>5, <1>6 DEF Shows
<1> QED BY <1>7 DEF x

\* What an object shows of a response does not change while the host reports
\* nothing
LEMMA ShowsStable ==
    ASSUME NEW r \in Requests, sent'[r] = sent[r], longest'[r] = longest[r],
           NEW x, Shows(x, r)
    PROVE  /\ x \in ObjectText
           /\ x.status = sent'[r].status
           /\ \E tail \in Texts(MemoryLen) : x.type = NewFromUtf8(KeptType(r)' \o tail)
           /\ longest'[r] <= TypeLen => x.body = NewFromUtf8(CString(sent'[r].body))
           /\ Intact(r)' => x = Shown(sent'[r])
BY DEF Shows, KeptType, Intact

\* The callback, once called, has been shown the response of its request
SeenInv ==
    \A r \in Requests :
        /\ pc[r] = "call" => Shows(properties[object[r]], r)
        /\ pc[r] = "free" => seen[r] # Unanswered
        /\ seen[r] # Unanswered =>
               /\ Shows(seen[r], r)
               /\ pc[r] = "free" \/ transfer[r] = "closed"

\* At first no callback has been called
LEMMA SeenInit == Init => SeenInv
<1> SUFFICES ASSUME Init, NEW r \in Requests
             PROVE  pc[r] = "idle" /\ seen[r] = Unanswered
  BY DEF SeenInv
<1> QED BY DEF Init

\* A step that leaves a request and what has been reported of it alone
Left(r) ==
    /\ sent'[r] = sent[r] /\ longest'[r] = longest[r]
    /\ pc'[r] = pc[r] /\ transfer'[r] = transfer[r] /\ seen'[r] = seen[r]
    /\ pc[r] = "call" => properties'[object'[r]] = properties[object[r]]

\* What such a step keeps of the invariant
LEMMA LeftKeeps ==
    ASSUME SeenInv, NEW r \in Requests, Left(r)
    PROVE  /\ pc'[r] = "call" => Shows(properties[object[r]], r)'
           /\ pc'[r] = "free" => seen'[r] # Unanswered
           /\ seen'[r] # Unanswered =>
                  /\ Shows(seen[r], r)'
                  /\ pc'[r] = "free" \/ transfer'[r] = "closed"
<1>1. pc'[r] = "call" => Shows(properties[object[r]], r)'
  <2> SUFFICES ASSUME pc'[r] = "call" PROVE Shows(properties[object[r]], r)'
    OBVIOUS
  <2>1. Shows(properties[object[r]], r) /\ properties'[object'[r]] = properties[object[r]]
    BY DEF Left, SeenInv
  <2> QED BY <2>1, ShowsStable DEF Left, Shows
<1>2. seen'[r] # Unanswered => Shows(seen[r], r)'
  <2> SUFFICES ASSUME seen'[r] # Unanswered PROVE Shows(seen[r], r)'
    OBVIOUS
  <2>1. Shows(seen[r], r) /\ seen'[r] = seen[r]
    BY DEF Left, SeenInv
  <2> QED BY <2>1, ShowsStable DEF Left, Shows
<1> QED BY <1>1, <1>2 DEF Left, SeenInv

\* A request works on its own object and under the Locker
LEMMA OthersLeft ==
    ASSUME TypeOK, WorkInv, NEW r \in Requests, RequestStep(r),
           NEW q \in Requests \ {r}
    PROVE  Left(q)
<1> USE DEF TypeOK, reported, fields, Goto, Left
<1>1. ASSUME NEW o \in HttpObjects, HttpCallback(r, o) PROVE Left(q)
  BY <1>1 DEF HttpCallback, JtoC_HttpCallbackContext, JtoC_HttpOptions
<1>2. CASE OnStatus(r) \/ OnStatusWithoutType(r) \/ OnDataError(r)
  BY <1>2 DEF OnStatus, OnStatusWithoutType, OnDataError
<1>3. CASE OnData(r)
  <2>1. /\ UNCHANGED <<longest, pc, seen, properties, object>>
        /\ sent'[q] = sent[q] /\ transfer'[q] = transfer[q]
    BY <1>3 DEF OnData, AppendPart
  <2> QED BY <2>1
<1>4. CASE OnCloseFailed(r) \/ OnClose(r)
  BY <1>4 DEF OnCloseFailed, OnClose
<1>5. CASE AcquireLocker(r)
  BY <1>5 DEF AcquireLocker
<1>6. CASE GetContext(r)
  BY <1>6 DEF GetContext, Abort
<1>7. CASE SetProperties(r)
  <2>1. pc[q] # "call"
    BY <1>7 DEF SetProperties, WorkInv
  <2> QED BY <1>7, <2>1 DEF SetProperties
<1>8. CASE CallCallback(r) \/ DestroyContext(r)
  BY <1>8 DEF CallCallback, DestroyContext
<1> QED BY <1>1, <1>2, <1>3, <1>4, <1>5, <1>6, <1>7, <1>8 DEF RequestStep, Collect, Work

\* What on_close shows the callback is the response of its own request
LEMMA SeenOwn ==
    ASSUME TypeOK, WorkInv, MemoryInv, SeenInv, NEW r \in Requests, RequestStep(r)
    PROVE  /\ pc'[r] = "call" => Shows(properties[object[r]], r)'
           /\ pc'[r] = "free" => seen'[r] # Unanswered
           /\ seen'[r] # Unanswered =>
                  /\ Shows(seen[r], r)'
                  /\ pc'[r] = "free" \/ transfer'[r] = "closed"
<1> USE DEF TypeOK, reported, fields, Goto
<1>1. ASSUME pc[r] \in {"idle", "lock", "context"}, transfer[r] # "closed",
             seen'[r] = seen[r], pc'[r] \notin {"call", "free"}
      PROVE  /\ pc'[r] \notin {"call", "free"}
             /\ seen'[r] = Unanswered
  BY <1>1 DEF SeenInv
<1>2. ASSUME NEW o \in HttpObjects, HttpCallback(r, o)
      PROVE  pc'[r] \notin {"call", "free"} /\ seen'[r] = Unanswered
  BY <1>1, <1>2 DEF HttpCallback, WorkInv
<1>3. CASE Collect(r)
  <2>1. transfer[r] \in {"open", "failing"} /\ UNCHANGED <<pc, seen>>
    BY <1>3 DEF Collect, OnStatus, OnStatusWithoutType, OnData, OnDataError
  <2> QED BY <1>1, <2>1 DEF WorkInv
<1>4. CASE OnCloseFailed(r) \/ OnClose(r)
  <2>1. /\ transfer[r] \in {"open", "failing", "announced"} /\ UNCHANGED seen
        /\ UNCHANGED pc \/ pc' = [pc EXCEPT ![r] = "lock"]
    BY <1>4 DEF OnCloseFailed, OnClose
  <2> QED BY <1>1, <2>1 DEF WorkInv
<1>5. CASE AcquireLocker(r) \/ GetContext(r)
  <2>1. /\ pc[r] \in {"lock", "context"} /\ UNCHANGED seen
        /\ UNCHANGED pc \/ \E s \in {"context", "set", "read"} : pc' = [pc EXCEPT ![r] = s]
    BY <1>5 DEF AcquireLocker, GetContext, Abort
  <2> QED BY <1>1, <2>1 DEF WorkInv
<1>6. CASE SetProperties(r)
  <2>1. /\ object[r] \in HttpObjects /\ pc'[r] = "call" /\ pc[r] = "set"
        /\ transfer[r] = "closing"
        /\ properties'[object'[r]] = Shown(Response(r))
        /\ UNCHANGED <<sent, longest, transfer, seen>>
    BY <1>6 DEF SetProperties, WorkInv
  <2>2. Shows(properties[object[r]], r)'
    <3>1. Shows(Shown(Response(r)), r)
      BY ResponseShows
    <3> DEFINE x == Shown(Response(r))
    <3> HIDE DEF x
    <3>2. properties'[object'[r]] = x /\ Shows(x, r)
      BY <2>1, <3>1 DEF x
    <3> QED BY <2>1, <3>2, ShowsStable DEF Shows
  <2>3. seen'[r] = Unanswered
    BY <2>1 DEF SeenInv
  <2> QED BY <2>1, <2>2, <2>3
<1>7. CASE CallCallback(r)
  <2>1. /\ pc[r] = "call" /\ pc'[r] = "free" /\ seen'[r] = properties[object[r]]
        /\ UNCHANGED <<sent, longest, transfer>>
    BY <1>7 DEF CallCallback
  <2>2. Shows(properties[object[r]], r)
    BY <2>1 DEF SeenInv
  <2>3. Shows(seen[r], r)'
    <3> DEFINE x == properties[object[r]]
    <3> HIDE DEF x
    <3>1. seen'[r] = x /\ Shows(x, r)
      BY <2>1, <2>2 DEF x
    <3> QED BY <2>1, <3>1, ShowsStable DEF Shows
  <2>4. seen'[r] # Unanswered
    BY <2>1, <2>2, NameAssumption DEF Shows
  <2> QED BY <2>1, <2>3, <2>4
<1>8. CASE DestroyContext(r)
  <2>1. /\ pc[r] = "free" /\ pc'[r] = "idle" /\ transfer'[r] = "closed"
        /\ UNCHANGED <<sent, longest, seen>>
    BY <1>8 DEF DestroyContext
  <2>2. Shows(seen[r], r)
    BY <2>1 DEF SeenInv
  <2>3. Shows(seen[r], r)'
    BY <2>1, <2>2, ShowsStable DEF Shows
  <2> QED BY <2>1, <2>3
<1> QED
  BY <1>2, <1>3, <1>4, <1>5, <1>6, <1>7, <1>8 DEF RequestStep, Work

\* The invariant of the callbacks is kept by every step
LEMMA SeenNext == TypeOK /\ WorkInv /\ MemoryInv /\ SeenInv /\ [Next]_vars => SeenInv'
<1> SUFFICES ASSUME TypeOK, WorkInv, MemoryInv, SeenInv, [Next]_vars PROVE SeenInv'
  OBVIOUS
<1>1. CASE UNCHANGED vars \/ EventStep
  <2>1. \A q \in Requests : Left(q)
    BY <1>1, EventChanges DEF vars, reported, Left
  <2> QED BY <2>1, LeftKeeps DEF SeenInv
<1>2. ASSUME NEW r \in Requests, RequestStep(r) PROVE SeenInv'
  <2>1. \A q \in Requests \ {r} : Left(q)
    BY <1>2, OthersLeft
  <2> QED BY <1>2, <2>1, LeftKeeps, SeenOwn DEF SeenInv
<1> QED BY <1>1, <1>2, Steps

\* The invariant of the callbacks holds in every state
LEMMA SeenAlways == Spec => []SeenInv
BY SeenInit, SeenNext, TypeWork, MemoryAlways, PTL DEF Spec

\* The callback of a request finds the response of that request, whole, if a
\* context can carry it, though the Http object may have been sent several times
THEOREM OwnResponseSeen == Spec => []CallbackSeesOwnResponse
<1>1. SeenInv => CallbackSeesOwnResponse
  BY DEF SeenInv, Shows, CallbackSeesOwnResponse
<1> QED BY <1>1, SeenAlways, PTL

\* Whatever is sent and however often on_status is called, a callback is shown its
\* own request's answer, as far as it was kept, and no part of another's
THEOREM OwnAnswerSeen == Spec => []AnswerOfOwnRequest
<1>1. SeenInv => AnswerOfOwnRequest
  BY DEF SeenInv, Shows, AnswerOfOwnRequest
<1> QED BY <1>1, SeenAlways, PTL

-----------------------------------------------------------------------------
(* The exchange a script is promised                                       *)

\* A response that has been sent is one that an object can show
LEMMA SentShown == ASSUME NEW x \in ResponseText PROVE Shown(x) \in ObjectText
<1>1. x.status \in Statuses \cup {0}
  BY DEF ResponseText
<1>2. x.type \in Texts(MemoryLen)
  <2>1. <<>> \in Seq(Bytes \ {Nul}) /\ Len(<<>>) < MemoryLen
    BY MemorySeq, ResponseAssumption
  <2>2. x.type \in ContentTypes \cup {<<>>}
    BY DEF ResponseText
  <2>3. x.type \in Seq(Bytes \ {Nul}) /\ Len(x.type) < MemoryLen
    BY <2>1, <2>2, ResponseAssumption
  <2>4. x.type \in Seq(Bytes) /\ Len(x.type) <= MemoryLen
    BY <2>3, MemorySeq
  <2> QED BY <2>4, TextSeq, MemorySeq
<1>3. x.body \in Texts(MemoryLen)
  <2>1. x.body \in Texts(BufferLen)
    BY DEF ResponseText
  <2>2. x.body \in Seq(Bytes) /\ Len(x.body) <= MemoryLen
    BY <2>1, TextSeq, ResponseAssumption DEF MemoryLen
  <2> QED BY <2>2, TextSeq, MemorySeq
<1>4. NewFromUtf8(x.type) \in Strings /\ NewFromUtf8(x.body) \in Strings
  BY <1>2, <1>3, Utf8Assumption
<1> QED BY <1>1, <1>4 DEF Shown, ObjectText

\* The abstract exchange starts where the requests do
LEMMA ExchangeInit == Init => Exchange!Init
<1> SUFFICES ASSUME Init PROVE Exchange!Init
  OBVIOUS
<1>1. \A r \in Requests : sent[r] = NoResponse /\ longest[r] = 0
  BY DEF Init
<1>2. NoResponse.type = <<>> /\ NoResponse.body = <<>>
  BY DEF NoResponse
<1>3. \A r \in Requests : Intact(r)
  <2>1. Len(<<>>) = 0 /\ 1 .. 0 = {} /\ 0 < TypeLen
    BY ResponseAssumption
  <2> SUFFICES ASSUME NEW r \in Requests PROVE Intact(r)
    OBVIOUS
  <2>2. Len(sent[r].type) = 0 /\ Len(sent[r].body) = 0 /\ longest[r] = 0
    BY <1>1, <1>2, <2>1
  <2> QED BY <2>1, <2>2 DEF Intact
<1>4. carried = [r \in Requests |-> Shown(NoResponse)]
  BY <1>1, <1>3 DEF carried
<1>5. stages = [r \in Requests |-> "unsent"]
  BY DEF Init, stages, Stage
<1> QED BY <1>4, <1>5 DEF Init, Exchange!Init

\* What a change of one request does to the stages of all
LEMMA StageUpdate ==
    ASSUME NEW r \in Requests,
           \A q \in Requests \ {r} : transfer'[q] = transfer[q] /\ seen'[q] = seen[q]
    PROVE  /\ stages[r] = Stage(r)
           /\ stages' = [stages EXCEPT ![r] = Stage(r)']
           /\ Stage(r)' = Stage(r) => UNCHANGED stages
BY DEF stages, Stage

\* What a report of one response does to all
LEMMA CarriedUpdate ==
    ASSUME TypeOK', NEW r \in Requests,
           \A q \in Requests \ {r} : sent'[q] = sent[q] /\ longest'[q] = longest[q]
    PROVE  /\ carried' = [carried EXCEPT ![r] = carried'[r]]
           /\ carried'[r] \in ObjectText \cup {Garbled}
<1>1. \A q \in Requests \ {r} : carried'[q] = carried[q]
  BY DEF carried, Intact, Shown
<1>2. carried' = [carried EXCEPT ![r] = carried'[r]]
  BY <1>1 DEF carried
<1>3. carried'[r] \in ObjectText \cup {Garbled}
  <2>1. sent'[r] \in ResponseText
    BY DEF TypeOK
  <2>2. Shown(sent'[r]) \in ObjectText
    BY <2>1, SentShown
  <2>3. carried'[r] = IF Intact(r)' THEN Shown(sent'[r]) ELSE Garbled
    BY DEF carried, Shown
  <2> QED BY <2>2, <2>3
<1> QED BY <1>2, <1>3

\* Nothing is received while the host reports nothing
LEMMA CarriedSame ==
    ASSUME UNCHANGED <<sent, longest>>
    PROVE  UNCHANGED carried
BY DEF carried, Intact, Shown

\* The abstract exchange, seen from here
Exchanged == [Exchange!Next]_<<stages, carried, seen>>

\* A request that is collecting its response has had no answer
LEMMA NoAnswerYet ==
    ASSUME WorkInv, SeenInv, NEW r \in Requests, pc[r] # "free", transfer[r] # "closed"
    PROVE  seen[r] = Unanswered
BY DEF SeenInv

\* on_status and on_data receive, and may fail
LEMMA ExchangeReceive ==
    ASSUME TypeOK, TypeOK', WorkInv, SeenInv, NEW r \in Requests, OnStatus(r) \/ OnData(r)
    PROVE  Exchanged
<1>1. /\ transfer[r] = "open" /\ UNCHANGED seen
      /\ transfer'[r] \in {"open", "failing"}
      /\ \A q \in Requests \ {r} : transfer'[q] = transfer[q]
      /\ \A q \in Requests \ {r} : sent'[q] = sent[q] /\ longest'[q] = longest[q]
  <2>1. CASE OnStatus(r)
    BY <2>1 DEF OnStatus, TypeOK
  <2>2. CASE OnData(r)
    BY <2>2 DEF OnData, AppendPart, reported, TypeOK
  <2> QED BY <2>1, <2>2
<1>2. seen[r] = Unanswered
  BY <1>1, NoAnswerYet DEF WorkInv
<1>3. Stage(r) = "sent" /\ Stage(r)' \in {"sent", "failed"}
  BY <1>1, <1>2 DEF Stage
<1>4. stages[r] = Stage(r) /\ stages' = [stages EXCEPT ![r] = Stage(r)']
  BY <1>1, StageUpdate
<1>5. /\ carried' = [carried EXCEPT ![r] = carried'[r]]
      /\ carried'[r] \in ObjectText \cup {Garbled}
  BY <1>1, CarriedUpdate
<1>6. Exchange!Receive(r)
  BY <1>1, <1>3, <1>4, <1>5 DEF Exchange!Receive
<1> QED BY <1>6 DEF Exchanged, Exchange!Next

\* What ends a transfer badly fails it, if it had not failed yet
LEMMA ExchangeFail ==
    ASSUME TypeOK, WorkInv, SeenInv, NEW r \in Requests,
           OnStatusWithoutType(r) \/ OnDataError(r) \/ OnCloseFailed(r)
    PROVE  Exchanged
<1>1. /\ transfer[r] \in {"open", "failing", "announced"}
      /\ transfer'[r] \in {"failing", "announced", "closed", "dropped"}
      /\ \A q \in Requests \ {r} : transfer'[q] = transfer[q]
      /\ UNCHANGED <<sent, longest, seen>>
  BY DEF OnStatusWithoutType, OnDataError, OnCloseFailed, reported, TypeOK
<1>2. seen[r] = Unanswered
  BY <1>1, NoAnswerYet DEF WorkInv
<1>3. /\ stages[r] = Stage(r) /\ stages' = [stages EXCEPT ![r] = Stage(r)']
      /\ Stage(r)' = Stage(r) => UNCHANGED stages
  BY <1>1, StageUpdate
<1>4. UNCHANGED carried
  BY <1>1, CarriedSame
<1>5. Stage(r) \in {"sent", "failed"} /\ Stage(r)' = "failed"
  BY <1>1, <1>2 DEF Stage
<1>6. CASE Stage(r) = "sent"
  <2>1. Exchange!Fail(r)
    BY <1>1, <1>3, <1>4, <1>5, <1>6 DEF Exchange!Fail
  <2> QED BY <2>1 DEF Exchanged, Exchange!Next
<1>7. CASE Stage(r) = "failed"
  BY <1>1, <1>3, <1>4, <1>5, <1>7 DEF Exchanged
<1> QED BY <1>5, <1>6, <1>7

\* The callback is given what the context carries
LEMMA ExchangeAnswer ==
    ASSUME TypeOK, WorkInv, SeenInv, NEW r \in Requests, CallCallback(r)
    PROVE  Exchanged
<1> DEFINE x == properties[object[r]]
<1>1. Shows(x, r) /\ transfer[r] = "closing" /\ pc[r] = "call"
  BY DEF CallCallback, Goto, SeenInv, WorkInv
<1>2. seen' = [seen EXCEPT ![r] = x] /\ UNCHANGED <<transfer, sent, longest>>
  BY DEF CallCallback, reported
<1> HIDE DEF x
<1>3. x # Unanswered /\ x \in ObjectText
  BY <1>1, NameAssumption DEF Shows
<1>4. seen'[r] = x /\ seen' = [seen EXCEPT ![r] = seen'[r]]
  BY <1>2 DEF TypeOK
<1>5. seen[r] = Unanswered
  BY <1>1, NoAnswerYet
<1>6. Stage(r) = "sent" /\ Stage(r)' = "answered"
  BY <1>1, <1>3, <1>4, <1>5 DEF Stage
<1>7. stages[r] = Stage(r) /\ stages' = [stages EXCEPT ![r] = Stage(r)']
  BY <1>2, StageUpdate DEF TypeOK
<1>8. x \in IF carried[r] = Garbled THEN ObjectText ELSE {carried[r]}
  <2>1. CASE Intact(r)
    <3>1. x = Shown(sent[r])
      BY <1>1, <2>1 DEF Shows
    <3>2. carried[r] = Shown(sent[r])
      BY <2>1 DEF carried
    <3> QED BY <1>3, <3>1, <3>2
  <2>2. CASE ~Intact(r)
    BY <1>3, <2>2 DEF carried
  <2> QED BY <2>1, <2>2
<1>9. UNCHANGED carried
  BY <1>2, CarriedSame
<1>10. Exchange!Answer(r)
  BY <1>4, <1>6, <1>7, <1>8, <1>9 DEF Exchange!Answer
<1> QED BY <1>10 DEF Exchanged, Exchange!Next

\* Every step of a request is one of the exchange, or a stutter of it
LEMMA ExchangeStep ==
    ASSUME TypeOK, TypeOK', WorkInv, SeenInv, NEW r \in Requests, RequestStep(r)
    PROVE  Exchanged
<1>1. ASSUME NEW o \in HttpObjects, HttpCallback(r, o) PROVE Exchanged
  <2>1. /\ transfer[r] = "unsent" /\ transfer'[r] \in {"open", "refused"}
        /\ \A q \in Requests \ {r} : transfer'[q] = transfer[q]
        /\ UNCHANGED <<sent, longest, seen>>
    BY <1>1 DEF HttpCallback, JtoC_HttpOptions, reported, TypeOK
  <2>2. seen[r] = Unanswered
    BY <2>1, NoAnswerYet DEF WorkInv
  <2>3. Stage(r) = "unsent" /\ Stage(r)' \in {"sent", "failed"}
    BY <2>1, <2>2 DEF Stage
  <2>4. stages[r] = Stage(r) /\ stages' = [stages EXCEPT ![r] = Stage(r)']
    BY <2>1, StageUpdate
  <2>5. UNCHANGED carried
    BY <2>1, CarriedSame
  <2>6. Exchange!Send(r)
    BY <2>1, <2>3, <2>4, <2>5 DEF Exchange!Send
  <2> QED BY <2>6 DEF Exchanged, Exchange!Next
<1>2. CASE OnClose(r) \/ AcquireLocker(r) \/ GetContext(r) \/ SetProperties(r)
             \/ DestroyContext(r)
  <2>1. /\ UNCHANGED <<sent, longest, seen>>
        /\ \A q \in Requests \ {r} : transfer'[q] = transfer[q]
    BY <1>2 DEF OnClose, AcquireLocker, GetContext, Abort, SetProperties, DestroyContext,
       reported, TypeOK
  <2>2. Stage(r)' = Stage(r)
    <3>1. CASE OnClose(r) \/ AcquireLocker(r) \/ GetContext(r) \/ SetProperties(r)
      BY <3>1, <2>1 DEF OnClose, AcquireLocker, GetContext, Abort, SetProperties, Stage,
         TypeOK
    <3>2. CASE DestroyContext(r)
      <4>1. seen[r] # Unanswered
        BY <3>2 DEF DestroyContext, Goto, SeenInv
      <4> QED BY <4>1, <2>1 DEF Stage
    <3> QED BY <1>2, <3>1, <3>2
  <2>3. UNCHANGED <<stages, carried, seen>>
    BY <2>1, <2>2, StageUpdate, CarriedSame
  <2> QED BY <2>3 DEF Exchanged
<1> QED
  BY <1>1, <1>2, ExchangeReceive, ExchangeFail, ExchangeAnswer
     DEF RequestStep, Collect, Work

\* Http.send() keeps its promise: each request fails, or is answered once with
\* what the host has received of its response, if a context can carry it
THEOREM ExchangeImplemented == Spec => ImplementsExchange
<1>1. TypeOK /\ TypeOK' /\ WorkInv /\ SeenInv /\ [Next]_vars => Exchanged
  <2> SUFFICES ASSUME TypeOK, TypeOK', WorkInv, SeenInv, [Next]_vars PROVE Exchanged
    OBVIOUS
  <2>1. CASE EventStep \/ UNCHANGED vars
    <3>1. UNCHANGED <<transfer, seen, sent, longest>>
      BY <2>1, EventChanges DEF vars, reported
    <3>2. UNCHANGED stages
      BY <3>1 DEF stages, Stage
    <3> QED BY <3>1, <3>2, CarriedSame DEF Exchanged
  <2> QED BY <2>1, Steps, ExchangeStep
<1> QED
  BY <1>1, ExchangeInit, TypeWork, SeenAlways, PTL
     DEF Spec, ImplementsExchange, Exchange!Spec, Exchanged

-----------------------------------------------------------------------------
(* The isolate                                                             *)

\* Those inside the Locker
Inside == {r \in Requests : pc[r] \notin {"idle", "lock"}} \cup ({lock} \cap {Event})

\* Only the owner of the Locker is inside
LEMMA InsideOwner ==
    ASSUME TypeOK, WorkInv
    PROVE  Inside = {lock} \ {NoOne}
<1>1. \A r \in Requests : pc[r] \notin {"idle", "lock"} <=> lock = r
  BY DEF WorkInv
<1>2. lock \in Requests \cup {NoOne, Event}
  BY DEF TypeOK
<1> QED BY <1>1, <1>2, NameAssumption DEF Inside

\* Work of one user, or none of it
LEMMA UseStep ==
    ASSUME NEW u \in Requests \cup {Event}, Inside \subseteq {u}, Inside' \subseteq {u},
           Inside \cup Inside' # {}
    PROVE  [Isolation!Next]_(Isolation!vars)
BY DEF Isolation!Next, Isolation!Use, Isolation!vars, Inside

\* Event handlers and answers enter the isolate one at a time, and the answers are
\* copied into the objects and handed to the callbacks there, whoever collects
\* other responses meanwhile
THEOREM IsolateImplemented == Spec => ImplementsIsolates
<1>1. Init => Isolation!Init
  BY NameAssumption DEF Init, Isolation!Init
<1>2. TypeOK /\ WorkInv /\ TypeOK' /\ WorkInv' /\ [Next]_vars =>
          [Isolation!Next]_(Isolation!vars)
  <2> SUFFICES ASSUME TypeOK, WorkInv, TypeOK', WorkInv', [Next]_vars
               PROVE  [Isolation!Next]_(Isolation!vars)
    OBVIOUS
  <2>1. Inside = {lock} \ {NoOne} /\ Inside' = {lock'} \ {NoOne}
    <3>1. /\ \A r \in Requests : pc'[r] \notin {"idle", "lock"} <=> lock' = r
          /\ lock' \in Requests \cup {NoOne, Event}
      BY DEF WorkInv, TypeOK
    <3>2. Inside' = {lock'} \ {NoOne}
      BY <3>1, NameAssumption DEF Inside
    <3> QED BY <3>2, InsideOwner
  <2>2. ASSUME UNCHANGED <<lock, properties, seen>>
        PROVE  [Isolation!Next]_(Isolation!vars)
    <3>1. UNCHANGED <<Inside, properties, seen>>
      BY <2>1, <2>2
    <3> QED BY <3>1 DEF Isolation!vars, Inside
  <2>3. CASE EventStep
    <3>1. /\ UNCHANGED <<properties, seen>>
          /\ lock' = lock \/ (lock \in {NoOne, Event} /\ lock' \in {NoOne, Event} /\ lock' # lock)
      BY <2>3, EventChanges, NameAssumption
    <3>2. CASE lock' = lock
      BY <3>1, <3>2, <2>2
    <3>3. CASE lock \in {NoOne, Event} /\ lock' \in {NoOne, Event} /\ lock' # lock
      <4>1. Inside \subseteq {Event} /\ Inside' \subseteq {Event} /\ Inside \cup Inside' # {}
        BY <2>1, <3>3, NameAssumption
      <4> QED BY <4>1, UseStep
    <3> QED BY <3>1, <3>2, <3>3
  <2>4. ASSUME NEW r \in Requests, RequestStep(r) PROVE [Isolation!Next]_(Isolation!vars)
    <3>1. CASE AcquireLocker(r) \/ Work(r)
      <4>1. lock \in {NoOne, r} /\ lock' \in {NoOne, r} /\ ~(lock = NoOne /\ lock' = NoOne)
        <5>1. CASE AcquireLocker(r)
          BY <5>1, NameAssumption DEF AcquireLocker
        <5>2. CASE Work(r)
          <6>1. lock = r
            BY <5>2 DEF Work, GetContext, SetProperties, CallCallback, DestroyContext, Goto,
               WorkInv
          <6>2. lock' \in {lock, NoOne}
            BY <5>2 DEF Work, GetContext, Abort, SetProperties, CallCallback, DestroyContext
          <6> QED BY <6>1, <6>2, NameAssumption
        <5> QED BY <3>1, <5>1, <5>2
      <4>2. Inside \subseteq {r} /\ Inside' \subseteq {r} /\ Inside \cup Inside' # {}
        BY <2>1, <4>1, NameAssumption
      <4> QED BY <4>2, UseStep
    <3>2. CASE ~(AcquireLocker(r) \/ Work(r))
      <4>1. UNCHANGED <<lock, properties, seen>>
        BY <2>4, <3>2 DEF RequestStep, HttpCallback, Collect, OnStatus,
           OnStatusWithoutType, OnData, OnDataError, OnCloseFailed, OnClose
      <4> QED BY <4>1, <2>2
    <3> QED BY <3>1, <3>2
  <2> QED BY <2>2, <2>3, <2>4, Steps DEF vars
<1> QED BY <1>1, <1>2, TypeWork, PTL DEF Spec, ImplementsIsolates, Isolation!Spec
=============================================================================

----------------------------- MODULE Extensions -----------------------------
(***************************************************************************)
(* The extensions of one document: a builder collects them and encodes     *)
(* them, or the document comes from elsewhere; then threads read the       *)
(* `extensions` getter, which parses once and keeps the object             *)
(* (x509/common.rs, x509/base.py).  Parsing calls Python, so that another  *)
(* thread may run before the result is stored.                             *)
(***************************************************************************)
EXTENDS ExtensionCodec, TLAPS

CONSTANTS
  Threads,
  Values,               \* sequence of the objects that a program may add: [oid, known, v]
  Foreign,              \* sequence of lists of encoded extensions [oid, critical, value]
  MaxExtensions,        \* bound: extensions of a builder
  Followers             \* bound: the identifiers that are added after others

ASSUME ExtensionsAssumption == MaxExtensions \in Nat /\ Nil \notin Threads

VARIABLES
  kind,                 \* of the document, or of the part that has extensions
  builder,              \* extensions [oid, critical, known, v] that were added
  raw,                  \* the encoded extensions, Nil where there are none
  status,               \* "building", "built", "received", or how encoding failed
  cell,                 \* cached_extensions: [by, exts], by which thread and what
  call                  \* call[t]: [pc, by, result] of a thread's last call

vars == << kind, builder, raw, status, cell, call >>

Kinds == DOMAIN Recognised
BuilderKinds == Kinds \ {"single_response"}
Idle == [pc |-> "idle", by |-> Nil, result |-> Nil]
EmptyCell == [by |-> Nil, exts |-> Nil]

Init ==
  /\ kind \in Kinds
  /\ builder = << >> /\ raw = Nil /\ status = "building" /\ cell = EmptyCell
  /\ call = [t \in Threads |-> Idle]

-----------------------------------------------------------------------------
(* Writing                                                                 *)

\* _reject_duplicate_extension raises ValueError and the builder stays
reject_duplicate_extension(oid) == \A i \in DOMAIN builder : builder[i].oid # oid

add_extension(e, critical) ==
  /\ status = "building" /\ kind \in BuilderKinds
  /\ Len(builder) < MaxExtensions /\ (builder # << >> => e.oid \in Followers)
  /\ reject_duplicate_extension(e.oid)
  /\ builder' = Append(builder, [oid |-> e.oid, critical |-> critical, known |-> e.known, v |-> e.v])
  /\ UNCHANGED << kind, raw, status, cell, call >>

encode_extensions(exts) ==
  LET One(e) ==
        IF ~e.known THEN Ok([oid |-> e.oid, critical |-> e.critical, value |-> e.v])
        ELSE Fields([oid |-> Ok(e.oid), critical |-> Ok(e.critical), value |-> encode_extension(e.oid, e.v)],
                    << "value" >>)
  IN  IF exts = << >> THEN Ok(Nil) ELSE Each(exts, One)

Build ==
  LET r == encode_extensions(builder)
  IN  /\ status = "building" /\ kind \in BuilderKinds
      /\ status' = IF r.error = "ok" THEN "built" ELSE r.error
      /\ raw' = r.v
      /\ UNCHANGED << kind, builder, cell, call >>

Receive(f) ==
  /\ status = "building" /\ builder = << >>
  /\ status' = "received" /\ raw' = f
  /\ UNCHANGED << kind, builder, cell, call >>

-----------------------------------------------------------------------------
(* Reading                                                                 *)

\* FALSE is a DuplicateExtensionsError
from_raw_extensions(exts) == \A i, j \in DOMAIN exts : exts[i].oid = exts[j].oid => i = j

ReadExtension(k, e) ==
  IF e.oid \in Recognised[k]
  THEN Fields([oid |-> Ok(e.oid), critical |-> Ok(e.critical), known |-> Ok(TRUE),
               v |-> ParseExt(k, e.oid, e.value)], << "v" >>)
  ELSE Ok([oid |-> e.oid, critical |-> e.critical, known |-> FALSE, v |-> e.value])

Parsed(k, exts) ==
  LET One(e) == ReadExtension(k, e)
  IN  IF exts = Nil THEN Ok(<< >>)
      ELSE IF ~from_raw_extensions(exts) THEN Err("DuplicateExtension") ELSE Each(exts, One)

\* The getter: the object that is there, or the start of parsing
Get(t) ==
  /\ status \in {"built", "received"} /\ call[t].pc # "parsing"
  /\ call' = [call EXCEPT ![t] =
       IF cell.by # Nil THEN [pc |-> "done", by |-> cell.by, result |-> Ok(cell.exts)]
       ELSE [pc |-> "parsing", by |-> t, result |-> Parsed(kind, raw)]]
  /\ UNCHANGED << kind, builder, raw, status, cell >>

StoreOwn(t) ==   \* mutant
  /\ cell' = [by |-> t, exts |-> call[t].result.v]

\* GILOnceCell: the first value stays
StoreOnce(t) == cell' = IF cell.by = Nil THEN [by |-> t, exts |-> call[t].result.v] ELSE cell

\* An error is returned and not kept
parse_and_cache_extensions(t) ==
  /\ call[t].pc = "parsing"
  /\ \/ /\ call[t].result.error # "ok" /\ UNCHANGED cell
        /\ call' = [call EXCEPT ![t].pc = "done"]
     \/ /\ call[t].result.error = "ok" /\ StoreOnce(t)
        /\ call' = [call EXCEPT ![t] = [pc |-> "done", by |-> cell'.by, result |-> Ok(cell'.exts)]]
  /\ UNCHANGED << kind, builder, raw, status >>

Next ==
  \/ \E i \in DOMAIN Values, c \in BOOLEAN : add_extension(Values[i], c)
  \/ Build
  \/ \E i \in DOMAIN Foreign : Receive(Foreign[i])
  \/ \E t \in Threads : Get(t) \/ parse_and_cache_extensions(t)

Spec == Init /\ [][Next]_vars

-----------------------------------------------------------------------------
(* Properties                                                              *)

Answers == {call[t] : t \in {u \in Threads : call[u].pc = "done"}}

\* Every call of the getter of one document returns the same object, also the
\* calls that parsed at the same time, or they all raise the same exception:
\* an error of one call is not kept for, or hidden from, another.
OneObject == \A a, b \in Answers : a.result = b.result /\ (a.result.error = "ok" => a.by = b.by)

\* The values that the encoding is known to lose: a distribution point with an
\* empty full name hides the relative name, an issuing distribution point
\* writes one of two names, an empty usage list and a list of timestamps
\* longer than its length field cannot be read.
Lossy(e) ==
  \/ e.oid \in PointsOids /\ \E i \in DOMAIN e.v : e.v[i].full_name = << >>
  \/ e.oid = "IssuingDistributionPoint" /\ ~Missing(e.v.full_name) /\ e.v.relative_name # Nil
  \/ e.oid = "ExtendedKeyUsage" /\ e.v = << >>
  \/ e.oid \in SctOids /\ Len(Concatenated(e.v)) >= Byte ^ 2

EmptyReasons(e) == e.known /\ e.oid \in PointsOids /\ \E i \in DOMAIN e.v : e.v[i].reasons = {}

\* What a value means once absent and empty are the same, and a date is of whole
\* ticks in UTC
Meaning(oid, v) ==
  CASE oid = "CertificatePolicies" ->
         [i \in DOMAIN v |->
           [v[i] EXCEPT !.qualifiers =
             IF Missing(@) THEN Nil
             ELSE [j \in DOMAIN @ |-> IF @[j].id = "UserNotice" /\ Falsy(@[j].text)
                                       THEN [@[j] EXCEPT !.text = Nil] ELSE @[j]]]]
    [] oid = "IssuingDistributionPoint" ->
         [v EXCEPT !.full_name = IF Missing(@) THEN Nil ELSE @,
                   !.reasons = IF @ = {} THEN Nil ELSE @]
    [] oid = "InvalidityDate" ->
         datetime_to_py(WholeTicks(v.at - (IF v.offset = Nil THEN 0 ELSE v.offset)))
    [] OTHER -> v

\* e was written, and r was read in its place, in a document of kind k
Corresponds(k, e, r) ==
  /\ r.oid = e.oid /\ r.critical = e.critical
  /\ r.known <=> e.oid \in Recognised[k]
  /\ e.known /\ r.known => r.v = Meaning(e.oid, e.v)
  /\ ~e.known /\ ~r.known => r.v = e.v

ReadsAs(k, exts, r) ==
  (\A i \in DOMAIN exts : exts[i].known /\ ~Lossy(exts[i])) =>
    /\ r.error = "ok" /\ Len(r.v) = Len(exts)
    /\ \A i \in DOMAIN exts : Corresponds(k, exts[i], r.v[i])

\* What a program gave to a builder is what the document's readers get: in
\* order, with its criticality, and with the same meaning, across integers
\* with a sign byte, bit strings without their trailing zeros, masks, times in
\* UTC without their microseconds and framed lists.
ReadBack == status = "built" => \A a \in Answers : ReadsAs(kind, builder, a.result)

\* Extensions that were read can be written into a new document of the same
\* kind, and are then read as before; the unwraps of the encoders fail for
\* nothing but a distribution point whose reasons have no bit set.
Rewritable ==
  /\ status = "panic" => \E i \in DOMAIN builder : EmptyReasons(builder[i])
  /\ \A a \in Answers :
       a.result.error = "ok" =>
         LET again == encode_extensions(a.result.v)
         IN  \/ again.error = "panic" /\ \E i \in DOMAIN a.result.v : EmptyReasons(a.result.v[i])
             \/ again.error = "ok" /\ ReadsAs(kind, a.result.v, Parsed(kind, again.v))

-----------------------------------------------------------------------------
(* Proofs                                                                  *)

\* Calls begin when the document is there, and it does not change any more;
\* what is in the cell is what parsing it gives, and who has an answer has
\* what is in the cell, or the error that parsing gives
CellInv ==
  LET r == Parsed(kind, raw)
  IN  /\ call = [t \in Threads |-> call[t]]
      /\ status \notin {"built", "received"} =>
           cell.by = Nil /\ \A t \in Threads : call[t].pc = "idle"
      /\ cell.by # Nil => r.error = "ok" /\ cell.exts = r.v
      /\ \A t \in Threads :
           /\ call[t] = [pc |-> call[t].pc, by |-> call[t].by, result |-> call[t].result]
           /\ call[t].pc = "parsing" => call[t].result = r
           /\ call[t].pc = "done" =>
                \/ /\ r.error = "ok" /\ cell.by # Nil
                   /\ call[t].by = cell.by /\ call[t].result = Ok(r.v)
                \/ r.error # "ok" /\ call[t].result = r

LEMMA CellSuffices == CellInv => OneObject
BY DEF CellInv, OneObject, Answers, Ok

LEMMA CellInit == Init => CellInv
BY DEF Init, CellInv, Idle, EmptyCell

\* Until the document is there, no call has begun
LEMMA WritingKeeps ==
  ASSUME CellInv, status = "building", UNCHANGED << cell, call >>
  PROVE  CellInv'
<1>1. cell.by = Nil /\ \A t \in Threads : call[t].pc = "idle"
  BY DEF CellInv
<1>2. QED
  BY <1>1 DEF CellInv

LEMMA GetKeeps ==
  ASSUME CellInv, NEW t \in Threads, Get(t)
  PROVE  CellInv'
<1> DEFINE r == Parsed(kind, raw)
           answer == IF cell.by # Nil THEN [pc |-> "done", by |-> cell.by, result |-> Ok(cell.exts)]
                     ELSE [pc |-> "parsing", by |-> t, result |-> Parsed(kind, raw)]
<1>1. /\ UNCHANGED << kind, raw, status, cell >> /\ status \in {"built", "received"}
      /\ call' = [call EXCEPT ![t] = answer]
  BY DEF Get
<1>2. /\ answer = [pc |-> answer.pc, by |-> answer.by, result |-> answer.result]
      /\ answer.pc = "parsing" => answer.result = r
      /\ answer.pc = "done" => /\ r.error = "ok" /\ cell.by # Nil
                               /\ answer.by = cell.by /\ answer.result = Ok(r.v)
  BY DEF CellInv
<1> HIDE DEF answer
<1>3. Parsed(kind', raw') = r
  BY <1>1
<1> HIDE DEF r
<1>4. /\ call'[t] = answer /\ \A u \in Threads \ {t} : call'[u] = call[u]
      /\ call' = [u \in Threads |-> call'[u]]
  BY <1>1 DEF CellInv
<1>5. QED
  BY <1>1, <1>2, <1>3, <1>4 DEF CellInv, r

LEMMA ParseKeeps ==
  ASSUME CellInv, NEW t \in Threads, parse_and_cache_extensions(t)
  PROVE  CellInv'
<1> DEFINE r == Parsed(kind, raw)
<1>1. /\ UNCHANGED << kind, raw, status >> /\ call[t].pc = "parsing" /\ call[t].result = r
      /\ status \in {"built", "received"}
  BY DEF parse_and_cache_extensions, CellInv
<1>2. Parsed(kind', raw') = r
  BY <1>1
<1>3. CASE /\ r.error # "ok" /\ UNCHANGED cell
           /\ call' = [call EXCEPT ![t].pc = "done"]
  <2> DEFINE c == [call[t] EXCEPT !.pc = "done"]
  <2>1. c = [pc |-> "done", by |-> call[t].by, result |-> r]
    BY <1>1 DEF CellInv
  <2> HIDE DEF c, r
  <2>2. /\ call'[t] = c /\ \A u \in Threads \ {t} : call'[u] = call[u]
        /\ call' = [u \in Threads |-> call'[u]]
    BY <1>3 DEF CellInv, c
  <2>3. QED
    BY <1>1, <1>2, <1>3, <2>1, <2>2 DEF CellInv, r
<1>4. CASE /\ r.error = "ok" /\ StoreOnce(t)
           /\ call' = [call EXCEPT ![t] = [pc |-> "done", by |-> cell'.by, result |-> Ok(cell'.exts)]]
  <2>1. /\ cell'.by # Nil /\ cell'.exts = r.v
        /\ cell.by # Nil => cell' = cell
    BY <1>1, <1>4, ExtensionsAssumption DEF StoreOnce, CellInv
  <2> DEFINE c == [pc |-> "done", by |-> cell'.by, result |-> Ok(r.v)]
  <2>2. c = [pc |-> c.pc, by |-> c.by, result |-> c.result]
        /\ c.pc = "done" /\ c.by = cell'.by /\ c.result = Ok(r.v)
    OBVIOUS
  <2> HIDE DEF c
  <2>3. /\ call'[t] = c /\ \A u \in Threads \ {t} : call'[u] = call[u]
        /\ call' = [u \in Threads |-> call'[u]]
    BY <1>4, <2>1 DEF CellInv, c
  <2> HIDE DEF r
  <2>4. QED
    BY <1>1, <1>2, <1>4, <2>1, <2>2, <2>3 DEF CellInv, r
<1>5. QED
  BY <1>1, <1>3, <1>4 DEF parse_and_cache_extensions

LEMMA CellNext == CellInv /\ [Next]_vars => CellInv'
<1> SUFFICES ASSUME CellInv, [Next]_vars PROVE CellInv'
  OBVIOUS
<1>1. ASSUME NEW i \in DOMAIN Values, NEW c \in BOOLEAN, add_extension(Values[i], c) PROVE CellInv'
  BY <1>1, WritingKeeps DEF add_extension
<1>2. CASE Build
  BY <1>2, WritingKeeps DEF Build
<1>3. ASSUME NEW i \in DOMAIN Foreign, Receive(Foreign[i]) PROVE CellInv'
  BY <1>3, WritingKeeps DEF Receive
<1>4. ASSUME NEW t \in Threads, Get(t) PROVE CellInv'
  BY <1>4, GetKeeps
<1>5. ASSUME NEW t \in Threads, parse_and_cache_extensions(t) PROVE CellInv'
  BY <1>5, ParseKeeps
<1>6. CASE UNCHANGED vars
  BY <1>6 DEF CellInv, vars
<1>7. QED
  BY <1>1, <1>2, <1>3, <1>4, <1>5, <1>6 DEF Next

\* All readers of the extensions getter of a document get one object, or all
\* the same exception, for any number of threads and any document: the cell of
\* parse_and_cache_extensions keeps the first object that was parsed
THEOREM OneObjectForAll == Spec => []OneObject
BY CellInit, CellNext, CellSuffices, PTL DEF Spec
=============================================================================

----------------------------- MODULE RecordText -----------------------------
(***************************************************************************)
(* The text of the record files: the field parser of server/Source/        *)
(* SimpleDB.c, the marks that SimpleDBTxt.c writes into lines, and the     *)
(* records of interface_devicelist.c and interface_grouplist.c as they are *)
(* composed and read back.  The other modules only ask whether a record is *)
(* readable; here is why.                                                  *)
(*                                                                         *)
(* A line is a sequence of tokens, its first character, the mark, apart.   *)
(* Blanks are left out, and fields that are parsed like another one too: a *)
(* device has its IEEE address, network address, endpoint and name.        *)
(***************************************************************************)
EXTENDS RecordFile

CONSTANTS DeviceRecords, \* records of devices the gateway writes
          GroupRecords,  \* records of groups the gateway writes
          HandLines,     \* per kind of list, lines a person writes into a file
          PlainName,     \* names of at most 32 characters without a quote
          LongName,      \* longer names
          QuoteName,     \* names with a quote in them
          NewlineName,   \* names with a line feed in them
          NoRec,         \* what a malformed line says
          HexLen,        \* bytes of an IEEE address: 8
          MaxMembers,    \* members a group is read back with: 20
          ULongMax,      \* the largest unsigned long
          MaxLines       \* bound: lines in the file

Byte == 256

AnyName == PlainName \cup LongName \cup QuoteName \cup NewlineName

\* The fields of the records, as wide as their variables.
DeviceRecord == [ieee : [1..HexLen -> 0..(Byte - 1)], na : 0..(Byte ^ 2 - 1),
                 ep : 0..(Byte - 1), name : AnyName]

GroupRecord == [id : 0..(Byte ^ 2 - 1), name : AnyName,
                members : Seq([na : 0..(Byte ^ 2 - 1), ep : 0..(Byte - 1)])]

ASSUME NameAssumption == /\ PlainName \cap (LongName \cup QuoteName \cup NewlineName) = {}
                         /\ LongName \cap (QuoteName \cup NewlineName) = {}
ASSUME RecordAssumption == /\ DeviceRecords \subseteq DeviceRecord
                           /\ GroupRecords \subseteq GroupRecord
                           /\ NoRec \notin DeviceRecord \cup GroupRecord
ASSUME WidthAssumption == HexLen \in Nat \ {0} /\ ULongMax \in Nat /\ ULongMax > 65535
ASSUME BoundAssumption == MaxMembers \in Nat /\ MaxLines \in Nat

VARIABLES kind,   \* which of the lists this is
          file,   \* its lines
          errno,  \* "none", "range" (ERANGE) or "other"
          up,     \* the gateway runs
          found   \* the record the last search has found

vars == <<kind, file, errno, up, found>>

\* A line: whole if a line feed ends it, short if the mark of a bad line does
\* not fit; of is history: the record its writer meant.
Line(text, rec) ==
    [mark |-> " ", text |-> text, whole |-> TRUE, short |-> FALSE, of |-> rec]

Ignored == {";", "?", "@"}     \* deleted; bad, without and with a comment

Token == [t : {"num"}, v : Nat] \cup [t : {"quoted"}, name : AnyName \cup {"part"}]
           \cup [t : {"comma", "colon", "open", "junk"}]

AnyLine == [mark : {" "} \cup Ignored, text : Seq(Token), whole : BOOLEAN, short : BOOLEAN,
            of : DeviceRecord \cup GroupRecord \cup {NoRec}]

-----------------------------------------------------------------------------
(* Composing lines. *)

Num(v) == [t |-> "num", v |-> v]
Comma == [t |-> "comma"]
Colon == [t |-> "colon"]
Quoted(n) == [t |-> "quoted", name |-> n]
OpenQuote == [t |-> "open"]    \* a quote and no other one in the line
Junk == [t |-> "junk"]         \* what no field starts with

\* An inner quote ends the name early; an inner line feed ends the line, and
\* what follows is the next one.
NameTokens(n) == IF n \in QuoteName THEN <<Quoted("part"), Junk>> ELSE <<Quoted(n)>>

TwoLines(before, n, after, rec) ==
    IF n \in NewlineName
      THEN <<Line(before \o <<OpenQuote>>, rec), Line(<<Junk>> \o after, NoRec)>>
      ELSE <<Line(before \o NameTokens(n) \o after, rec)>>

\* The last byte first.
HexTokens(bytes) ==
    [k \in 1..(2 * Len(bytes) - 1) |->
       IF k % 2 = 1 THEN Num(Reverse(bytes)[(k + 1) \div 2]) ELSE Colon]

DeviceLines(r) ==
    TwoLines(HexTokens(r.ieee) \o <<Comma, Num(r.na), Comma, Num(r.ep), Comma>>,
             r.name, <<>>, r)

\* A comma, a network address, a comma, an endpoint, a comma and so on.
MemberTokens(members) ==
    [k \in 1..(4 * Len(members)) |->
       LET m == members[(k + 3) \div 4] IN
       IF k % 2 = 1 THEN Comma ELSE Num(IF k % 4 = 2 THEN m.na ELSE m.ep)]

GroupLines(g) ==
    TwoLines(<<Num(g.id), Comma>>, g.name, MemberTokens(g.members), g)

-----------------------------------------------------------------------------
(* The field parser.  Its state: what is left of the line, the result code,  *)
(* errno, and the fields so far.                                             *)

Failed(p) == p.code \notin {"ok", "end"}

\* sdb_txt_parser_move_to_next_field.
NextField(p) ==
    IF p.code # "ok" THEN p
    ELSE IF p.rest = <<>> THEN [p EXCEPT !.code = "end"]
    ELSE IF Head(p.rest) = Comma THEN [p EXCEPT !.rest = Tail(@)]
    ELSE [p EXCEPT !.code = "unexpected"]

AtNumber(p) == p.rest # <<>> /\ Head(p.rest).t = "num"

\* strtoul: without a number there, 0 and nothing read.
Value(p) == IF AtNumber(p) THEN Head(p.rest).v ELSE 0

\* Nothing clears errno: out of range once, it stays so.
Strtoul(p) ==
    [p EXCEPT !.rest = IF AtNumber(p) THEN Tail(@) ELSE @,
              !.errno = IF Value(p) > ULongMax THEN "range" ELSE @]

\* Mutant: any value of errno is an error.
AnyErrno(p, limit) == Strtoul(p).errno # "none" \/ Value(p) > limit

OutOfRange(p, limit) == Strtoul(p).errno = "range" \/ Value(p) > limit

\* One byte of a hex field, and the colon if another one follows.
HexByte(p, more) ==
    LET q == [Strtoul(p) EXCEPT !.bytes = <<Value(p)>> \o @] IN
    CASE p.code # "ok"                          -> p
      [] p.code = "ok" /\ OutOfRange(p, Byte - 1) -> [Strtoul(p) EXCEPT !.code = "range"]
      [] OTHER -> IF ~more THEN q
                  ELSE IF q.rest # <<>> /\ Head(q.rest) = Colon
                         THEN [q EXCEPT !.rest = Tail(@)]
                         ELSE [q EXCEPT !.code = "hex"]

\* sdb_txt_parser_get_hex_field: the bytes are stored from the last one.
GetHex(p) ==
    LET upTo[i \in 0..HexLen] == IF i = 0 THEN p ELSE HexByte(upTo[i - 1], i < HexLen)
        q == upTo[HexLen]
    IN  IF p.code = "end" THEN [p EXCEPT !.code = "missing"]
        ELSE IF q.code # "ok" THEN q
        ELSE NextField([q EXCEPT !.fields = Append(@, q.bytes)])

\* Mutant: the largest number of this many bytes.
FieldLimitFull(len) == Byte ^ len - 1

\* The largest number the check lets through: 16#FF shifted by all bytes but one.
FieldLimit(len) == 255 * Byte ^ (len - 1)

\* sdb_txt_parser_get_numeric_field, for unsigned fields: no other is used.
GetNumber(p, len) ==
    CASE p.code = "end" -> [p EXCEPT !.code = "missing"]
      [] p.code = "ok" /\ OutOfRange(p, FieldLimit(len)) ->
           [Strtoul(p) EXCEPT !.code = "range"]
      [] p.code = "ok" /\ ~OutOfRange(p, FieldLimit(len)) ->
           NextField([Strtoul(p) EXCEPT !.fields = Append(@, Value(p) % Byte ^ len)])
      [] OTHER -> p

\* sdb_txt_parser_get_quoted_string.
GetQuoted(p) ==
    LET tok == Head(p.rest) IN
    CASE p.code = "end" -> [p EXCEPT !.code = "missing"]
      [] p.code \notin {"ok", "end"} -> p
      [] p.code = "ok" /\ p.rest = <<>> -> [p EXCEPT !.code = "startquote"]
      [] OTHER ->
           CASE tok.t = "open" -> [p EXCEPT !.code = "endquote"]
             [] tok.t = "quoted" /\ tok.name \in LongName -> [p EXCEPT !.code = "toolong"]
             [] tok.t = "quoted" /\ tok.name \notin LongName ->
                  NextField([p EXCEPT !.rest = Tail(@), !.fields = Append(@, tok.name)])
             [] OTHER -> [p EXCEPT !.code = "startquote"]

Start(text, e) == [rest |-> text, code |-> "ok", errno |-> e, bytes |-> <<>>, fields |-> <<>>]

\* devListParseRecord.
ParseDevice(text, e) ==
    GetQuoted(GetNumber(GetNumber(GetHex(Start(text, e)), 2), 1))

\* Mutant: one more than there is room for.
MembersReadOneMore == MaxMembers + 1

MembersRead == MaxMembers

\* groupListParseRecord (and sceneListParseRecord, with a field more): members
\* are read as long as there are some and there is room; what follows is left.
ParseGroup(text, e) ==
    LET members[i \in 0..MembersRead] ==
          IF i = 0 THEN GetQuoted(GetNumber(Start(text, e), 2))
          ELSE IF members[i - 1].code # "ok" THEN members[i - 1]
          ELSE GetNumber(GetNumber(members[i - 1], 2), 1)
    IN  members[MembersRead]

\* Of a list of kind k, the lines that are what the gateway writes for a record,
\* and the ones the parser rejects.
Meant(k) ==
    {l \in AnyLine :
       IF l.of = NoRec
         THEN \A e \in {"none", "other"} :
                Failed(IF k = "device" THEN ParseDevice(l.text, e) ELSE ParseGroup(l.text, e))
         ELSE IF k = "device"
           THEN l.of \in DeviceRecord /\ l.text = Head(DeviceLines(l.of)).text
           ELSE l.of \in GroupRecord /\ l.text = Head(GroupLines(l.of)).text}

ASSUME HandAssumption == \A k \in {"device", "group"} : HandLines[k] \subseteq Meant(k)

Parse(text, e) == IF kind = "device" THEN ParseDevice(text, e) ELSE ParseGroup(text, e)

\* The record of the fields.
Reading(p) ==
    LET f == p.fields IN
    IF kind = "device"
      THEN [ieee |-> f[1], na |-> f[2], ep |-> f[3], name |-> f[4]]
      ELSE [id |-> f[1], name |-> f[2],
            members |-> [k \in 1..((Len(f) - 2) \div 2) |->
                           [na |-> f[2 * k + 1], ep |-> f[2 * k + 2]]]]

Key(r) == IF kind = "device" THEN r.na ELSE r.id
-----------------------------------------------------------------------------
(* Reading the file. *)

\* Marks: sdbtMarkError writes the error over the blanks at the start of a line
\* and nothing if the line is too short for it.
MarkError(l) == IF l.short THEN l ELSE [l EXCEPT !.mark = "?"]

\* The state of a search: what is left to do of it, the line it found.
Begin(f, e) == [file |-> f, errno |-> e, at |-> 0, rec |-> NoRec, over |-> FALSE]

\* Mutant: a line that cannot be parsed ends the search.
RejectAndStop(s, i, p) ==
    [s EXCEPT !.file[i] = MarkError(@), !.errno = p.errno, !.over = TRUE]

Reject(s, i, p) == [s EXCEPT !.file[i] = MarkError(@), !.errno = p.errno]

\* One line: without a line feed it ends the search; deleted or bad it is
\* skipped; else it is parsed, and its key compared with k.
Examine(s, i, k) ==
    LET l == s.file[i]
        p == Parse(l.text, s.errno)
    IN  CASE s.over                                -> s
          [] ~s.over /\ ~l.whole                   -> [s EXCEPT !.over = TRUE]
          [] ~s.over /\ l.whole /\ l.mark \in Ignored -> s
          [] OTHER -> IF Failed(p) THEN Reject(s, i, p)
                      ELSE IF Key(Reading(p)) = k
                        THEN [s EXCEPT !.at = i, !.rec = Reading(p), !.over = TRUE]
                        ELSE s

\* sdb_get_record with a key.
Search(f, e, k) ==
    LET scan[i \in 0..Len(f)] == IF i = 0 THEN Begin(f, e) ELSE Examine(scan[i - 1], i, k)
    IN  scan[Len(f)]

-----------------------------------------------------------------------------
(* The process and the file. *)

Init ==
    /\ kind \in {"device", "group"}
    /\ file = <<>>
    /\ errno = "none"
    /\ up = FALSE
    /\ found = NoRec

Records == IF kind = "device" THEN DeviceRecords ELSE GroupRecords

Keys == {Key(r) : r \in Records}

Lines(r) == IF kind = "device" THEN DeviceLines(r) ELSE GroupLines(r)

\* devListAddDevice, groupListAddGroup.
Add(r) ==
    /\ up
    /\ Len(file) + Len(Lines(r)) <= MaxLines
    /\ file' = file \o Lines(r)
    /\ UNCHANGED <<kind, errno, up, found>>

Find(k) ==
    /\ up
    /\ LET s == Search(file, errno, k) IN
         /\ file' = s.file
         /\ errno' = s.errno
         /\ found' = s.rec
    /\ UNCHANGED <<kind, up>>

\* sdb_delete_record: the line that is found is marked.
Delete(k) ==
    /\ up
    /\ LET s == Search(file, errno, k) IN
         /\ file' = IF s.at = 0 THEN s.file ELSE [s.file EXCEPT ![s.at].mark = ";"]
         /\ errno' = s.errno
         /\ found' = s.rec
    /\ UNCHANGED <<kind, up>>

\* devListGetNextDev, groupListGetNextGroup, to the end of the list.
ListAll ==
    /\ up
    /\ LET s == Search(file, errno, NoRec) IN file' = s.file /\ errno' = s.errno
    /\ UNCHANGED <<kind, up, found>>

\* A call of the C library fails elsewhere, say a read of the serial line that
\* finds nothing.
OtherCallFails ==
    /\ up
    /\ errno' = "other"
    /\ UNCHANGED <<kind, file, up, found>>

Stop ==
    /\ up
    /\ up' = FALSE
    /\ found' = NoRec
    /\ UNCHANGED <<kind, file, errno>>

\* "... or as bad format (can happen if edited manually)": a person writes a
\* line into the file of a gateway that is down, or over one.
Edit(i, l) ==
    /\ ~up
    /\ i \in 1..(Len(file) + 1) /\ i <= MaxLines
    /\ file' = IF i > Len(file) THEN Append(file, l) ELSE [file EXCEPT ![i] = l]
    /\ UNCHANGED <<kind, errno, up, found>>

\* The lines a reader comes to: one without a line feed ends the file.
Reached(f) == {i \in DOMAIN f : \A j \in 1..i : f[j].whole}

\* Mutant: the copy ends at a line that is marked as bad.
CopiedToBad(f) ==
    Selected(f, {i \in Reached(f) : f[i].mark # ";" /\ \A j \in 1..(i - 1) : f[j].mark # "?"})

\* What the copy loop reads and writes: deleted lines go.
Copied(f) == Selected(f, {i \in Reached(f) : f[i].mark # ";"})

\* sdb_consolidate_db with sdbtErrorComment: a bad line gets its comment.
StartUp ==
    /\ ~up
    /\ file' = [i \in DOMAIN Copied(file) |->
                  IF Copied(file)[i].mark = "?" THEN [Copied(file)[i] EXCEPT !.mark = "@"]
                  ELSE Copied(file)[i]]
    /\ errno' = "none"
    /\ up' = TRUE
    /\ UNCHANGED <<kind, found>>

Next ==
    \/ \E r \in Records : Add(r)
    \/ \E k \in Keys : Find(k) \/ Delete(k)
    \/ ListAll \/ OtherCallFails \/ Stop \/ StartUp
    \/ \E i \in 1..MaxLines, l \in HandLines[kind] : Edit(i, l)

Spec == Init /\ [][Next]_vars
-----------------------------------------------------------------------------
(* Correctness. *)

\* The records that survive a line: numbers up to the limit of their width and
\* a name that is one string of the line.
Readable(r) ==
    /\ r.name \in PlainName
    /\ IF kind = "device" THEN r.na <= 65280
       ELSE /\ r.id <= 65280
            /\ \A k \in DOMAIN r.members \cap (1..MaxMembers) : r.members[k].na <= 65280

\* A group is read back with its first MaxMembers members.
ReadBack(r) ==
    IF kind = "device" THEN r
    ELSE [r EXCEPT !.members = SubSeq(@, 1, IF Len(@) < MaxMembers THEN Len(@) ELSE MaxMembers)]

Says(l) == l.mark = " " /\ l.of # NoRec /\ Readable(l.of)

\* What is written is what is read: a record the gateway writes, or a person who
\* gets it right, reads back as it is, whatever calls have failed before; and
\* one with a number above 16#FF00, or a name that breaks the line, does not.
ReadsBack ==
    \A i \in DOMAIN file, e \in {"none", "other"} :
       LET l == file[i]
           p == Parse(l.text, e)
       IN  l.mark = " " /\ l.whole /\ l.of # NoRec =>
             IF Readable(l.of) THEN ~Failed(p) /\ Reading(p) = ReadBack(l.of) ELSE Failed(p)

\* "in case of a bad-format record - skip it and read the next one"
\* (interface_devicelist.c:284): a search finds the first record with its key,
\* past any number of bad lines, as long as none of them is out of range for
\* strtoul.  RecordFile's searches take this for granted.
FindsFirst ==
    [][\A k \in Keys : Find(k) /\ errno' # "range" =>
         LET hits == {i \in Reached(file) : Says(file[i]) /\ Key(file[i].of) = k}
         IN  found' = IF hits = {} THEN NoRec ELSE ReadBack(file[FirstOf(hits)].of)]_vars

\* A good line is never marked as bad, but by a process that has met a number
\* strtoul cannot represent; from there on it marks every line it comes by.
GoodLinesSurvive ==
    [][up /\ up' =>
         \A i \in DOMAIN file : Says(file[i]) /\ file'[i].mark \in {"?", "@"}
                                  => errno' = "range"]_vars

\* "only deleted lines should be removed. Ignored lines should stay."
\* (SimpleDB.c:263): whatever the lines are, a fresh process finds for each key
\* after the consolidation what it would have found before.
RestartKeepsAnswers ==
    [][~up /\ up' =>
         \A k \in Keys : Search(file', "none", k).rec = Search(file, "none", k).rec]_vars
=============================================================================

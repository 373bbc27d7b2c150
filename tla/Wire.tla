-------------------------------- MODULE Wire --------------------------------
(***************************************************************************)
(* What goes over the wire and how it is read back: core/json.c, dechunk   *)
(* and url_split of the platform layer, and the requests of infer_api.c    *)
(* and prompt_render of core/prompt.c, which show one conversation to two  *)
(* kinds of model, and the screenshots that go with them (png.c, base64).  *)
(*                                                                         *)
(* A text is a sequence of symbols.  Structure is parsed on tokens, where  *)
(* a string literal is the token "s" and a number "1".                     *)
(***************************************************************************)
EXTENDS Integers, Sequences, FiniteSets, SequencesExt

CONSTANT BlockMax       \* 65535 in png.c: the most a stored block may hold

Quote == "\""
Slash == "\\"

(***************************************************************************)
(* String literals.  "soh" stands for the control characters without a     *)
(* short escape.                                                           *)
(***************************************************************************)
Named == [n |-> "\n", r |-> "\r", t |-> "\t", f |-> "\f", b |-> "backspace"]
Hex4 == <<"0", "0", "0", "1">>

EscapeOne(c) ==
  CASE c \in {Quote, Slash} -> <<Slash, c>>
    [] c \in Range(Named) -> <<Slash, CHOOSE k \in DOMAIN Named : c = Named[k]>>
    [] c = "soh" -> <<Slash, "u">> \o Hex4
    [] OTHER -> <<c>>

(* Mutant of Escape: a backslash goes out as it is. *)
EscapeQuotesOnly(s) ==
  FlattenSeq([i \in DOMAIN s |-> IF s[i] = Slash THEN <<Slash>> ELSE EscapeOne(s[i])])

Escape(s) == FlattenSeq([i \in DOMAIN s |-> EscapeOne(s[i])])

(* parse_string_raw from position i, after the opening quote: the decoded  *)
(* text and the position after the closing one, or a failure.              *)
Bad == [ok |-> FALSE, val |-> <<>>, next |-> 0]

RECURSIVE ParseString(_, _, _)
ParseString(s, i, sofar) ==
  LET esc == s[i + 1]
  IN IF i > Len(s) THEN Bad
     ELSE IF s[i] = Quote THEN [ok |-> TRUE, val |-> sofar, next |-> i + 1]
     ELSE IF s[i] # Slash THEN ParseString(s, i + 1, Append(sofar, s[i]))
     ELSE IF i = Len(s) THEN Bad
     ELSE IF esc \in {Quote, Slash, "/"} THEN ParseString(s, i + 2, Append(sofar, esc))
     ELSE IF esc \in DOMAIN Named THEN ParseString(s, i + 2, Append(sofar, Named[esc]))
     ELSE IF esc = "u" /\ i + 5 <= Len(s) /\ SubSeq(s, i + 2, i + 5) = Hex4
     THEN ParseString(s, i + 6, Append(sofar, "soh"))
     ELSE Bad

Literal(s) == <<Quote>> \o Escape(s) \o <<Quote>>

(* A text survives being escaped and parsed, and no literal that was cut   *)
(* short parses.                                                           *)
TextSurvives(s) ==
  LET lit == Literal(s)
  IN /\ ParseString(lit, 2, <<>>) = [ok |-> TRUE, val |-> s, next |-> Len(lit) + 1]
     /\ \A n \in 1 .. Len(lit) - 1 : ~ParseString(SubSeq(lit, 1, n), 2, <<>>).ok

(***************************************************************************)
(* Code points: \uXXXX escapes with surrogate pairs, and their UTF-8.      *)
(***************************************************************************)
FromUnits(hi, lo) ==
  IF hi \in 55296 .. 56319 /\ lo \in 56320 .. 57343
  THEN 65536 + (hi - 55296) * 1024 + (lo - 56320)
  ELSE hi

Utf8(cp) ==
  LET six(k) == 128 + ((cp \div (64 ^ k)) % 64)
  IN CASE cp < 128 -> <<cp>>
       [] cp \in 128 .. 2047 -> <<192 + (cp \div 64), six(0)>>
       [] cp \in 2048 .. 65535 -> <<224 + (cp \div 4096), six(1), six(0)>>
       [] OTHER -> <<240 + (cp \div 262144), six(2), six(1), six(0)>>

CodePoint(b) ==             \* the reference: UTF-8 read by its definition
  LET low(i) == b[i] - 128
  IN CASE Len(b) = 1 -> b[1]
       [] Len(b) = 2 -> (b[1] - 192) * 64 + low(2)
       [] Len(b) = 3 -> (b[1] - 224) * 4096 + low(2) * 64 + low(3)
       [] Len(b) = 4 -> (b[1] - 240) * 262144 + low(2) * 4096 + low(3) * 64 + low(4)

Units(cp) == IF cp < 65536 THEN <<cp, 0>>
             ELSE <<55296 + ((cp - 65536) \div 1024), 56320 + ((cp - 65536) % 1024)>>

CodePointSurvives(cp) == CodePoint(Utf8(FromUnits(Units(cp)[1], Units(cp)[2]))) = cp

(***************************************************************************)
(* Values: json_parse on tokens.  Text after the value is not looked at.   *)
(***************************************************************************)
Null == [t |-> "none", keys |-> <<>>, items |-> <<>>]
Atom(t) == [t |-> t, keys |-> <<>>, items |-> <<>>]
Fail == [ok |-> FALSE, val |-> Null, next |-> 0]
At(s, i) == IF i \in DOMAIN s THEN s[i] ELSE "end"

RECURSIVE ParseValue(_, _), Members(_, _, _), Elements(_, _, _)

ParseValue(s, i) ==
  CASE At(s, i) \in {"s", "1"} -> [ok |-> TRUE, val |-> Atom(At(s, i)), next |-> i + 1]
    [] At(s, i) = "{" -> IF At(s, i + 1) = "}"
                         THEN [ok |-> TRUE, val |-> Atom("object"), next |-> i + 2]
                         ELSE Members(s, i + 1, Atom("object"))
    [] At(s, i) = "[" -> IF At(s, i + 1) = "]"
                         THEN [ok |-> TRUE, val |-> Atom("array"), next |-> i + 2]
                         ELSE Elements(s, i + 1, Atom("array"))
    [] OTHER -> Fail

Members(s, i, obj) ==
  LET v == ParseValue(s, i + 2)
      more == [obj EXCEPT !.keys = Append(@, s[i]), !.items = Append(@, v.val)]
  IN IF At(s, i) # "s" \/ At(s, i + 1) # ":" THEN Fail
     ELSE IF ~v.ok THEN Fail
     ELSE CASE At(s, v.next) = "," -> Members(s, v.next + 1, more)
            [] At(s, v.next) = "}" -> [ok |-> TRUE, val |-> more, next |-> v.next + 1]
            [] OTHER -> Fail

Elements(s, i, arr) ==
  LET v == ParseValue(s, i)
      more == [arr EXCEPT !.items = Append(@, v.val)]
  IN IF ~v.ok THEN Fail
     ELSE CASE At(s, v.next) = "," -> Elements(s, v.next + 1, more)
            [] At(s, v.next) = "]" -> [ok |-> TRUE, val |-> more, next |-> v.next + 1]
            [] OTHER -> Fail

JsonParse(s) == ParseValue(s, 1)

Get(obj, key) ==            \* json_obj_get: the first of equal keys
  LET at == {i \in DOMAIN obj.keys : obj.keys[i] = key}
  IN IF obj.t # "object" \/ at = {} THEN Null
     ELSE obj.items[CHOOSE i \in at : \A k \in at : i <= k]

RECURSIVE Tokens(_)
Join(parts) ==              \* with commas between
  FlattenSeq([i \in DOMAIN parts |-> IF i = 1 THEN parts[i] ELSE <<",">> \o parts[i]])
Tokens(v) ==                \* the reference: how such a value is written
  CASE v.t = "object" -> <<"{">> \o Join([i \in DOMAIN v.items |->
                           <<v.keys[i], ":">> \o Tokens(v.items[i])]) \o <<"}">>
    [] v.t = "array" -> <<"[">> \o Join([i \in DOMAIN v.items |-> Tokens(v.items[i])])
                         \o <<"]">>
    [] OTHER -> <<v.t>>

(* What parses is exactly the text of the value it gives, up to what       *)
(* follows it; a body that is an object or an array and was cut short does *)
(* not parse, so that half a reply is never taken for a reply.             *)
BodyIsWhole(s) ==
  LET p == JsonParse(s)
  IN p.ok => /\ Tokens(p.val) = SubSeq(s, 1, p.next - 1)
             /\ p.val.t \in {"object", "array"} =>
                  \A n \in 0 .. p.next - 2 : ~JsonParse(SubSeq(s, 1, n)).ok

(***************************************************************************)
(* Chunked bodies.                                                         *)
(***************************************************************************)
HexValue == [d \in {"0", "1", "2", "A"} |->
               CASE d = "0" -> 0 [] d = "1" -> 1 [] d = "2" -> 2 [] d = "A" -> 10]

RECURSIVE ChunkSize(_, _, _), SkipTo(_, _), SkipBreaks(_, _), DechunkFrom(_, _, _)

(* The digits at i; the size is capped before it could wrap.               *)
ChunkSize(s, i, sz) ==
  IF At(s, i) \notin DOMAIN HexValue THEN sz
  ELSE ChunkSize(s, i + 1, IF sz > Len(s) THEN Len(s) ELSE sz * 16 + HexValue[s[i]])
SkipTo(s, i) == IF At(s, i) \in {"lf", "end"} THEN i ELSE SkipTo(s, i + 1)
SkipBreaks(s, i) == IF At(s, i) \in {"cr", "lf"} THEN SkipBreaks(s, i + 1) ELSE i

DechunkFrom(s, i, out) ==
  LET digits == At(s, i) \in DOMAIN HexValue
      start == IF At(s, SkipTo(s, i)) = "lf" THEN SkipTo(s, i) + 1 ELSE SkipTo(s, i)
      size == ChunkSize(s, i, 0)
      left == Len(s) - start + 1
      take == IF size > left THEN left ELSE size
  IN IF i > Len(s) \/ ~digits \/ size = 0 THEN out
     ELSE DechunkFrom(s, SkipBreaks(s, start + take), out \o SubSeq(s, start, start + take - 1))

Dechunk(s) == DechunkFrom(s, 1, <<>>)

SizeLine(chunk) == <<CHOOSE d \in DOMAIN HexValue : HexValue[d] = Len(chunk)>>
Chunked(chunks) ==          \* the reference: how a server writes the chunks
  FlattenSeq([i \in DOMAIN chunks |->
    SizeLine(chunks[i]) \o <<"cr", "lf">> \o chunks[i] \o <<"cr", "lf">>])
  \o <<"0", "cr", "lf", "cr", "lf">>

(* The body is put together again from any chunks, whatever the data looks *)
(* like; of a body cut short a beginning is left and nothing is made up.   *)
ChunksSurvive(chunks) ==
  LET body == Chunked(chunks)
  IN /\ Dechunk(body) = FlattenSeq(chunks)
     /\ \A n \in 0 .. Len(body) : IsPrefix(Dechunk(SubSeq(body, 1, n)), FlattenSeq(chunks))

(***************************************************************************)
(* Images: the bytes of a file as base64, six bits a digit.  A digit is    *)
(* its value; Fill is the "=" of the last group.                           *)
(***************************************************************************)
Fill == 64
Sextet(v, k) == (v \div (64 ^ k)) % 64
Byte(p, i) == IF i \in DOMAIN p THEN p[i] ELSE 0

B64Group(p, i) ==           \* the bytes from i on, three or what is left
  LET v == Byte(p, i) * 65536 + Byte(p, i + 1) * 256 + Byte(p, i + 2)
  IN <<Sextet(v, 3), Sextet(v, 2),
       IF i + 1 <= Len(p) THEN Sextet(v, 1) ELSE Fill,
       IF i + 2 <= Len(p) THEN Sextet(v, 0) ELSE Fill>>

B64(p) == FlattenSeq([g \in 1 .. (Len(p) + 2) \div 3 |-> B64Group(p, 3 * g - 2)])

B64Bytes(d, g) ==           \* the reference: the bytes of the g-th group
  LET at(k) == IF d[4 * g - 4 + k] = Fill THEN 0 ELSE d[4 * g - 4 + k]
      missing == Cardinality({k \in 3 .. 4 : d[4 * g - 4 + k] = Fill})
  IN SubSeq(<<at(1) * 4 + (at(2) \div 16), (at(2) % 16) * 16 + (at(3) \div 4),
              (at(3) % 4) * 64 + at(4)>>, 1, 3 - missing)

BytesSurvive(p) ==
  /\ Len(B64(p)) % 4 = 0
  /\ FlattenSeq([g \in 1 .. Len(B64(p)) \div 4 |-> B64Bytes(B64(p), g)]) = p

(* A screenshot as a PNG: its rows, each after a filter byte, in stored    *)
(* blocks that are opened on demand; the chunk's length goes first.  A     *)
(* block is [last, size, data].                                            *)
RECURSIVE ZEmit(_, _)
ZEmit(z, p) ==
  LET size == IF z.raw > BlockMax THEN BlockMax ELSE z.raw
      opened == [z EXCEPT !.room = size,
                   !.blocks = Append(@, [last |-> size = z.raw, size |-> size, data |-> <<>>])]
      take == IF Len(p) < z.room THEN Len(p) ELSE z.room
      filled == [z EXCEPT !.room = @ - take, !.raw = @ - take,
                   !.blocks[Len(z.blocks)].data = @ \o SubSeq(p, 1, take)]
  IN IF p = <<>> THEN z
     ELSE IF z.room = 0 THEN ZEmit(opened, p)
     ELSE ZEmit(filled, SubSeq(p, take + 1, Len(p)))

PngIdat(w, rows) ==
  LET raw == (3 * w + 1) * Len(rows)
      nblocks == (raw + BlockMax - 1) \div BlockMax
      start == [raw |-> raw, room |-> 0, blocks |-> <<>>]
  IN [length |-> 2 + raw + nblocks * 5 + 4,
      blocks |-> FoldLeft(LAMBDA z, row : ZEmit(ZEmit(z, <<0>>), row), start, rows).blocks]

(* The chunk is as long as its header announced before it was written, the *)
(* blocks are full to what they say, only the last one says it is, and     *)
(* they hold the rows.                                                     *)
ImageIsWhole(w, h) ==
  LET rows == [y \in 1 .. h |-> [x \in 1 .. 3 * w |-> 10 * y + x]]
      idat == PngIdat(w, rows)
      b == idat.blocks
  IN /\ idat.length = FoldLeft(LAMBDA sum, k : sum + 5 + Len(k.data), 6, b)
     /\ \A i \in DOMAIN b : /\ Len(b[i].data) = b[i].size
                             /\ b[i].last <=> i = Len(b)
     /\ FlattenSeq([i \in DOMAIN b |-> b[i].data]) = FlattenSeq([y \in 1 .. h |-> <<0>> \o rows[y]])

(***************************************************************************)
(* URLs, after the scheme, on both platforms.                              *)
(***************************************************************************)
UpTo(s, c) == IF c \in Range(s) THEN SubSeq(s, 1, (CHOOSE i \in DOMAIN s :
                s[i] = c /\ \A k \in 1 .. i - 1 : s[k] # c) - 1) ELSE s

UrlSplit(url, https) ==
  LET authority == UpTo(url, "/")
      host == UpTo(authority, ":")
  IN [host |-> host,
      port |-> IF Len(host) < Len(authority)
               THEN SubSeq(authority, Len(host) + 2, Len(authority))
               ELSE IF https THEN <<"443">> ELSE <<"80">>,
      path |-> IF Len(authority) < Len(url)
               THEN SubSeq(url, Len(authority) + 1, Len(url)) ELSE <<"/">>]

(* Host, port and path are the URL again.                                  *)
UrlSurvives(url) ==
  LET u == UrlSplit(url, FALSE)
      port == IF ":" \in Range(UpTo(url, "/")) THEN <<":">> \o u.port ELSE <<>>
      path == IF "/" \in Range(url) THEN u.path ELSE <<>>
  IN u.host \o port \o path = url /\ u.path[1] = "/"

(***************************************************************************)
(* A conversation as the two kinds of model get it.  A message is [role,   *)
(* image], role "user", "assistant" or "result", image "none", "ok", or    *)
(* "bad": gone, empty or over IMAGE_ATTACH_MAX.                            *)
(***************************************************************************)
Wrapped(m) == m.role = "result"
Plain(m) == [attached |-> FALSE, noted |-> FALSE]
PutMsgImage(m) ==           \* the text alone when the file cannot be sent
  [attached |-> m.image = "ok", noted |-> FALSE]
OlderImage(m) == [attached |-> FALSE, noted |-> TRUE]
AsRole(m) == IF m.role = "assistant" THEN "assistant" ELSE "user"

PutHistory(h) ==            \* infer_api.c: only the newest image goes along
  LET images == {i \in DOMAIN h : h[i].image # "none"}
      newest == IF images = {} THEN 0 ELSE CHOOSE i \in images : \A k \in images : k <= i
  IN [i \in DOMAIN h |->
       [role |-> AsRole(h[i]), of |-> i, wrapped |-> Wrapped(h[i]),
        image |-> IF h[i].image = "none" THEN Plain(h[i])
                  ELSE IF i = newest THEN PutMsgImage(h[i]) ELSE OlderImage(h[i])]]

PromptRender(h) ==          \* prompt.c: ChatML has no images
  [i \in DOMAIN h |-> [role |-> AsRole(h[i]), of |-> i, wrapped |-> Wrapped(h[i])]]

Export(h) ==                \* main.c: /export
  [i \in DOMAIN h |-> CASE h[i].role = "user" -> [heading |-> "you", of |-> i]
                        [] h[i].role = "assistant" -> [heading |-> "anachron", of |-> i]
                        [] h[i].role = "result" -> [heading |-> "none", of |-> i]]

(* Both show the same turns in the same order, and so does the transcript, *)
(* where no result passes for the user's words; at most one image is sent, *)
(* none that has a newer one, and of an older one the model is told.       *)
SameConversation(h) ==
  LET api == PutHistory(h)
      sent == {i \in DOMAIN api : api[i].image.attached}
      shots == {i \in DOMAIN h : h[i].image # "none"}
  IN /\ \A i \in DOMAIN h : LET c == PromptRender(h)[i] IN
          /\ api[i].role = c.role /\ api[i].wrapped = c.wrapped /\ api[i].of = c.of
          /\ Export(h)[i].of = c.of
          /\ Export(h)[i].heading = "you" <=> c.role = "user" /\ ~c.wrapped
     /\ \A i \in sent : \A k \in DOMAIN h : k > i => h[k].image = "none"
     /\ \A i, k \in shots : i < k => api[i].image.noted
=============================================================================

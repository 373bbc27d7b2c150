--------------------------- MODULE HostedBackend ---------------------------
(***************************************************************************)
(* A generation that is asked of a server: infer_api.c (Anthropic, OpenAI  *)
(* and Gemini), infer_remote.c (llama-server), the router in infer.c, and  *)
(* the HTTP POST of both platforms they share.  The server may be          *)
(* unreachable, throttle, fail, answer with something that is no reply,    *)
(* break off in the middle, or say nothing at all; Ctrl+C may come at any  *)
(* moment.                                                                 *)
(*                                                                         *)
(* A reply is its status and its text blocks; that it came over whole is   *)
(* told apart from that it came.  A body cut short parses as nothing.      *)
(***************************************************************************)
EXTENDS Integers, Sequences, SequencesExt

CONSTANTS
  Specs,        \* model specs: [provider, base], base the URL's segments
  Routes,       \* the transports a POST may take, in the order they are tried
  Retries,      \* values of ANACHRON_API_RETRIES
  HasKey,       \* ANACHRON_API_KEY is set
  Answers,      \* what a server may answer: [status, blocks, refusal, counted]
  MaxCalls      \* bound of the model: generations

Providers == {"anthropic", "openai", "gemini", "remote"}
Transports == {"socket",     \* http:// on POSIX
               "curl",       \* https:// on POSIX
               "wininet",    \* Windows, unless ANACHRON_FORCE_CURL
               "curl.exe"}   \* Windows, https:// only
Transient == {429, 500, 502, 503, 504, 529}

ASSUME HostedAssumption ==
  /\ \A s \in Specs : s.provider \in Providers /\ s.base \in Seq(STRING)
  /\ Routes \subseteq Seq(Transports) \ {<<>>}
  /\ Retries \subseteq Int
  /\ HasKey \in BOOLEAN
  /\ \A a \in Answers : a.status \in Nat /\ a.blocks \in Seq(STRING)
  /\ MaxCalls \in Nat

VARIABLES
  be,         \* the opened backend: provider, url, route and retries
  pc,         \* "idle", "post", "wait", "judge" or "nap"
  leg,        \* which transport of the route the attempt is on
  attempt,    \* the loop counter
  got,        \* hr, status and body of the last POST; `id` is the reply's
              \* number and `whole` tells whether all of it arrived
  flag,       \* interrupt.c: g_flag
  silent,     \* the server has the request and will never answer
  replies,    \* every reply servers made to the last call, in order
  shown,      \* what on_token was given in this call
  usage,      \* the reply whose counts last_usage gives, 0 for none
  rc,         \* what the last call returned
  posts,      \* history variable: requests servers got in the running call,
  late,       \*   those of them sent after Ctrl+C,
  calls       \*   and the calls made

vars == <<be, pc, leg, attempt, got, flag, silent, replies, shown, usage, rc,
          posts, late, calls>>
Call == <<replies, shown, usage, rc, calls>>

(* The URL of a backend.  A base that ends in the endpoint is used as it   *)
(* is, one that has a path gets the last segments only.  The host counts   *)
(* as a segment, as it does for the code's comparison of endings.          *)
Leaf(provider) ==
  CASE provider = "anthropic" -> <<"messages">>
    [] provider = "remote"    -> <<"completion">>
    [] OTHER                  -> <<"chat", "completions">>

ApiEndpoint(s) ==
  LET leaf == Leaf(s.provider)
  IN IF IsSuffix(leaf, s.base) THEN s.base
     ELSE IF Len(s.base) > 1 THEN s.base \o leaf
     ELSE s.base \o <<"v1">> \o leaf

RemoteEndpoint(s) == IF Len(s.base) > 1 THEN s.base ELSE s.base \o Leaf("remote")

Endpoint(s) == IF s.provider = "remote" THEN RemoteEndpoint(s) ELSE ApiEndpoint(s)

NeedsKey(s) == s.provider \in {"anthropic", "gemini"}
Opens(s) == ~NeedsKey(s) \/ HasKey

NoReply == [hr |-> -1, status |-> 0, id |-> 0, whole |-> FALSE]

Init ==
  /\ be \in {[provider |-> s.provider, url |-> Endpoint(s),
              route |-> r, retries |-> n]
               : s \in {t \in Specs : Opens(t)}, r \in Routes, n \in Retries}
  /\ pc = "idle"
  /\ leg = 1 /\ attempt = 0 /\ got = NoReply
  /\ flag = FALSE /\ silent = FALSE
  /\ replies = <<>> /\ shown = <<>> /\ usage = 0 /\ rc = 0
  /\ posts = 0 /\ late = 0 /\ calls = 0

(* The user. *)
CtrlC ==
  /\ pc # "idle"
  /\ ~flag
  /\ flag' = TRUE
  /\ UNCHANGED <<be, pc, leg, attempt, got, silent, posts, late, Call>>

NextTurn ==                     \* the REPL clears the flag
  /\ pc = "idle"
  /\ flag
  /\ flag' = FALSE
  /\ UNCHANGED <<be, pc, leg, attempt, got, silent, posts, late, Call>>

(* Mutant of Generate: the counts of the call before stay.                *)
GenerateKeepsUsage ==
  /\ pc = "idle"
  /\ calls < MaxCalls
  /\ calls' = calls + 1
  /\ pc' = "post"
  /\ shown' = <<>>
  /\ replies' = <<>>
  /\ UNCHANGED <<be, leg, attempt, got, flag, silent, usage, rc, posts, late>>

Generate ==
  /\ pc = "idle"
  /\ calls < MaxCalls
  /\ calls' = calls + 1
  /\ pc' = "post"
  /\ shown' = <<>> /\ usage' = 0
  /\ replies' = <<>>
  /\ UNCHANGED <<be, leg, attempt, got, flag, silent, rc, posts, late>>

Transport == be.route[leg]

(* The transport gave up: WinINet's request is made again through curl.exe *)
(* when there is one, anything else is the attempt's outcome.              *)
Fallen ==
  IF leg < Len(be.route)
  THEN /\ pc' = "post" /\ leg' = leg + 1
       /\ UNCHANGED got
  ELSE /\ pc' = "judge" /\ got' = NoReply
       /\ UNCHANGED leg

CannotSend ==                   \* no address, no connection, no curl
  /\ pc = "post"
  /\ Fallen
  /\ UNCHANGED <<be, attempt, flag, silent, posts, late, Call>>

Sent ==
  /\ pc = "post"
  /\ posts' = posts + 1
  /\ late' = IF flag THEN late + 1 ELSE late
  /\ pc' = "wait"
  /\ silent' \in BOOLEAN
  /\ UNCHANGED <<be, leg, attempt, got, flag, Call>>

(* The server does its work, and is paid for it, whether or not the reply  *)
(* reaches the program.  An endpoint that is not one answers 404.          *)
Serves(a) ==
  /\ pc = "wait"
  /\ ~silent
  /\ IsSuffix(Leaf(be.provider), be.url) => a \in Answers
  /\ replies' = Append(replies, a)
  /\ UNCHANGED <<shown, usage, rc, calls>>

ReplyLost(a) ==                 \* before its headers were complete
  /\ Serves(a)
  /\ Fallen
  /\ UNCHANGED <<be, attempt, flag, silent, posts, late>>

(* What a transport reports of a reply whose headers have come.  When the  *)
(* connection breaks inside the body, the two that read it themselves take *)
(* the end of the data for the end of the reply; curl leaves with a code   *)
(* of its own, whatever the status it wrote, and what it saved is dropped. *)
Reported(a, whole) == [hr |-> 0, status |-> a.status, id |-> Len(replies'), whole |-> whole]
CurlExit(whole) == IF whole THEN 0 ELSE 18

SocketGets(a, whole) == Reported(a, whole)
WinInetGets(a, whole) == Reported(a, whole)
CurlGets(a, whole) ==
  IF CurlExit(whole) = 0 /\ a.status > 0 THEN Reported(a, TRUE) ELSE NoReply
CurlExeGets(a, whole) ==
  IF CurlExit(whole) = 0 /\ a.status > 0 THEN Reported(a, TRUE) ELSE NoReply

Gets(a, whole) ==
  CASE Transport = "socket"   -> SocketGets(a, whole)
    [] Transport = "curl"     -> CurlGets(a, whole)
    [] Transport = "wininet"  -> WinInetGets(a, whole)
    [] Transport = "curl.exe" -> CurlExeGets(a, whole)

ReplyArrives(a, whole) ==
  /\ Serves(a)
  /\ IF Gets(a, whole) = NoReply
     THEN Fallen
     ELSE /\ pc' = "judge"
          /\ got' = Gets(a, whole)
          /\ UNCHANGED leg
  /\ UNCHANGED <<be, attempt, flag, silent, posts, late>>

(* Mutant of HeedsFlag: the loop over a socket does not look at the flag.  *)
HeedsFlagInCurl ==
  /\ pc = "wait"
  /\ flag
  /\ Transport = "curl"
  /\ Fallen
  /\ UNCHANGED <<be, attempt, flag, silent, posts, late, Call>>

(* The socket loop polls and sees the flag within 250 ms; on POSIX the     *)
(* Ctrl+C reaches the curl child too; WinINet sees nothing of it.          *)
HeedsFlag ==
  /\ pc = "wait"
  /\ flag
  /\ Transport \in {"socket", "curl"}
  /\ Fallen
  /\ UNCHANGED <<be, attempt, flag, silent, posts, late, Call>>

TimesOut ==                     \* curl's --max-time, WinINet's receive timeout
  /\ pc = "wait"
  /\ Transport # "socket"
  /\ Fallen
  /\ UNCHANGED <<be, attempt, flag, silent, posts, late, Call>>

(* api_generate retries; remote_generate asks once.                        *)
IsApi == be.provider # "remote"
IsTransient == got.hr # 0 \/ got.status \in Transient

(* Mutant of TriesAgain: one attempt too many.                             *)
TriesAgainOnceMore == IsApi /\ IsTransient /\ attempt <= be.retries /\ ~flag
TriesAgain == IsApi /\ IsTransient /\ attempt < be.retries /\ ~flag

Judge ==
  /\ pc = "judge"
  /\ TriesAgain
  /\ pc' = "nap"
  /\ UNCHANGED <<be, leg, attempt, got, flag, silent, posts, late, Call>>

Return(result) ==
  /\ pc' = "idle"
  /\ rc' = result
  /\ silent' = FALSE
  /\ leg' = 1 /\ attempt' = 0 /\ got' = NoReply
  /\ posts' = 0 /\ late' = 0
  /\ UNCHANGED <<be, flag, replies, calls>>

NapOver ==
  /\ pc = "nap"
  /\ ~flag
  /\ pc' = "post"
  /\ attempt' = attempt + 1
  /\ leg' = 1
  /\ got' = NoReply
  /\ UNCHANGED <<be, flag, silent, posts, late, Call>>

NapInterrupted ==               \* the loop is left with the failed attempt
  /\ pc = "nap"
  /\ flag
  /\ Return(-1)
  /\ UNCHANGED <<shown, usage>>

(* The text of a reply: every text block of Anthropic's array, the first   *)
(* choice of OpenAI's.  Without any, a sentence that says so is shown.     *)
Without(blocks, kinds) ==       \* the walk over the array
  LET kept[n \in 0 .. Len(blocks)] ==
        IF n = 0 THEN <<>>
        ELSE IF blocks[n] \in kinds THEN kept[n - 1] ELSE Append(kept[n - 1], blocks[n])
  IN kept[Len(blocks)]
OnlyFirst(blocks) == IF blocks = <<>> THEN <<>> ELSE <<blocks[1]>>

Texts(a) == Without(IF be.provider = "anthropic" THEN a.blocks ELSE OnlyFirst(a.blocks),
                    {"", "tool_use"})

ApiPieces(a) ==
  IF Texts(a) # <<>> THEN Texts(a)
  ELSE IF be.provider = "anthropic" /\ a.refusal THEN <<"(declined)">>
  ELSE <<"(no text)">>

(* llama-server's "content", which may be an empty text.                   *)
RemotePieces(a) == Without(OnlyFirst(a.blocks), {"tool_use"})

Pieces(a) == IF IsApi THEN ApiPieces(a) ELSE RemotePieces(a)

Usable == got.hr = 0 /\ got.status = 200 /\ got.whole

Fails ==                        \* no response, a bad status, no JSON
  /\ pc = "judge"
  /\ ~TriesAgain
  /\ ~Usable
  /\ Return(-1)
  /\ UNCHANGED <<shown, usage>>

Counted == IF replies[got.id].counted THEN got.id ELSE 0

ApiDelivers ==
  /\ pc = "judge"
  /\ IsApi
  /\ Usable
  /\ shown' = shown \o ApiPieces(replies[got.id])
  /\ usage' = Counted
  /\ Return(0)

RemoteDelivers ==               \* without a content it fails, but counts
  /\ pc = "judge"
  /\ ~IsApi
  /\ Usable
  /\ shown' = shown \o RemotePieces(replies[got.id])
  /\ usage' = Counted
  /\ Return(IF RemotePieces(replies[got.id]) = <<>> THEN -1 ELSE 0)

NotFound == [status |-> 404, blocks |-> <<>>, refusal |-> FALSE, counted |-> FALSE]

Works == Sent \/ CannotSend \/ TimesOut \/ HeedsFlag \/ Judge \/ NapOver
         \/ NapInterrupted \/ Fails \/ ApiDelivers \/ RemoteDelivers
Server == \E a \in Answers \cup {NotFound} :
            ReplyLost(a) \/ \E whole \in BOOLEAN : ReplyArrives(a, whole)
Next == CtrlC \/ NextTurn \/ Generate \/ Works \/ Server

(* The program goes on, and a server that is not silent comes to an end:   *)
(* it answers or the connection breaks.  Nothing is assumed of the user.   *)
Fairness == WF_vars(Works) /\ WF_vars(Server)

Spec == Init /\ [][Next]_vars /\ Fairness
-----------------------------------------------------------------------------
TypeOK ==
  /\ be.provider \in Providers /\ be.route \in Routes
  /\ pc \in {"idle", "post", "wait", "judge", "nap"}
  /\ leg \in 1 .. Len(be.route)
  /\ attempt \in Nat
  /\ got.hr \in {0, -1} /\ got.id \in 0 .. Len(replies)
  /\ flag \in BOOLEAN /\ silent \in BOOLEAN
  /\ usage \in 0 .. Len(replies)
  /\ rc \in {0, -1}

Tries == IF IsApi /\ be.retries > 0 THEN be.retries + 1 ELSE 1

(* A call sends no more requests than the retries allow, each at most once *)
(* per transport; and once the user has pressed Ctrl+C at most one more    *)
(* attempt goes out, the one the flag could not stop because it is read    *)
(* around the wait and not before the POST: api_generate, plat_http_post.  *)
RetriesAreBounded ==
  /\ posts <= Tries * Len(be.route)
  /\ late <= Len(be.route)

(* Whatever the transports, statuses and retries did, a call shows one     *)
(* reply made for it, once and whole, or fails and shows nothing, and the  *)
(* token counts the agent budgets with are not an earlier call's.          *)
Summary(a) == [ok |-> a.status = 200, text |-> Pieces(a)]
Contract == INSTANCE BackendContract
              WITH phase <- IF pc = "idle" THEN "idle" ELSE "busy",
                   replies <- [i \in 1 .. Len(replies) |-> Summary(replies[i])]

AnswersOnce ==
  /\ Contract!Init
  /\ [][Contract!Next({Summary(a) : a \in Answers \cup {NotFound}})]_(Contract!vars)

(* A call returns unless a server on a plain http:// socket keeps silent,  *)
(* where the loop has no timeout; and Ctrl+C ends that wait too.           *)
Hangs == pc = "wait" /\ silent /\ Transport = "socket"

GenerateReturns ==
  /\ pc # "idle" ~> (pc = "idle" \/ Hangs)
  /\ pc # "idle" /\ flag ~> pc = "idle"
=============================================================================

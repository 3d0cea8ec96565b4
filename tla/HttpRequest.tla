----------------------------- MODULE HttpRequest -----------------------------
(***************************************************************************)
(* An HttpRequest (http/HttpRequest.hpp) and what HttpContext makes of the *)
(* text of a request line (http/HttpContext.cpp), as operators.            *)
(*                                                                         *)
(* A text is a sequence of tokens.  The separators the code looks for are  *)
(* tokens (space, question, colon; "space" stands for every character of   *)
(* isspace), and so are the names it compares with; "HTTP1" is the first   *)
(* seven characters of a version, "HTTP/1.", and the token behind it the   *)
(* eighth.                                                                 *)
(***************************************************************************)
EXTENDS Integers, Sequences, FiniteSetsExt

CONSTANT Tokens

Methods == [GET |-> "kGet", POST |-> "kPost", HEAD |-> "kHead",
            PUT |-> "kPut", DELETE |-> "kDelete"]
methods == {Methods[m] : m \in DOMAIN Methods} \cup {"kInvalid"}
versions == {"kUnknown", "kHttp10", "kHttp11"}
Texts == Seq(Tokens)

NewRequest == [method |-> "kInvalid", version |-> "kUnknown",
               path |-> <<>>, query |-> <<>>, headers |-> [f \in {} |-> <<>>]]

IsRequest(r) ==
    /\ r = [method |-> r.method, version |-> r.version, path |-> r.path,
            query |-> r.query, headers |-> r.headers]
    /\ r.method \in methods /\ r.version \in versions
    /\ r.path \in Texts /\ r.query \in Texts
    /\ DOMAIN r.headers \subseteq Texts
    /\ \A f \in DOMAIN r.headers : r.headers[f] \in Texts

(* std::find: where the token stands first, or one past the end; and the   *)
(* text before it and behind it.                                           *)
find(text, token) == Min({i \in DOMAIN text : text[i] = token} \cup {Len(text) + 1})
Before(text, token) == SubSeq(text, 1, find(text, token) - 1)
Behind(text, token) == SubSeq(text, find(text, token) + 1, Len(text))
Has(text, token) == find(text, token) <= Len(text)

(* setMethod: kInvalid for a name it does not know.                        *)
MethodOf(text) ==
    LET known == {m \in DOMAIN Methods : text = <<m>>}
    IN  IF known = {} THEN "kInvalid" ELSE Methods[CHOOSE m \in known : TRUE]

VersionOf(text) ==
    CASE text = <<"HTTP1", "1">> -> "kHttp11"
      [] text = <<"HTTP1", "0">> -> "kHttp10"
      [] OTHER -> "kUnknown"

(* What is between the two spaces, and what is behind the second.          *)
Target(line) == Before(Behind(line, "space"), "space")
Protocol(line) == Behind(Behind(line, "space"), "space")

(* HttpContext::processRequestLine: whether it succeeds, ...               *)
IsRequestLine(line) ==
    /\ Has(line, "space") /\ MethodOf(Before(line, "space")) # "kInvalid"
    /\ Has(Behind(line, "space"), "space")
    /\ VersionOf(Protocol(line)) # "kUnknown"

(* ... and the request it then leaves.  The query keeps its question mark.  *)
processRequestLine(r, line) ==
    LET target == Target(line) IN
    [method  |-> MethodOf(Before(line, "space")),
     version |-> VersionOf(Protocol(line)),
     path    |-> Before(target, "question"),
     query   |-> IF Has(target, "question")
                 THEN SubSeq(target, find(target, "question"), Len(target)) ELSE r.query,
     headers |-> r.headers]

TrimFront(text) ==   \* fault: trailing spaces stay
    SubSeq(text, Min({i \in DOMAIN text : text[i] # "space"} \cup {Len(text) + 1}), Len(text))

Trim(text) ==
    LET kept == {i \in DOMAIN text : text[i] # "space"}
    IN  IF kept = {} THEN <<>> ELSE SubSeq(text, Min(kept), Max(kept))

(* addHeader: a field that is there already gets the new value.            *)
addHeader(r, line) ==
    LET field == Before(line, "colon") IN
    [method |-> r.method, version |-> r.version, path |-> r.path, query |-> r.query,
     headers |-> [f \in DOMAIN r.headers \cup {field} |->
                    IF f = field THEN Trim(Behind(line, "colon")) ELSE r.headers[f]]]

getHeader(r, field) ==
    IF field \in DOMAIN r.headers THEN r.headers[field] ELSE <<>>
=============================================================================

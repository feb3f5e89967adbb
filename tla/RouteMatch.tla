----------------------------- MODULE RouteMatch -----------------------------
(***************************************************************************)
(* Which route a request takes, and the path its origin receives:          *)
(* crates/control/src/route.rs.  A path is the sequence of its segments:   *)
(* `/api/x` is <<"api", "x">>, `/api/` is <<"api", "">>, `/` is <<"">>.     *)
(* A request is [authority, form, path, method, headers, query]; headers   *)
(* and query are sequences of <<name, value>> in the order received.       *)
(***************************************************************************)
EXTENDS Integers, FiniteSets, Sequences, SequencesExt

CONSTANTS Encoded,    \* segments with %2e, %2f or %5c, and what they decode to
          Unclean,    \* segments with a control byte or a backslash
          NoRoute, Wild

Root == <<"">>

(* Lexical resolution over the segments.  Escapes marks a `..` past the    *)
(* root: no stack of resolved segments holds one.                          *)
Escapes == <<"..">>
Pop(out, seg) ==
  IF out = Escapes \/ (seg = ".." /\ out = << >>) THEN Escapes
  ELSE IF seg = "." THEN out
  ELSE IF seg = ".." THEN Front(out)
  ELSE Append(out, seg)

Resolve(path) ==
  LET out == FoldLeft(Pop, << >>, path)
  IN  IF out = << >> THEN Root ELSE out

(* normalize_path: NoRoute stands for the 400.  A target that does not     *)
(* start with `/` is passed on as it is.                                   *)
NormalizeKeepsEncoded(req) ==
  LET segs == {req.path[i] : i \in DOMAIN req.path}
      path == IF segs \cap {".", ".."} = {} THEN req.path ELSE Resolve(req.path)
  IN  IF req.form # "origin" THEN req
      ELSE IF segs \cap Unclean # {} \/ path = Escapes THEN NoRoute
      ELSE [req EXCEPT !.path = path]

NormalizePath(req) ==
  LET segs == {req.path[i] : i \in DOMAIN req.path}
      path == IF segs \cap {".", ".."} = {} THEN req.path ELSE Resolve(req.path)
  IN  IF req.form # "origin" THEN req
      ELSE IF segs \cap (Unclean \cup DOMAIN Encoded) # {} \/ path = Escapes
      THEN NoRoute
      ELSE [req EXCEPT !.path = path]

(* path_under_prefix: on a segment boundary; `/api/` needs the slash.      *)
PathUnderPrefix(prefix, path) ==
  IF Last(prefix) = ""
  THEN Len(path) >= Len(prefix) /\ IsPrefix(Front(prefix), path)
  ELSE IsPrefix(prefix, path)

(* The length of a prefix, in an order that agrees with its bytes among    *)
(* the prefixes of one path.                                               *)
PrefixLen(prefix) == 2 * Len(prefix) - (IF Last(prefix) = "" THEN 1 ELSE 0)

(* normalize_host: the port is dropped, and one trailing dot.              *)
NormalizeHost(a) == [name |-> a.name, dots |-> IF a.dots > 0 THEN a.dots - 1 ELSE 0]

(* The FIRST occurrence of a name decides, in headers and in the query.    *)
FirstIs(pairs, want) ==
  \E i \in DOMAIN pairs :
     pairs[i] = want /\ \A j \in 1..(i - 1) : pairs[j][1] # want[1]

RouteMatches(r, req) ==
  LET host == NormalizeHost(req.authority)
  IN  /\ r.host = Wild \/ (host.name = r.host /\ host.dots = 0)
      /\ req.form = "origin" /\ PathUnderPrefix(r.prefix, req.path)
      /\ r.method \in {Wild, req.method}
      /\ \A want \in r.headers : FirstIs(req.headers, want)
      /\ \A want \in r.query : FirstIs(req.query, want)

(* Specificity, most significant first; the earliest route wins a tie.     *)
Specificity(r, i) ==
  <<IF r.host = Wild THEN 0 ELSE 1, PrefixLen(r.prefix), IF r.method = Wild THEN 0 ELSE 1,
    Cardinality(r.headers), Cardinality(r.query), -i>>

Exceeds(a, b) ==
  \E k \in DOMAIN a : a[k] > b[k] /\ \A j \in 1..(k - 1) : a[j] = b[j]

Select(routes, req) ==
  LET fit == {i \in DOMAIN routes : RouteMatches(routes[i], req)}
      best == {i \in fit : \A j \in fit \ {i} :
                 Exceeds(Specificity(routes[i], i), Specificity(routes[j], j))}
  IN  IF fit = {} THEN NoRoute ELSE CHOOSE i \in best : TRUE

(* rewrite_path: strip on a segment boundary, always leaving a leading `/`. *)
(* It is given the query too, so a path that is the prefix itself is not   *)
(* at a boundary when a `?` follows, and stays as it is.                   *)
RewritePath(path, query, strip) ==
  LET kept == IF Last(strip) = "" THEN Front(strip) ELSE strip
      rest == SubSeq(path, Len(kept) + 1, Len(path))
  IN  IF strip = Wild \/ ~PathUnderPrefix(strip, path) THEN path
      ELSE IF rest = << >> THEN (IF query = << >> THEN Root ELSE path)
      ELSE IF Last(strip) = "" /\ Len(rest) > 1 /\ rest[1] = "" THEN Tail(rest)
      ELSE rest

(* What an origin makes of a path: it decodes, then removes dot segments;  *)
(* a `..` at the root stays there (RFC 3986 5.2.4).  External.             *)
Decode(out, seg) ==
  IF seg \in DOMAIN Encoded THEN out \o Encoded[seg] ELSE Append(out, seg)
RemoveDots(out, seg) ==
  IF seg = "." THEN out
  ELSE IF seg = ".." THEN IF out = << >> THEN out ELSE Front(out)
  ELSE Append(out, seg)
OriginPath(path) ==
  LET out == FoldLeft(RemoveDots, << >>, FoldLeft(Decode, << >>, path))
  IN  IF out = << >> THEN Root ELSE out
=============================================================================

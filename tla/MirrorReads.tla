----------------------------- MODULE MirrorReads -----------------------------
(***************************************************************************)
(* One read of the mirror node: a repository's method asks an endpoint,    *)
(* the body that comes back is asserted and converted, and a listing is    *)
(* walked page by page (packages/mirror: MirrorNodeClient.getPage,         *)
(* Pagination, orNull), while rows come and go at the node.  What happens  *)
(* to one request on its way is module MirrorTransport's business.         *)
(*                                                                         *)
(* One thing at most is out of the ordinary in a read: an option, an       *)
(* unusual argument, a field of a row, a failure, or a row that leaves the *)
(* listing and may come back (Ordinary).  Caps come with the last two.     *)
(***************************************************************************)
EXTENDS FiniteSets, SequencesExt, MirrorRepositories

CONSTANTS Rows,         \* rows are numbered in the order of the listing
          PageSize,     \* of the node's pages
          Unlimited     \* a cap that is not given

ASSUME RowsAssumption == /\ Rows \in Nat /\ PageSize \in Nat \ {0}
                         /\ Unlimited \in Nat /\ Unlimited > Rows

VARIABLES call,      \* what the application asks for
          stage,     \* where the read is: asked, sent, page, settled
          request,   \* the path's arguments, the query and the cursor sent last
          listing,   \* the rows that the node lists now
          steady,    \* those that it has listed since the read began
          odd,       \* the odd field of the body that came last, and what it holds
          answer,    \* what that body's row became
          out,       \* the rows that the application has
          pages,     \* the pages that came
          next,      \* the cursor of the next page, End when there is none
          outcome    \* how the read ended

vars == <<call, stage, request, listing, steady, odd, answer, out, pages, next, outcome>>

End == -1
NoOdd == <<>>
NoAnswer == Fields({}, Undef)
NoCall == [repository |-> "none"]
NoRequest == [arguments |-> <<>>, parts |-> {}, cursor |-> 0]

Endpoint == createMirrorRepositories[call.repository][call.method]
Normal(kind) == IF kind = "account" THEN Arguments(kind) \ {"slashed"} ELSE {"plain"}
Uncapped == call.maxItems = Unlimited /\ call.maxPages = Unlimited
Ordinary ==
    /\ call.options = <<>> /\ odd = NoOdd /\ steady = 1..Rows /\ listing = 1..Rows
    /\ \A i \in DOMAIN call.arguments : call.arguments[i] \in Normal(Endpoint.path[i])
-----------------------------------------------------------------------------
(* A body: a usual literal that its wire type admits, but for one field.   *)
Plain == {"small", "quoted", "text", "flag", "key", "range", "object", "list"}
Usual(S) == CHOOSE x \in Plain : x \in S
Body(endpoint, field) ==
    [f \in DOMAIN endpoint.raw |->
        IF field # NoOdd /\ f = field[1] THEN field[2] ELSE Usual(endpoint.raw[f])]

(* Beyond what the wire type admits, what the code guards against: an      *)
(* amount or an asserted field of any sort.                                *)
IsAmount(S) == MirrorAmount \subseteq S
OddFields(endpoint) ==
    UNION {{<<f, x>> : x \in IF IsAmount(endpoint.raw[f]) \/ f \in DOMAIN endpoint.asserts
                             THEN Literals ELSE endpoint.raw[f]} : f \in DOMAIN endpoint.raw}

Mismatch(endpoint, body, made) ==
    \/ \E f \in DOMAIN endpoint.asserts : ~assertField(parseLossless(body[f]), endpoint.asserts[f])
    \/ \E f \in DOMAIN made : made[f] = Throws
-----------------------------------------------------------------------------
Init ==
    /\ call = NoCall /\ stage = "asked" /\ request = NoRequest
    /\ listing = 1..Rows /\ steady = 1..Rows
    /\ odd = NoOdd /\ answer = NoAnswer /\ out = <<>> /\ pages = 0 /\ next = 0 /\ outcome = "none"

(* No option, one of them with any of its values, or all of them at once.  *)
OneOf(query) == UNION {{[n \in {o} |-> v] : v \in query[o]} : o \in DOMAIN query}
AllOf(query) == [o \in DOMAIN query |-> CHOOSE v \in query[o] : v # "nothing"]
Queries(query) == {<<>>} \cup OneOf(query) \cup {AllOf(query)}

ArgumentLists(path) == {a \in [DOMAIN path -> UNION {Arguments(path[i]) : i \in DOMAIN path}] :
                          \A i \in DOMAIN path : a[i] \in Arguments(path[i])}
Uses(endpoint) == IF endpoint.page THEN {"first", "collectAll", "paginate"} ELSE {"await", "orNull"}
Caps == {Unlimited} \cup 0..3
CapsOf(use, options) == IF use = "collectAll" /\ options = <<>> THEN Caps ELSE {Unlimited}

Send(cursor) ==
    /\ request' = [request EXCEPT !.cursor = cursor]
    /\ stage' = "sent"

(* A method is called with arguments, options and, to collect, caps.       *)
Ask(repository, method) ==
    LET endpoint == createMirrorRepositories[repository][method] IN
    \E options \in Queries(endpoint.query), arguments \in ArgumentLists(endpoint.path),
       use \in Uses(endpoint) : \E maxItems, maxPages \in CapsOf(use, options) :
       /\ stage = "asked"
       /\ call' = [repository |-> repository, method |-> method, options |-> options,
                   arguments |-> arguments, use |-> use, maxItems |-> maxItems,
                   maxPages |-> maxPages]
       /\ IF Refuses(method, arguments)
          THEN /\ stage' = "settled" /\ outcome' = "ConfigInvalid" /\ UNCHANGED request
          ELSE /\ request' = [arguments |-> [i \in DOMAIN arguments |->
                                                PathSegment(endpoint.path[i], arguments[i])],
                              parts |-> appendQuery(endpoint.keys, Given(endpoint, options)),
                              cursor |-> 0]
               /\ stage' = "sent" /\ UNCHANGED outcome
       /\ UNCHANGED <<listing, steady, odd, answer, out, pages, next>>

Settle(result) == stage' = "settled" /\ outcome' = result

(* orNull tells what is not there from what failed.                        *)
orNull(code) == IF call.use = "orNull" /\ code = "NotFound" THEN "null" ELSE code

Fails ==
    /\ stage = "sent" /\ Ordinary
    /\ \E code \in {"NotFound", "MirrorNodeHttpError", "TimedOut"} : Settle(orNull(code))
    /\ UNCHANGED <<call, request, listing, steady, odd, answer, out, pages, next>>

(* The body of a lookup.                                                   *)
LookedUp(endpoint, field) ==
    LET body == Body(endpoint, field)
        made == Converted(endpoint.convert, body) IN
    /\ stage = "sent" /\ ~endpoint.page
    /\ field # NoOdd => Ordinary
    /\ odd' = field
    /\ IF Mismatch(endpoint, body, made) THEN Settle("SchemaMismatch") /\ answer' = NoAnswer
       ELSE Settle("answered") /\ answer' = made
    /\ UNCHANGED <<call, request, listing, steady, out, pages, next>>

(* queryTransactionRows: no rows is not found.                             *)
NoRows ==
    /\ stage = "sent" /\ Ordinary
    /\ call.repository = "transactionRepository" /\ ~Endpoint.page
    /\ Settle(orNull("NotFound"))
    /\ UNCHANGED <<call, request, listing, steady, odd, answer, out, pages, next>>

(* External: the page the node answers with is in order, holds listed rows *)
(* after the cursor only, and leaves out none of them but behind a full    *)
(* page.  It links to the rows after it as long as a page is full.         *)
PageOf(cursor) ==
    {rows \in BoundedSeq(1..Rows, PageSize) :
        /\ \A i, j \in DOMAIN rows : i < j => rows[i] < rows[j]
        /\ \A i \in DOMAIN rows : rows[i] \in listing /\ rows[i] > cursor
        /\ \A r \in listing : r > cursor =>
              \/ r \in ToSet(rows)
              \/ Len(rows) = PageSize /\ \A i \in DOMAIN rows : rows[i] < r}
LinkOf(rows) == IF Len(rows) = PageSize THEN rows[PageSize] ELSE End

(* getPage: one row that does not convert refuses the page.                *)
getPage(endpoint, field) ==
    LET body == Body(endpoint, field)
        made == Converted(endpoint.convert, body) IN
    /\ stage = "sent" /\ endpoint.page
    /\ odd' = field
    /\ \E rows \in PageOf(request.cursor) :
          /\ field # NoOdd => Ordinary /\ Uncapped /\ rows # <<>>
          /\ \/ /\ Mismatch(endpoint, body, made)
                /\ Settle("SchemaMismatch") /\ answer' = NoAnswer
                /\ UNCHANGED <<out, pages, next>>
             \/ /\ ~Mismatch(endpoint, body, made)
                /\ answer' = IF rows = <<>> THEN NoAnswer ELSE made
                /\ out' = out \o rows /\ pages' = pages + 1 /\ next' = LinkOf(rows)
                /\ stage' = "page" /\ UNCHANGED outcome
    /\ UNCHANGED <<call, request, listing, steady>>

(* The loop of collectAll and of paginate: the caps count what is there.   *)
(*                                                                         *)
(* Faulty: one page more than asked for.                                   *)
CappedLate == Len(out) > call.maxItems \/ pages > call.maxPages
Capped == Len(out) >= call.maxItems \/ pages >= call.maxPages
Follows == next # End /\ call.use # "first" /\ ~Capped

FollowNext ==
    /\ stage = "page" /\ Follows
    /\ Send(next)
    /\ UNCHANGED <<call, listing, steady, odd, answer, out, pages, next, outcome>>

Stops ==
    /\ stage = "page"
    /\ ~Follows \/ call.use = "paginate"     \* a consumer may leave the loop
    /\ Settle("answered")
    /\ UNCHANGED <<call, request, listing, steady, odd, answer, out, pages, next>>

(* A row comes or goes at the node.                                        *)
Change ==
    /\ stage \in {"sent", "page"} /\ Endpoint.page
    /\ \/ Ordinary /\ \E r \in listing : listing' = listing \ {r} /\ steady' = steady \ {r}
       \/ \E r \in 1..Rows \ listing : listing' = listing \cup {r} /\ UNCHANGED steady
    /\ UNCHANGED <<call, stage, request, odd, answer, out, pages, next, outcome>>

Next ==
    \/ \E repository \in DOMAIN createMirrorRepositories :
         \E method \in DOMAIN createMirrorRepositories[repository] : Ask(repository, method)
    \/ /\ stage # "asked"
       /\ \/ Fails \/ NoRows \/ FollowNext \/ Stops \/ Change
          \/ \E field \in {NoOdd} \cup OddFields(Endpoint) :
                LookedUp(Endpoint, field) \/ getPage(Endpoint, field)

Spec == Init /\ [][Next]_vars
-----------------------------------------------------------------------------
(* Every converter makes the fields of its public type, of fields that     *)
(* there are, and every parameter belongs to an option.                    *)
TypeOK ==
    /\ stage \in {"asked", "sent", "page", "settled"} /\ steady \subseteq 1..Rows
    /\ next \in {End} \cup 0..Rows /\ out \in Seq(1..Rows)
    /\ call = NoCall \/
       /\ DOMAIN Endpoint.convert = DOMAIN Endpoint.public
       /\ DOMAIN Endpoint.keys \subseteq DOMAIN Endpoint.query
       /\ DOMAIN Endpoint.asserts \subseteq DOMAIN Endpoint.raw

(* Whatever shape of body the wire types admit, the application gets every *)
(* field that its own types promise, of a promised type and with the       *)
(* digits that the node sent; only a figure too large for the number that  *)
(* it is promised as is refused, and as a schema mismatch.  A body that    *)
(* the types do not admit gives no amount that is not a whole one, and     *)
(* "null" only ever says that there is nothing (MirrorNodeConverters,      *)
(* LosslessJson, MirrorNodeValidators, orNull).                            *)
Faithful(endpoint, body) ==
    LET conforms == odd = NoOdd \/ odd[2] \in endpoint.raw[odd[1]] IN
    /\ answer # NoAnswer =>
         /\ \A f \in DOMAIN answer :
              IsAmount(endpoint.raw[f]) => answer[f].of \in MirrorAmount \cup {"null", "absent"}
         /\ conforms =>
              /\ \A f \in DOMAIN endpoint.public :
                    f \in DOMAIN answer \/ \E p \in Holders(f) : At(body, p) \in {"null", "absent"}
              /\ \A f \in DOMAIN answer :
                    /\ answer[f].js \in endpoint.public[f]
                    /\ At(body, f) \in MirrorAmount => answer[f].of = At(body, f)
    /\ outcome = "SchemaMismatch" /\ conforms =>
         odd[2] = "large" /\ "number" \in endpoint.public[odd[1]]
    /\ outcome = "null" => answer = NoAnswer /\ odd = NoOdd
AnswersFaithful == Faithful(Endpoint, Body(Endpoint, odd))

(* Options that the listings of both directions share, of which types/     *)
(* query.ts says that one of them alone heeds it.                          *)
OneSided == {<<"findPendingAirdrops", "receiverId">>, <<"findOutstandingAirdrops", "senderId">>,
             <<"findCryptoAllowances", "tokenId">>, <<"findLogs", "transactionHash">>}
BoundsOf(v) == IF v = "nothing" THEN 0 ELSE IF v \in {"list", "range"} THEN 2 ELSE 1
Told(endpoint, method, given, parts, o) ==
    <<method, o>> \in OneSided \/
      /\ o \in DOMAIN endpoint.keys
      /\ \A p \in DOMAIN given \ {o} :
            p \in DOMAIN endpoint.keys => endpoint.keys[p] # endpoint.keys[o]
      /\ Cardinality({part \in parts : part[1] = endpoint.keys[o]}) = BoundsOf(given[o])
      /\ BoundsOf(given[o]) = 1 => <<endpoint.keys[o], given[o]>> \in parts

(* Whatever an application asks for goes out with the request: each option *)
(* under a parameter of its own with every value or bound it was given,    *)
(* the falsy ones too, an argument over an option of the same name, and no *)
(* argument breaks out of its segment of the path (appendQuery, segment,   *)
(* transactionIdSegment, the endpoints of MirrorNodeClient).               *)
FiltersSent ==
    call # NoCall /\ outcome # "ConfigInvalid" =>
        LET given == Given(Endpoint, call.options) IN
        /\ \A o \in DOMAIN given : Told(Endpoint, call.method, given, request.parts, o)
        /\ \A i \in DOMAIN request.arguments : request.arguments[i] \notin {"slashed", "sdkId"}

(* However the listing changes under the walk, no row comes twice or out   *)
(* of order, and what was there all along is there unless a cap, the       *)
(* consumer or a failure ended the walk: collectAll then has less than a   *)
(* page over maxItems, maxPages pages at most, and stops nowhere else      *)
(* (Pagination.collectAll and paginate, getPage's next).                   *)
WalkExact ==
    /\ \A i, j \in DOMAIN out : i < j => out[i] < out[j]
    /\ stage \in {"page", "settled"} /\ pages > 0 =>
         /\ \A r \in steady : r \in ToSet(out) \/ \A i \in DOMAIN out : out[i] < r
         /\ out # <<>> => Len(out) < call.maxItems + PageSize \/ pages = 1
         /\ pages <= call.maxPages \/ pages = 1
    /\ outcome = "answered" /\ Endpoint.page /\ call.use = "collectAll" =>
         \/ steady \subseteq ToSet(out)
         \/ Len(out) >= call.maxItems
         \/ pages >= call.maxPages
=============================================================================

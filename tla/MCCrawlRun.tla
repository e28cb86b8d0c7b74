----------------------------- MODULE MCCrawlRun ------------------------------
(***************************************************************************)
(* Small instances of CrawlRun: a site of three URLs and journeys that      *)
(* between them use every kind of step and every schema version.           *)
(***************************************************************************)
EXTENDS CrawlRunProps

CONSTANTS home, next, search, away, blank, none

\* search is home with a query.
MCPages == {home, next, search, away, blank}
MCOrigin == {home, next, search}
MCBare == [url \in MCOrigin |-> IF url = search THEN home ELSE url]

MCExact == {home, next}

\* The same site without the query.
PlainPages == MCPages \ {search}
PlainOrigin == MCOrigin \ {search}
PlainBare == [url \in PlainOrigin |-> url]

Act(kind, url, guide) == [kind |-> kind, url |-> url, guide |-> guide, evidence |-> {}]

Go(url) == Act("navigate", url, FALSE)
AtUrl(url) == Act("check_url", url, FALSE)
Reads == Act("check_text", none, FALSE)
Shows == Act("capture", none, TRUE)
ShowsFor(ks) == [Shows EXCEPT !.evidence = ks]
Follows(url) == Act("follow_link", url, TRUE)

Doc(schema, auth, list) ==
  [schema |-> schema, auth |-> auth, steps |-> list, required |-> {"trace", "diagnostics"}]

Login(provider, verify) == [declared |-> TRUE, provider |-> provider, verify |-> verify]

\* Schema 1 with a query, and schema 2 with evidence for an earlier checkpoint.
ReadingTour == Doc(1, NoAuthentication, <<Go(search), AtUrl(search), Shows>>)
VisualTour == Doc(2, NoAuthentication, <<Go(home), Reads, ShowsFor({2})>>)

\* Schema 3: a link, then the checkpoint of its destination.
LinkTour == Doc(3, NoAuthentication, <<Go(home), Follows(next), AtUrl(next)>>)
TwoLinks == Doc(3, NoAuthentication, <<Go(home), Follows(next), Follows(home), AtUrl(home)>>)

\* Schema 4: a verified sign-in, then a link.
LoginTour == Doc(4, Login("supported", 2), <<Go(home), Reads, Follows(next)>>)

\* Documents that a precondition refuses whatever the options.
OtherProvider == [LoginTour EXCEPT !.auth = Login("other", 2)]
LegacyLogin == [VisualTour EXCEPT !.auth = Login("supported", 0)]
LateLogin == [LoginTour EXCEPT !.auth.verify = 3]
NoEvidence == Doc(3, NoAuthentication, <<Go(home), AtUrl(home)>>)

\* A link after a checkpoint, and an edition of the document that asks for a sign-in.
CheckedLink == Doc(3, NoAuthentication, <<Go(home), AtUrl(home), Follows(next)>>)
EditedLink == [CheckedLink EXCEPT !.auth = Login("supported", 0)]

AnyGrants(named) == [wellFormed : BOOLEAN, distinct : BOOLEAN, named : SUBSET named]

AnyOptions(named) ==
  [origin : {"missing", "invalid", "other", "match"},
   grants : AnyGrants(named),
   state  : {"none", "invalid", "valid"}]

\* The options that let a journey with these links, and this state, start.
GoodOptions(links, state) ==
  {[origin |-> "match",
    grants |-> [wellFormed |-> TRUE, distinct |-> TRUE, named |-> links],
    state  |-> state]}

ReadingJourneys == {ReadingTour, VisualTour}
ChainJourneys == {TwoLinks}
ChainLines == GoodOptions({2, 3}, "none")
LinkLines == GoodOptions({2}, "none")
LoginJourneys == {LoginTour}
LoginLines == GoodOptions({3}, "valid")
CheckedJourneys == {CheckedLink, EditedLink}
CheckedLines == GoodOptions({3}, "none")
EditedJourneys == {LinkTour, [LinkTour EXCEPT !.auth = Login("supported", 0)]}
GateJourneys == {VisualTour, LinkTour, LoginTour, OtherProvider, LegacyLogin, LateLogin,
                 NoEvidence}
GateLines == AnyOptions({2, 3})

\* Every journey with every command line: most pairs are refused, at one gate each.
WalkJourneys == ReadingJourneys \cup GateJourneys
WalkLines == GateLines

\* The runs of the temporal properties: two links in a row, and a sign-in.
PromiseJourneys == ChainJourneys \cup LoginJourneys
PromiseLines == ChainLines \cup LoginLines
=============================================================================

--------------------------- MODULE MCIssuerLinks ---------------------------
(* Two share classes that name one secId, one filing listed under both and *)
(* one known from the feed alone.                                          *)
EXTENDS IssuerLinks

Text(v) == [form |-> "text", v |-> v]
Item(id, path, uploaded) ==
    [id |-> [form |-> "int", v |-> id],
     fields |-> IF uploaded = None THEN [path |-> Text(path)]
                ELSE [path |-> Text(path), uploaded_at |-> [form |-> "date", v |-> uploaded]]]
NoId == [id |-> [form |-> "null", v |-> 0], fields |-> [path |-> Text(None)]]

Bucket(name, items) == [name |-> name, list |-> TRUE, items |-> items]
Answer(buckets, secs) == [ok |-> TRUE, json |-> TRUE, buckets |-> buckets, secs |-> secs]
Down == [ok |-> FALSE, json |-> FALSE, buckets |-> {}, secs |-> {}]

Prefixed == [sec |-> 7]

MCAnswers == [s \in {1, 2} |->
    IF s = 1 THEN {Answer({Bucket("annual", {Item(1, Prefixed, None)})}, {}), Down}
    ELSE {Answer({Bucket("annual", {Item(1, Prefixed, None), NoId})}, {7})}]
MCFeed == {Answer({Bucket(FeedBucket, {Item(1, Prefixed, 1)})}, {})}

Code(c) == [cse |-> TRUE, code |-> c]
Name(w) == [words |-> w, style |-> 0]
Body(s, isin, name) ==
    [query |-> s, symbol |-> s, id |-> s, isin |-> isin, name |-> name,
     beta |-> 7, logo |-> None]

(* Both classes, with ISINs of the same issuer.                            *)
MCBodies == {Body(1, Code(1), Name(<<"x">>)), Body(2, Code(1), None)}
MCImports == {{b} : b \in MCBodies}

Result(s, ok) == [symbol |-> s, company |-> ok]
Universe(ss) == [body |-> ss, results |-> {Result(s, TRUE) : s \in ss}]
MCCaptures == {Universe({1, 2}),
               [body |-> {1, 2}, results |-> {Result(1, TRUE), Result(2, FALSE)}]}

(* A name that contradicts, agreeing ISINs, an ISIN that contradicts.      *)
StaleImports == {{Body(1, Code(1), Name(<<"x">>)), Body(2, None, Name(<<"y">>))},
                 {Body(2, Code(1), None)}, {Body(2, Code(2), None)}}
OneCapture == {Universe({1, 2})}
=============================================================================

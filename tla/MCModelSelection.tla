-------------------------- MODULE MCModelSelection --------------------------
(***************************************************************************)
(* Four bases, and the listings and requests to choose from.               *)
(***************************************************************************)
EXTENDS ModelSelection

MCBases  == {"flash", "pro", "oss", "claude"}
MCGemini == {"flash", "pro"}
MCGptOss == {"oss"}
MCClaude == {"claude"}

Slug(base, effort) == [form |-> "slug", base |-> base, effort |-> effort]

MCBuiltin ==
    {Slug("flash", e) : e \in {"", "low", "medium", "high"}} \union {Slug("claude", "")}

Line(slug, kind) == [slug |-> slug, kind |-> kind]

\* Any two lines.
Pairs(slugs, kinds) ==
    LET lines == {Line(s, k) : s \in slugs, k \in kinds}
    IN  {<<a, b>> : a, b \in lines}

SomeSlugs == {Slug("flash", "high"), Slug("flash", ""), Slug("oss", "med"), Slug("claude", "")}

\* A listing of an older agy, too: labels, and the slug that passes for none.
MCListings ==
    Pairs(SomeSlugs, {"slug"}) \union
    {<< >>, <<Line(Slug("flash", "high"), "label"), Line(Slug("oss", "med"), "slug")>>}

Plainly == [model |-> NoName, colon |-> "", payload |-> "", agyHeader |-> "", header |-> "",
            reasoningMeta |-> "", effortMeta |-> ""]

\* Every kind of name, with and without an effort in the payload.
NameRequests ==
    {[Plainly EXCEPT !.model = m, !.payload = p] :
        m \in SomeSlugs \union {Label(s) : s \in SomeSlugs} \union {NoName},
        p \in {"", "low", "high"}}

\* Every combination of places that may name an effort.
EffortRequests ==
    [model : {Slug("flash", "high"), Slug("oss", ""), NoName},
     colon : {"", "med"}, payload : {"", "low"},
     agyHeader : {"", "high", "bogus"}, header : {"", "medium"},
     reasoningMeta : {"", "low", "bogus"}, effortMeta : {"", "high"}]

MCRequests == NameRequests \union EffortRequests
=============================================================================

------------------------- MODULE MCInterceptMatcher -------------------------
EXTENDS InterceptMatcher

MCCharacters == {"a", "b", "/", ".", "*", "^", Wild, Rest}

\* a.a, *.a, a*a and *
Froms == {<<"a", ".", "a">>, <<"*", ".", "a">>, <<"a", "*", "a">>, <<"*">>}

\* none, /a, ^/a.*, /a/.*, ^/[^/]+/a.*, ^/[^/]+/[^/]+/.*, and ^/[^/]+a.*, which is
\* not segmented
Patterns == {
  NoPattern, <<"/", "a">>, <<"^", "/", "a", Rest>>, <<"/", "a", "/", Rest>>,
  <<"^", "/", Wild, "/", "a", Rest>>, <<"^", "/", Wild, "/", Wild, "/", Rest>>,
  <<"^", "/", Wild, "a", Rest>>}

MCRules == [from : Froms, pattern : Patterns]
MCRuleSets == {<<r>> : r \in MCRules} \cup {<<r, q>> : r, q \in MCRules}

MCDomains == {<<"a">>, <<"a", ".", "a">>, <<"a", "a">>, <<"b", "a">>}

\* Paths of up to five characters.
MCPaths == {<<"/">> \o s : s \in {<<>>, <<"a">>, <<"b">>, <<"a", "/">>, <<"b", "a">>,
            <<"b", "/", "a">>, <<"/", "a">>, <<"b", "/", "a", "/">>, <<"b", "/", "b">>,
            <<"a", "/", "b", "/">>, <<"a", "/", "a", "a">>}}

=============================================================================

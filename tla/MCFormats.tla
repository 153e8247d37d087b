----------------------------- MODULE MCFormats ------------------------------
(* Formats on bounded inputs. *)
EXTENDS Formats

BitStrings(n) == [1..n -> {0, 1}]
UpTo(S, n) == UNION {[1..k -> S] : k \in 0..n}

\* Words: four words of two bits, phrases of three and of six.
MCLetters == {"a", "b"}
MCList == <<<<"a", "a">>, <<"a", "b">>, <<"a", "b", "b">>, <<"b", "a">>>>
MCSha256(bits) == <<(Number(bits) \div 3) % 2, Number(bits) % 2>>
MCEntropies == BitStrings(5) \cup BitStrings(10)

\* Container: lengths in two digits to the base of three.
MCByte == 0..2
MCPut(n) == <<n \div 3, n % 3>>
MCGet(b) == 3 * b[1] + b[2]
MCStubs == UpTo(MCByte, 2)
MCPayloads == UpTo(MCByte, 3) \ {<<>>}
MCBinaries == UpTo(MCByte, 5)
MCSalts == [1..SaltLen -> MCByte]
MCVaults == [salt : MCSalts, meta : UpTo(MCByte, 2), asset : UpTo(MCByte, 2)]
MCWardens == [hasPass : BOOLEAN, salt : MCSalts, ct : UpTo(MCByte, 2)]

\* Site: an entry point at the root and one below it, files with and without a
\* dot, a link; entry points that are directories, or lead upwards; paths of up
\* to three segments behind the first slash.
MCSegments == {"", ".", "..", "d", "index.html", "app.js", Key}
FileAt(name) == [type |-> "regular", name |-> name, data |-> name]
SomeEntries ==
    {FileAt(<<"index.html">>), FileAt(<<"d", "index.html">>), FileAt(<<"d", "app.js">>), FileAt(<<"d", "d">>),
     [type |-> "link", name |-> <<"app.js">>, data |-> <<"secret">>]}
MCTrees == [root : {"dir"}, entries : SUBSET SomeEntries]
LinkedTrees == [root : {"dir", "link"}, entries : SUBSET SomeEntries]
MCServed == [pathKey : BOOLEAN, fallback : BOOLEAN,
             entry : {<<"index.html">>, <<"d", "index.html">>, <<".", "index.html">>,
                      <<"..", "index.html">>, <<"", "index.html">>, <<"d">>}]
MCPaths == UNION {[1..k -> {Key, "d", "app.js", "..", ""}] : k \in 1..3}

\* Manifest: two targets, for each role a set of its own.
MCOsArch == {<<"linux", "arm64">>, <<"windows", "amd64">>}
MCHash(stub) == <<"hash of", stub>>
MCReleases == SUBSET Target
MCMarks == {"  ", " *"}
=============================================================================

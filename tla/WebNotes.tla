------------------------------ MODULE WebNotes ------------------------------
(***************************************************************************)
(* What the web and research tools (web_tool.rs, research_tool.rs) make of *)
(* what the web gives them: readable text of a page, the results of a      *)
(* search, and notes of the sources with an overview that links them.      *)
(*                                                                         *)
(* They are functions, checked here over small inputs. A page is a         *)
(* sequence of marks: words, white space, tags, and a "<" that opens       *)
(* nothing. Requests to the web are their outcome.                         *)
(***************************************************************************)
EXTENDS Naturals, Sequences, SequencesExt, FiniteSets

PageWords == {"a", "b"}
\* <script>, </script>, a tag of a block, a tag within a line.
Tags == {"script", "/script", "p", "i"}
Marks == PageWords \cup Tags \cup {" ", "nl", "<"}
Whites == {" ", "nl"}

\* strip_block: from an opening tag to the next closing one, or to the end.
StripBlock(page) ==
  FoldLeft(LAMBDA s, m :
             CASE s.inside -> [s EXCEPT !.inside = m # "/script"]
               [] ~s.inside /\ m = "script" -> [s EXCEPT !.inside = TRUE]
               [] OTHER -> [s EXCEPT !.out = Append(@, m)],
           [out |-> <<>>, inside |-> FALSE], page).out

\* The loop of html_to_text: a tag becomes white space, a "<" swallows what
\* follows up to the end of the next tag.
Untagged(page) ==
  FoldLeft(LAMBDA s, m :
             CASE m \in Tags /\ s.inTag -> [out |-> Append(s.out, " "), inTag |-> FALSE]
               [] m \in Tags /\ ~s.inTag -> [s EXCEPT !.out = Append(@, IF m = "p" THEN "nl" ELSE " ")]
               [] m = "<" -> [s EXCEPT !.inTag = TRUE]
               [] OTHER -> IF s.inTag THEN s ELSE [s EXCEPT !.out = Append(@, m)],
           [out |-> <<>>, inTag |-> FALSE], page).out

TrimEnd(s) ==
  LET solid == {i \in DOMAIN s : s[i] \notin Whites}
  IN SubSeq(s, 1, IF solid = {} THEN 0 ELSE CHOOSE i \in solid : \A j \in solid : j <= i)

\* collapse_whitespace: one blank between words, one empty line between
\* lines, none around; white space that leads is never put out.
Collapse(text) ==
  LET step(out, m) ==
        CASE m = " "  -> IF out = <<>> \/ Last(out) \in Whites THEN out ELSE Append(out, m)
          [] m = "nl" -> LET line == TrimEnd(out)
                             breaks == Len(SelectSeq(SubSeq(out, Len(line) + 1, Len(out)),
                                                     LAMBDA w : w = "nl"))
                         IN IF line = <<>> THEN <<>>
                            ELSE IF breaks = 2 THEN out
                            ELSE line \o [n \in 1..(breaks + 1) |-> "nl"]
          [] OTHER -> Append(out, m)
  IN TrimEnd(FoldLeft(step, <<>>, text))

HtmlToText(page) == Collapse(Untagged(StripBlock(page)))

\* A word is shown unless it stands in a block or behind a "<" that is still
\* open, and the white space is tidy.
InBlock(page, i) ==
  \E j \in 1..(i - 1) : page[j] = "script" /\ \A k \in (j + 1)..(i - 1) : page[k] # "/script"

Kept(page) ==
  LET index == SelectSeq([i \in DOMAIN page |-> i],
                         LAMBDA i : ~InBlock(page, i) /\ page[i] # "script")
  IN [n \in DOMAIN index |-> page[index[n]]]

ShownWords(page) ==
  LET kept == Kept(page)
      open(i) == \E j \in 1..(i - 1) : kept[j] = "<" /\ \A k \in j..(i - 1) : kept[k] \notin Tags
  IN SelectSeq([i \in DOMAIN kept |-> IF open(i) THEN " " ELSE kept[i]], LAMBDA m : m \in PageWords)

ASSUME PageReadable ==
  \A page \in UNION {[1..n -> Marks] : n \in 0..4} :
    LET text == HtmlToText(page) IN
    /\ SelectSeq(text, LAMBDA m : m \in PageWords) = ShownWords(page)
    /\ \A i \in DOMAIN text : text[i] \in PageWords \cup Whites
    /\ text # <<>> => {Head(text), Last(text)} \subseteq PageWords
    /\ \A i \in 2..Len(text) : text[i] = " " => text[i - 1] \in PageWords
    /\ \A i \in 3..Len(text) : ~(text[i] = "nl" /\ text[i - 1] = "nl" /\ text[i - 2] = "nl")

-----------------------------------------------------------------------------
(* Entities and percent signs.                                             *)

\* str::replace of an ampersand and a rest, from left to right.
Replace(text, rest, by) ==
  FoldLeft(LAMBDA s, m :
             IF s.amp /\ m = rest THEN [out |-> Front(s.out) \o <<by>>, amp |-> FALSE]
             ELSE [out |-> Append(s.out, m), amp |-> m = "&"],
           [out |-> <<>>, amp |-> FALSE], text).out

\* decode_entities: one kind after the other, the ampersand among the first.
DecodeEntities(text) == Replace(Replace(text, "amp;", "&"), "lt;", "<")

\* What an author writes to have a text shown.
Escaped(text) ==
  FlattenSeq([i \in DOMAIN text |->
    CASE text[i] = "&" -> <<"&", "amp;">> [] text[i] = "<" -> <<"&", "lt;">>
      [] OTHER -> <<text[i]>>])

\* What an author escaped is read as it was meant, unless it speaks of an
\* entity itself: that one is decoded twice.
ASSUME EntitiesDecoded ==
  \A text \in UNION {[1..n -> {"&", "<", "lt;", "a"}] : n \in 0..5} :
    DecodeEntities(Escaped(text)) = text
      <=> ~ \E i \in 1..(Len(text) - 1) : text[i] = "&" /\ text[i + 1] = "lt;"

\* percent_decode: an escape that is none passes as it is.
Hex == {"0", "5", "A"}
PercentDecode(s) ==
  LET from[i \in 1..(Len(s) + 1)] ==
        IF i > Len(s) THEN <<>>
        ELSE IF s[i] = "%" /\ i + 2 <= Len(s) /\ {s[i + 1], s[i + 2]} \subseteq Hex
             THEN << <<s[i + 1], s[i + 2]>> >> \o from[i + 3]
             ELSE <<s[i]>> \o from[i + 1]
  IN from[1]

\* An address is read back whatever of it was escaped, if the sign itself was.
ASSUME EscapesDecoded ==
  \A address \in UNION {[1..n -> {"z", "5", "%", "A"}] : n \in 0..4} :
    \A escaped \in SUBSET DOMAIN address :
      (\A i \in DOMAIN address : address[i] = "%" => i \in escaped) =>
        PercentDecode(FlattenSeq([i \in DOMAIN address |->
                        IF i \in escaped THEN <<"%", "A", "5">> ELSE <<address[i]>>]))
          = [i \in DOMAIN address |-> IF i \in escaped THEN <<"A", "5">> ELSE address[i]]

-----------------------------------------------------------------------------
(* A request.                                                              *)

Types == {"html", "json", "text", "image", ""}
Responses == [ok : BOOLEAN, type : Types, html : BOOLEAN, large : BOOLEAN]

\* fetch: what it does with the body.
Fetched(r) ==
  CASE ~r.ok \/ r.large -> "error"
    [] r.type = "html" \/ (r.type = "" /\ r.html) -> "text"
    [] r.type = "json" -> "body"
    [] r.type = "text" -> "body"
    [] OTHER -> "error"

\* fetch_extract_internal, for the research tool.
Extracted(r) ==
  IF ~r.ok THEN "error" ELSE IF r.large THEN "error"
  ELSE IF r.type = "html" \/ (r.type = "" /\ r.html) THEN "text"
  ELSE IF r.type \in {"json", "text"} THEN "body" ELSE "error"

\* Both tools read the same pages.
ASSUME FetchersAgree == \A r \in Responses : Fetched(r) = Extracted(r)

\* parse_brave_hits, parse_ddg_hits: of the first results, those that are whole.
Hits(results, max) ==
  SelectSeq(SubSeq(results, 1, IF Len(results) < max THEN Len(results) ELSE max),
            LAMBDA r : r.title # "" /\ r.url # "")

-----------------------------------------------------------------------------
(* Research.                                                               *)

SaveNote(store, slug, text) == [store EXCEPT ![slug] = text]

\* run_research: a note for each source that could be read, under the slug of
\* its title, and then the overview with a link to each of them.
Sources(store, hits) ==
  FoldLeft(LAMBDA s, h :
             IF h.extract = "" THEN s
             ELSE [store |-> SaveNote(s.store, h.title, h.url), links |-> Append(s.links, h.title)],
           [store |-> store, links |-> <<>>], hits)

Research(store, topic, hits) ==
  LET s == Sources(store, Hits(hits, 12))
  IN IF s.links = <<>> THEN [ok |-> FALSE, store |-> s.store, links |-> s.links]
     ELSE [ok |-> TRUE, store |-> SaveNote(s.store, topic, "overview"), links |-> s.links]

Slugs == {"s1", "s2", "topic"}
Results == [title : {"", "s1", "s2", "topic"}, url : {"u1", "u2"}, extract : {"", "x"}]

\* A research that reports n sources has the overview and n notes to follow its
\* links, each with a page that was read, and leaves other notes alone; unless
\* two pages, or a page and the overview, have one title: then fewer are there
\* than it reports. A research that fails has written nothing.
ASSUME ResearchLinked ==
  \A hits \in UNION {[1..n -> Results] : n \in 0..2} :
    LET before == [s \in Slugs |-> "mine"]
        r == Research(before, "topic", hits)
        linked == {r.links[i] : i \in DOMAIN r.links}
        apart == IsInjective(r.links) /\ "topic" \notin linked
    IN /\ ~r.ok => r.store = before
       /\ r.ok => /\ r.store["topic"] = "overview"
                  /\ \A s \in Slugs \ (linked \cup {"topic"}) : r.store[s] = "mine"
                  /\ \A s \in linked \ {"topic"} :
                       \E i \in DOMAIN hits : hits[i].title = s /\ hits[i].url = r.store[s]
                                              /\ hits[i].extract # ""
                  /\ apart <=> Cardinality({s \in Slugs : r.store[s] # "mine"})
                                 = Len(r.links) + 1
=============================================================================

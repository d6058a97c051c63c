---------------------------- MODULE MCExtraction ----------------------------
(***************************************************************************)
(* Instance of Extraction with a budget of 1000 characters.  Texts: short  *)
(* headings and a heading as long as a title may get, paragraphs of which  *)
(* three fit a request, one that nearly fills it.  Files: an article in    *)
(* one block with its text; an annex whose block is as long as estimated   *)
(* on page 99, where it just fits, and one longer on page 100, where it    *)
(* does not.                                                               *)
(***************************************************************************)
EXTENDS Extraction

Line(heading, size) == [heading |-> heading, first |-> size, size |-> size, page |-> 0]

SomeLines ==
  {Line("article", 10), Line("bare", 10), Line("annex", 120), Line("chapter", 400),
   Line("none", 300), Line("none", 850)}

BlockOn(page, heading, first, size) ==
  [heading |-> heading, first |-> first, size |-> size, page |-> page]

SomeBlocks ==
  {BlockOn(1, "article", 10, 500), BlockOn(1, "none", 60, 300), BlockOn(99, "none", 60, 420),
   BlockOn(99, "annex", 63, 920), BlockOn(100, "annex", 63, 920)}

\* Two spellings of one item, and one route under two conditions.
SomeOutputs ==
  {[scalar |-> 50, items |-> {<<"EN 1", "EN 1">>}, mentions |-> {<<"A", "A">>},
    routes |-> {<<"I/A2", "gas">>}],
   [scalar |-> 90, items |-> {<<"EN 1", "en 1">>, <<"EN 2", "EN 2">>}, mentions |-> {},
    routes |-> {}],
   [scalar |-> 0,  items |-> {}, mentions |-> {<<"B", "B">>}, routes |-> {<<"I/A2", "liquid">>}]}

Value(is) == [is |-> is, of |-> {}]
List(S) == [is |-> "list", of |-> S]

Found == List({<<"x", "x", "good">>, <<"y", "y", "bad">>})

Odd == {List({<<"x", "x", "good">>}), List({<<"y", "y", "bad">>}),
        List({<<"x", "x", "good">>, <<"z", "z", "fatal">>}),
        Value("null"), Value("number"), Value("text"), Value("absent")}

Answer(is, state, items, mentions, routes) ==
  [is |-> is, scalar |-> [state |-> state, conf |-> 50],
   items |-> items, mentions |-> mentions, routes |-> routes]

\* Each key odd in each way beside keys that are not.
SomeAnswers ==
       {Answer("object", "good", v, Found, Found) : v \in Odd}
  \cup {Answer("object", "bad", Found, v, Found) : v \in Odd}
  \cup {Answer("object", "good", Found, Found, v) : v \in Odd}
  \cup {Answer("object", "fatal", Found, Found, Found)}
  \cup {Answer(is, "bad", Value("absent"), Value("absent"), Value("absent")) :
          is \in {"other", "unreadable"}}
=============================================================================

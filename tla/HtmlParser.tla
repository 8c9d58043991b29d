----------------------------- MODULE HtmlParser -----------------------------
(***************************************************************************)
(* HTMLParser (indexer/html_parser.cpp): what the crawler and the indexer  *)
(* read from the tree that Gumbo makes of a page.                          *)
(*                                                                         *)
(* A node is [tag, attr, text, children]: "#text" nodes have a text, a     *)
(* sequence of items, and other nodes have children.  attr gives a value   *)
(* to the attributes that are there and not empty, keys in lower case.     *)
(* The text of two nodes is separated by a space and runs of white space   *)
(* are one, so that the text of a page is the sequence of the items.       *)
(***************************************************************************)
EXTENDS Urls

CONSTANTS
  Node,   \* the nodes of the pages
  Height  \* how high the tree below a node is

ASSUME HtmlAssumption ==
  /\ \A n \in Node : /\ n.children \in Seq(Node)
                     /\ n.text \in Seq(ToSet(n.text))
                     /\ "href" \in DOMAIN n.attr => n.attr.href \in Seq(Word)
  /\ Height \in [Node -> Nat]
  /\ \A n \in Node : \A i \in DOMAIN n.children : Height[n.children[i]] < Height[n]

\* A map with a value for a key.
Put(f, x, v) == [y \in DOMAIN f \cup {x} |-> IF y = x THEN v ELSE f[y]]

InvisibleTags == {"script", "style", "noscript", "template", "head", "meta", "link"}

\* extract_text_recursive.
TextOf[node \in Node] ==
  IF node.tag = "#text" THEN node.text
  ELSE IF node.tag \in InvisibleTags THEN <<>>
  ELSE FlattenSeq([i \in DOMAIN node.children |-> TextOf[node.children[i]]])

\* The children of the first head of the document.
HeadOf(root) ==
  LET i == SelectInSeq(root.children, LAMBDA n : n.tag = "head")
  IN IF i = 0 THEN <<>> ELSE root.children[i].children

\* The first text of the first title.
TitleOf(root) ==
  LET titles == SelectSeq(HeadOf(root), LAMBDA n : n.tag = "title")
      texts == SelectSeq(titles[1].children, LAMBDA n : n.tag = "#text")
  IN IF titles = <<>> \/ texts = <<>> THEN <<>> ELSE texts[1].text

\* extract_links_recursive: the elements a, wherever they are.
LinksOf[node \in Node] ==
  (IF node.tag = "a" /\ "href" \in DOMAIN node.attr /\ ~IsNoLink(node.attr.href)
     THEN <<node.attr.href>> ELSE <<>>)
  \o FlattenSeq([i \in DOMAIN node.children |-> LinksOf[node.children[i]]])

\* What the regular expression of the single-threaded crawler finds: the href of
\* any element.
HrefsOf[node \in Node] ==
  (IF "href" \in DOMAIN node.attr /\ ~IsNoLink(node.attr.href)
     THEN <<node.attr.href>> ELSE <<>>)
  \o FlattenSeq([i \in DOMAIN node.children |-> HrefsOf[node.children[i]]])

\* extract_meta_tags: a later tag replaces an earlier one, and a property the name.
MetaOf(root) ==
  LET Set(meta, node, key) ==
        IF node.tag = "meta" /\ {key, "content"} \subseteq DOMAIN node.attr
          THEN Put(meta, node.attr[key], node.attr.content) ELSE meta
  IN FoldLeft(LAMBDA meta, node : Set(Set(meta, node, "name"), node, "property"),
              <<>>, HeadOf(root))

\* The value of the first of these keys that is there, as a set.
FirstOf(meta, keys) ==
  LET i == SelectInSeq(keys, LAMBDA k : k \in DOMAIN meta)
  IN IF i = 0 THEN {} ELSE {meta[keys[i]]}

PublishedKeys == <<"article:published_time", "date", "pubdate">>
ModifiedKeys == <<"article:modified_time", "last-modified">>

\* parse(), of a page that is not empty.
ParseHtml(root) ==
  [title |-> TitleOf(root),
   text |-> TextOf[root],
   description |-> FirstOf(MetaOf(root), <<"description">>),
   published |-> FirstOf(MetaOf(root), PublishedKeys),
   modified |-> FirstOf(MetaOf(root), ModifiedKeys)]
=============================================================================

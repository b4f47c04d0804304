-------------------------- MODULE MCItemLifecycle --------------------------
EXTENDS ItemLifecycle

\* An item with a child, and an item that inherits both.
Paths == {"src", "kid", "inh", "inhKid"}
PathParent == [src |-> Root, kid |-> "src", inh |-> Root, inhKid |-> "inh"]
PathSource == [src |-> None, kid |-> None, inh |-> "src", inhKid |-> "kid"]
SourceFirst == <<"kid", "inhKid", "src", "inh">>
PathsSorted == <<"inh", "inhKid", "src", "kid">>
Document(top, items) == [items |-> items, top |-> top, twice |-> FALSE, unsourced |-> FALSE,
                         resourced |-> FALSE, retyped |-> {}]
Refused(doc) == {[doc EXCEPT !.twice = TRUE], [doc EXCEPT !.unsourced = TRUE], [doc EXCEPT !.resourced = TRUE]}
PathDocuments ==
    {Document(Root, {"src", "inh"}), Document(Root, {"src", "kid", "inh"}),
     Document("src", {"src", "kid"}), Document("inh", {"inh", "inhKid"})}
    \cup Refused(Document("src", {"src"}))
PathBranch == [root |-> Paths, src |-> {"src", "kid"}, kid |-> {"kid"}, inh |-> {"inh", "inhKid"},
               inhKid |-> {"inhKid"}]
\* A document that gives the item at the top another type, and no child to it.
RetypedDocuments == {[Document("src", {"src"}) EXCEPT !.retyped = {"src"}]}
\* "inh" is on another node than the one that is prepared.
PathExcluded == [root |-> {}, node |-> {"inh", "inhKid"}]
NoCollection == {}
KidCollection == {"kid", "inhKid"}

\* Two items below another one; the second inherits from the first.
Family == {"top", "src", "inh"}
FamilyParent == [top |-> Root, src |-> "top", inh |-> "top"]
FamilySource == [top |-> None, src |-> None, inh |-> "src"]
FamilySourceFirst == <<"src", "inh", "top">>
FamilySorted == <<"top", "inh", "src">>
FamilyBranch == [root |-> Family, top |-> Family, src |-> {"src"}, inh |-> {"inh"}]
FamilyExcluded == [root |-> {}, node |-> {"inh"}]
=============================================================================

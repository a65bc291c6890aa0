-------------------------------- MODULE Menu --------------------------------
(***************************************************************************)
(* The Menu module: menu_service.go over repository.go over menu.sql.      *)
(* Categories hold items; an item has variant groups with variants and     *)
(* add-on groups with add-ons.                                             *)
(*                                                                         *)
(* Deleting an item keeps its row and sets deleted_at.  Deleting a         *)
(* category removes the rows of its items too, which the database refuses  *)
(* as long as a cart line refers to one of them.  No route changes the     *)
(* availability of a variant or an add-on, the is_active of anything, or   *)
(* deletes groups.  Names, prices and the display order are left out.      *)
(***************************************************************************)
EXTENDS Integers, FiniteSets

CONSTANTS
    Restaurants,
    Categories,          \* the menu_categories rows that may exist
    Items,               \* the menu_items rows that may exist
    None,                \* no row yet
    Gone,                \* the row has been deleted
    MaxEdits             \* bound: how many changes the owners' side makes

VARIABLES
    category,            \* category[k]: the restaurant of the row, None or Gone
    item,                \* item[i]: the menu_items row, None or Gone
    options,             \* options[i]: which kinds of option rows item i has
    draft,               \* a CreateItem that has checked its category, or None
    moved,               \* history variable: the items given another category
    edits                \* how many changes the owners' side has made

menuVars == <<category, item, options, draft, moved, edits>>

-----------------------------------------------------------------------------
MenuItem == [restaurant : Restaurants, category : Categories,
             available : BOOLEAN, deleted : BOOLEAN]

OptionKind == {"variant group", "variant", "addon group", "addon"}

Draft == [item : Items, restaurant : Restaurants, category : Categories]

ASSUME MenuAssumption ==
    /\ {None, Gone} \cap (Restaurants \cup MenuItem) = {} /\ None \notin Draft
    /\ None # Gone
    /\ MaxEdits \in Nat

MenuTypeOK ==
    /\ category \in [Categories -> Restaurants \cup {None, Gone}]
    /\ item \in [Items -> MenuItem \cup {None, Gone}]
    /\ options \in [Items -> SUBSET OptionKind]
    /\ draft \in Draft \cup {None}
    /\ moved \subseteq Items
    /\ edits \in 0 .. MaxEdits

\* Any menu that CreateCategory, CreateItem and the option routes build.
MenuInit ==
    /\ category \in [Categories -> Restaurants \cup {None}]
    /\ item \in [Items -> [restaurant : Restaurants, category : Categories,
                           available : {TRUE}, deleted : {FALSE}] \cup {None}]
    /\ \A i \in Items : item[i] # None => category[item[i].category] = item[i].restaurant
    /\ options \in {[i \in Items |-> IF item[i] = None THEN {} ELSE kinds] :
                      kinds \in {{}, OptionKind}}
    /\ draft = None
    /\ moved = {}
    /\ edits = 0

Edit == edits < MaxEdits /\ edits' = edits + 1

Is(row) == row \notin {None, Gone}

\* The statements that say deleted_at IS NULL find the row.
Kept(i) == Is(item[i]) /\ ~ item[i].deleted

-----------------------------------------------------------------------------
CreateCategory(k, x) ==
    /\ Edit
    /\ category[k] = None
    /\ category' = [category EXCEPT ![k] = x]
    /\ UNCHANGED <<item, options, draft, moved>>

\* ON DELETE CASCADE removes items and options, soft-deleted items included;
\* "inUse" are the items that rows of other tables refer to.
DeleteCategory(k, inUse) ==
    LET gone == {i \in Items : Is(item[i]) /\ item[i].category = k} IN
      /\ Edit
      /\ Is(category[k])
      /\ gone \cap inUse = {}
      /\ category' = [category EXCEPT ![k] = Gone]
      /\ item' = [i \in Items |-> IF i \in gone THEN Gone ELSE item[i]]
      /\ options' = [i \in Items |-> IF i \in gone THEN {} ELSE options[i]]
      /\ moved' = moved \ gone
      /\ UNCHANGED draft

\* Mutant: the category's restaurant is not looked at.
MutantCategoryFits(k, x) == Is(category[k])

CategoryFits(k, x) == Is(category[k]) /\ category[k] = x

\* CreateItem reads the category and compares its restaurant ...
BeginCreateItem(i, k, x) ==
    /\ Edit
    /\ draft = None
    /\ item[i] = None
    /\ CategoryFits(k, x)
    /\ draft' = [item |-> i, restaurant |-> x, category |-> k]
    /\ UNCHANGED <<category, item, options, moved>>

\* ... and inserts the row, which fails if the category is gone by then.
CreateItem ==
    /\ draft # None
    /\ item' = IF ~ Is(category[draft.category]) THEN item
               ELSE [item EXCEPT ![draft.item] =
                       [restaurant |-> draft.restaurant, category |-> draft.category,
                        available |-> TRUE, deleted |-> FALSE]]
    /\ draft' = None
    /\ UNCHANGED <<category, options, moved, edits>>

\* UpdateItem takes any category that exists.
UpdateItem(i, k) ==
    /\ Edit
    /\ Kept(i)
    /\ Is(category[k]) /\ k # item[i].category
    /\ item' = [item EXCEPT ![i].category = k]
    /\ moved' = moved \cup {i}
    /\ UNCHANGED <<category, options, draft>>

SetItemAvailability(i) ==
    /\ Edit
    /\ Kept(i)
    /\ item' = [item EXCEPT ![i].available = ~ @]
    /\ UNCHANGED <<category, options, draft, moved>>

\* Only deleted_at changes: the row stays, and stays available.
DeleteItem(i) ==
    /\ Edit
    /\ Kept(i)
    /\ item' = [item EXCEPT ![i].deleted = TRUE]
    /\ UNCHANGED <<category, options, draft, moved>>

\* An option row needs the row it refers to, which may be soft-deleted.
AddOption(i, kind) ==
    /\ Edit
    /\ Is(item[i])
    /\ options' = [options EXCEPT ![i] = @ \cup {kind}]
    /\ UNCHANGED <<category, item, draft, moved>>

CreateVariantGroup(i) == AddOption(i, "variant group")

CreateVariant(i) == "variant group" \in options[i] /\ AddOption(i, "variant")

CreateAddonGroup(i) == AddOption(i, "addon group")

CreateAddon(i) == "addon group" \in options[i] /\ AddOption(i, "addon")

CategoryStep ==
    \E k \in Categories : DeleteCategory(k, {}) \/ \E x \in Restaurants : CreateCategory(k, x)

ItemStep ==
    \/ \E i \in Items, k \in Categories :
          UpdateItem(i, k) \/ \E x \in Restaurants : BeginCreateItem(i, k, x)
    \/ CreateItem
    \/ \E i \in Items : SetItemAvailability(i) \/ DeleteItem(i)

OptionStep ==
    \E i \in Items :
       CreateVariantGroup(i) \/ CreateVariant(i) \/ CreateAddonGroup(i) \/ CreateAddon(i)

\* Everything the owners do to the menu.
MenuNext == CategoryStep \/ ItemStep \/ OptionStep

MenuSpec == MenuInit /\ [][MenuNext]_menuVars

-----------------------------------------------------------------------------
\* GetFullMenu: the items of the restaurant, under the categories of the restaurant.
Shown(x) ==
    {i \in Items : Kept(i) /\ item[i].restaurant = x /\ category[item[i].category] = x}

\* Property of the menu a customer is shown: every item its restaurant has not
\* deleted is on it, except where UpdateItem, which does not repeat
\* CreateItem's check, has moved the item under another restaurant's category.
HiddenOnlyIfMoved ==
    \A i \in Items : Kept(i) => i \in Shown(item[i].restaurant) \/ i \in moved
=============================================================================

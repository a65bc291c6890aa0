----------------------------- MODULE Storefront -----------------------------
(***************************************************************************)
(* One customer's cart (cart_service.go), its conversion into an order     *)
(* (Checkout in order_service.go) and the menu both read (module Menu).    *)
(*                                                                         *)
(* The cart of a customer is one row, unique by customer; its lines name   *)
(* menu rows and are deleted with it.  AddItem, ClearCart and Checkout     *)
(* read the cart first and act on what they read in later statements,      *)
(* while other requests of the same customer (a second tap, another        *)
(* device) and the restaurants' changes go on.                             *)
(*                                                                         *)
(* The quantity, variant and add-ons of a line are abstracted to its total *)
(* price, which starts at 1.  Carts of different customers share nothing,  *)
(* so one customer is enough.  The order's history line and notification   *)
(* are in Orders.                                                          *)
(***************************************************************************)
EXTENDS Menu, FiniteSetsExt

CONSTANTS
    Carts,               \* the carts rows that may be created
    Lines,               \* the cart_items rows that may be created
    Requests,            \* request slots of the customer
    NoJob,               \* job[r] of a slot that serves no request
    MaxTotal,            \* bound: the largest total of a line
    MinOrderAmount       \* restaurants.min_order_amount

VARIABLES
    cart,                \* cart[c]: the restaurant of the row, Gone, or None
    line,                \* line[l]: the cart_items row, Gone, or None
    job,                 \* job[r]: the request in slot r, or NoJob
    ordered,             \* ordered[l]: how many orders have an item from line l
    late,                \* history variable: the lines added or changed since a
                         \* checkout in flight has read the cart
    mishaps              \* history variable: what has happened to checkouts

vars == <<menuVars, cart, line, job, ordered, late, mishaps>>

-----------------------------------------------------------------------------
\* wanted is not in the row but history: the restaurant the customer asked for.
Line == [cart : Carts, item : Items, total : 1 .. MaxTotal, wanted : Restaurants]

\* The lines as a checkout has read them.
Reading == [Lines -> Line \cup {None}]

\* What AddItem is asked for.
Wish == [item : Items, restaurant : Restaurants, addon : BOOLEAN]

Adding == [step : {"create"}, wish : Wish]
            \cup [step : {"clear", "drop", "insert"}, wish : Wish, cart : Carts]
            \cup [step : {"addon"}, line : Lines]
Clearing == [step : {"delete"}, cart : Carts]
Buying == [step : {"list"}, cart : Carts]
            \cup [step : {"addons", "restaurant", "order", "find"}, read : Reading]
            \cup [step : {"empty"}, cart : Carts, read : Reading]

Mishap == {"two checkouts", "cart not emptied"}

ASSUME StorefrontAssumption ==
    /\ NoJob \notin Adding \cup Clearing \cup Buying
    /\ {None, Gone} \cap Line = {}
    /\ MaxTotal \in Nat \ {0} /\ MinOrderAmount \in Nat

TypeOK ==
    /\ MenuTypeOK
    /\ cart \in [Carts -> Restaurants \cup {None, Gone}]
    /\ line \in [Lines -> Line \cup {None, Gone}]
    /\ job \in [Requests -> Adding \cup Clearing \cup Buying \cup {NoJob}]
    /\ ordered \in [Lines -> Nat]
    /\ late \subseteq Lines
    /\ mishaps \subseteq Mishap

\* A made-up menu, each item with options and of another restaurant.
Init ==
    /\ MenuInit
    /\ \A k \in Categories : Is(category[k])
    /\ \A i \in Items : Is(item[i]) /\ options[i] = OptionKind
    /\ \A i, j \in Items : i # j => item[i].restaurant # item[j].restaurant
    /\ cart = [c \in Carts |-> None]
    /\ line = [l \in Lines |-> None]
    /\ job = [r \in Requests |-> NoJob]
    /\ ordered = [l \in Lines |-> 0]
    /\ late = {}
    /\ mishaps = {}

Free(r) == job[r] = NoJob

At(r, step) == job[r] # NoJob /\ job[r].step = step

Become(r, newJob) == job' = [job EXCEPT ![r] = newJob]

\* The request ends; a refusal and a success leave the same.
Done(r) == Become(r, NoJob)

InCart(c) == {l \in Lines : Is(line[l]) /\ line[l].cart = c}

\* GetByCustomer: the customer's cart, of which there is at most one.
Mine == {c \in Carts : Is(cart[c])}

\* The checkouts in flight, and those of them that have read the lines.
CheckingOut == {r \in Requests : job[r] \in Buying}

Committed == {r \in CheckingOut : job[r].step # "list"}

Changed(l) == late' = IF Committed = {} THEN late ELSE late \cup {l}

\* A checkout ends.
Finish(r) == Done(r) /\ late' = IF Committed \subseteq {r} THEN {} ELSE late

DeleteLines(gone) == line' = [l \in Lines |-> IF l \in gone THEN Gone ELSE line[l]]

\* DELETE FROM carts WHERE id: the lines go with the row.
Delete(c) ==
    /\ cart' = IF c \in Mine THEN [cart EXCEPT ![c] = Gone] ELSE cart
    /\ DeleteLines(InCart(c))

-----------------------------------------------------------------------------
(***************************************************************************)
(* AddItem: find the cart, replace it if it is another restaurant's,       *)
(* insert the line, insert its add-on.                                     *)
(***************************************************************************)

\* The body names an item, a restaurant and perhaps an add-on.  Whether the
\* item is the restaurant's, or is there at all, nobody asks.
AddItem(r, i, x) ==
    \E wish \in [item : {i}, restaurant : {x}, addon : BOOLEAN] :
      /\ Free(r)
      /\ IF Mine = {} THEN Become(r, [step |-> "create", wish |-> wish])
         ELSE \E c \in Mine :
                Become(r, [step |-> IF cart[c] = wish.restaurant THEN "insert" ELSE "clear",
                           wish |-> wish, cart |-> c])
      /\ UNCHANGED <<menuVars, cart, line, ordered, late, mishaps>>

ClearItems(r) ==
    /\ At(r, "clear")
    /\ DeleteLines(InCart(job[r].cart))
    /\ Become(r, [job[r] EXCEPT !.step = "drop"])
    /\ UNCHANGED <<menuVars, cart, ordered, late, mishaps>>

DropCart(r) ==
    /\ At(r, "drop")
    /\ Delete(job[r].cart)
    /\ Become(r, [step |-> "create", wish |-> job[r].wish])
    /\ UNCHANGED <<menuVars, ordered, late, mishaps>>

\* The UNIQUE constraint on customer_id refuses a second cart.
CreateCart(r) ==
    /\ At(r, "create")
    /\ IF Mine # {} THEN Done(r) /\ UNCHANGED cart
       ELSE \E c \in Carts :
              /\ cart[c] = None
              /\ cart' = [cart EXCEPT ![c] = job[r].wish.restaurant]
              /\ Become(r, [step |-> "insert", wish |-> job[r].wish, cart |-> c])
    /\ UNCHANGED <<menuVars, line, ordered, late, mishaps>>

\* Mutant: the line goes into the cart the customer has by now.
MutantIntoCart(r) == Mine

\* The line refers to the cart that was found.
IntoCart(r) == {job[r].cart} \cap Mine

\* The foreign keys require the cart and the item to exist.
InsertItem(r) ==
    LET wish == job[r].wish IN
      /\ At(r, "insert")
      /\ IF IntoCart(r) = {} \/ ~ Is(item[wish.item])
         THEN Done(r) /\ UNCHANGED <<line, late>>
         ELSE \E l \in Lines, c \in IntoCart(r) :
                /\ line[l] = None
                /\ line' = [line EXCEPT ![l] = [cart |-> c, item |-> wish.item, total |-> 1,
                                                      wanted |-> wish.restaurant]]
                /\ Changed(l)
                /\ IF wish.addon THEN Become(r, [step |-> "addon", line |-> l]) ELSE Done(r)
      /\ UNCHANGED <<menuVars, cart, ordered, mishaps>>

\* The line may be gone by now; it may have been ordered without the add-on.
\* The bound keeps the total at MaxTotal.
AddItemAddon(r) ==
    LET l == job[r].line IN
      /\ At(r, "addon")
      /\ IF Is(line[l]) THEN line' = [line EXCEPT ![l].total = Min({@ + 1, MaxTotal})] /\ Changed(l)
         ELSE UNCHANGED <<line, late>>
      /\ Done(r)
      /\ UNCHANGED <<menuVars, cart, ordered, mishaps>>

-----------------------------------------------------------------------------
(***************************************************************************)
(* Changes of lines, and the emptying of the cart.                         *)
(***************************************************************************)

\* Another quantity, another total.
UpdateItemQuantity(l, total) ==
    /\ Is(line[l])
    /\ line' = [line EXCEPT ![l].total = total]
    /\ Changed(l)
    /\ UNCHANGED <<menuVars, cart, job, ordered, mishaps>>

RemoveItem(l) ==
    /\ Is(line[l])
    /\ DeleteLines({l})
    /\ UNCHANGED <<menuVars, cart, job, ordered, late, mishaps>>

ClearCart(r) ==
    /\ Free(r)
    /\ \E c \in Mine : Become(r, [step |-> "delete", cart |-> c])
    /\ UNCHANGED <<menuVars, cart, line, ordered, late, mishaps>>

DeleteCart(r) ==
    /\ At(r, "delete")
    /\ Delete(job[r].cart)
    /\ Done(r)
    /\ UNCHANGED <<menuVars, ordered, late, mishaps>>

-----------------------------------------------------------------------------
(***************************************************************************)
(* Checkout.                                                               *)
(***************************************************************************)

\* GetMyCart finds the cart ...
Checkout(r) ==
    /\ Free(r)
    /\ \E c \in Mine : Become(r, [step |-> "list", cart |-> c])
    /\ mishaps' = IF CheckingOut = {} THEN mishaps ELSE mishaps \cup {"two checkouts"}
    /\ UNCHANGED <<menuVars, cart, line, ordered, late>>

\* The join on menu_items looks at is_available, not at deleted_at.
HasUnavailable(lines) == \E l \in lines : ~ item[line[l].item].available

\* ... and lists its lines with their items.  An empty cart, a cart that is
\* gone and an unavailable item are refused.
ListPricedItems(r) ==
    LET lines == InCart(job[r].cart) IN
      /\ At(r, "list")
      /\ IF lines = {} \/ HasUnavailable(lines) THEN Done(r)
         ELSE Become(r, [step |-> "addons",
                         read |-> [l \in Lines |-> IF l \in lines THEN line[l] ELSE None]])
      /\ UNCHANGED <<menuVars, cart, line, ordered, late, mishaps>>

Taken(read) == {l \in Lines : read[l] # None}

\* ListAddonsForCartItem, in a statement of its own for each line.  The total
\* of a line that has changed or gone by the last of them is put together from
\* old and new parts, so it may be anything.
ListAddons(r) ==
    LET read == job[r].read IN
      /\ At(r, "addons")
      /\ \E total \in [{l \in Taken(read) : line[l] # read[l]} -> 1 .. MaxTotal] :
           Become(r, [step |-> "restaurant",
                      read |-> [l \in Lines |-> IF l \in DOMAIN total
                                                THEN [read[l] EXCEPT !.total = total[l]]
                                                ELSE read[l]]])
      /\ UNCHANGED <<menuVars, cart, line, ordered, late, mishaps>>

Subtotal(read) == MapThenSumSet(LAMBDA l : read[l].total, Taken(read))

\* The restaurant must be live, which is up to module Restaurants, and the
\* subtotal must reach its minimum.
GetRestaurant(r) ==
    LET j == job[r] IN
      /\ At(r, "restaurant")
      /\ \/ Finish(r)
         \/ /\ Subtotal(j.read) >= MinOrderAmount
            /\ Become(r, [j EXCEPT !.step = "order"])
            /\ UNCHANGED late
      /\ UNCHANGED <<menuVars, cart, line, ordered, mishaps>>

\* The order and its items are stored in one transaction, which an item whose
\* row is gone makes fail.
PlaceOrder(r) ==
    LET read == job[r].read
        stored == \A l \in Taken(read) : Is(item[read[l].item])
    IN
      /\ At(r, "order")
      /\ ordered' = [l \in Lines |-> IF stored /\ l \in Taken(read) THEN ordered[l] + 1
                                     ELSE ordered[l]]
      /\ IF stored THEN Become(r, [step |-> "find", read |-> read]) /\ UNCHANGED late
         ELSE Finish(r)
      /\ UNCHANGED <<menuVars, cart, line, mishaps>>

\* ClearCart looks the customer's cart up again ...
FindCart(r) ==
    /\ At(r, "find")
    /\ \/ Mine = {} /\ Finish(r)
       \/ \E c \in Mine : /\ Become(r, [step |-> "empty", cart |-> c, read |-> job[r].read])
                          /\ UNCHANGED late
    /\ UNCHANGED <<menuVars, cart, line, ordered, mishaps>>

\* Mutant: the row of the cart is kept, and its lines with it.
MutantEmptyCart(r) ==
    /\ At(r, "empty")
    /\ Finish(r)
    /\ UNCHANGED <<menuVars, cart, line, ordered, mishaps>>

\* ... and deletes it with whatever is in it by then.
EmptyCart(r) ==
    /\ At(r, "empty")
    /\ Delete(job[r].cart)
    /\ Finish(r)
    /\ UNCHANGED <<menuVars, ordered, mishaps>>

\* Mutant: a checkout whose order could not be stored goes on.
MutantAbort(r) ==
    /\ ~ Free(r)
    /\ IF At(r, "order") THEN Become(r, [job[r] EXCEPT !.step = "find"]) /\ UNCHANGED late
       ELSE Finish(r)
    /\ UNCHANGED <<menuVars, cart, line, ordered, mishaps>>

\* A statement fails, or the process ends, in the middle of a request.  The
\* checkout drops the errors of ClearCart, so an order stays and so does the
\* cart, which the bound lets happen once.
Abort(r) ==
    LET ordering == job[r] \in Buying /\ job[r].step \in {"find", "empty"} IN
      /\ ~ Free(r)
      /\ Finish(r)
      /\ ordering => "cart not emptied" \notin mishaps
      /\ mishaps' = IF ordering THEN mishaps \cup {"cart not emptied"} ELSE mishaps
      /\ UNCHANGED <<menuVars, cart, line, ordered>>

-----------------------------------------------------------------------------
(***************************************************************************)
(* The restaurants' side, and everything together.                         *)
(***************************************************************************)

\* cart_items.menu_item_id keeps the rows of the items in the cart.
MenuStep ==
    /\ \/ \E i \in Items : SetItemAvailability(i) \/ DeleteItem(i)
       \/ \E k \in Categories :
             DeleteCategory(k, {line[l].item : l \in {m \in Lines : Is(line[m])}})
    /\ UNCHANGED <<cart, line, job, ordered, late, mishaps>>

CartStep(r) ==
    \/ \E i \in Items, x \in Restaurants : AddItem(r, i, x)
    \/ ClearItems(r) \/ DropCart(r) \/ CreateCart(r) \/ InsertItem(r) \/ AddItemAddon(r)
    \/ ClearCart(r) \/ DeleteCart(r)

CheckoutStep(r) ==
    \/ Checkout(r) \/ ListPricedItems(r) \/ ListAddons(r) \/ GetRestaurant(r)
    \/ PlaceOrder(r) \/ FindCart(r) \/ EmptyCart(r)

LineStep ==
    \E l \in Lines : RemoveItem(l) \/ \E total \in 1 .. MaxTotal : UpdateItemQuantity(l, total)

Next ==
    \/ \E r \in Requests : CartStep(r) \/ CheckoutStep(r) \/ Abort(r)
    \/ LineStep \/ MenuStep

Spec == Init /\ [][Next]_vars

-----------------------------------------------------------------------------
\* Property of AddItem (cart_service.go, "one restaurant per cart"): a cart
\* holds only what was asked for from its restaurant, and only items whose rows
\* are there, however the customer's requests interleave with each other, with a
\* checkout and with changes of the menu.  Whose the item is is another matter:
\* a cart of one restaurant may hold an item of another.
OneRestaurantPerCart ==
    \A l \in Lines : Is(line[l]) =>
        /\ Is(item[line[l].item])
        /\ cart[line[l].cart] = line[l].wanted

\* Property of Checkout: a line is ordered at most once, except where checkouts
\* overlap (nothing locks the cart) or the cart was not emptied after the order.
OrderedOnce == mishaps = {} => \A l \in Lines : ordered[l] <= 1

\* Property of Checkout ("Cart is only cleared after the order is durably
\* created"): the lines its clearing of the cart removes are ordered as they
\* are, except those that came or changed after it had read the cart.
NothingVanishes ==
    [][\A r \in Requests : EmptyCart(r) =>
          \A l \in InCart(job[r].cart) \ late :
             ordered[l] > 0 /\ job[r].read[l] = line[l]]_vars
=============================================================================

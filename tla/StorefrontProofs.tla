-------------------------- MODULE StorefrontProofs --------------------------
(***************************************************************************)
(* Proofs about Menu and Storefront, for any constants.                    *)
(*                                                                         *)
(* HiddenOnlyIfMoved becomes inductive with two facts: a row never refers  *)
(* to a category that is gone, and what CreateItem has checked of its      *)
(* category stays true until it inserts the row, because no statement      *)
(* gives a category another restaurant.                                    *)
(*                                                                         *)
(* In the storefront an AddItem in flight knows that its cart is of the    *)
(* restaurant it was asked for, or gone; a checkout in flight has read every line     *)
(* that is not late as it is; and, while checkouts neither overlap nor     *)
(* leave a cart behind, a line that is ordered and still there is in the   *)
(* cart the one checkout is about to delete.                               *)
(***************************************************************************)
EXTENDS Storefront, TLAPS

USE MenuAssumption

\* Rows refer to rows, and to the restaurant's own ones unless moved.
RowsInv ==
    \A i \in Items : Is(item[i]) =>
        /\ Is(category[item[i].category])
        /\ category[item[i].category] = item[i].restaurant \/ i \in moved

\* What BeginCreateItem has checked, unless the category has been deleted since.
DraftInv ==
    draft # None => category[draft.category] \in {draft.restaurant, Gone}

MenuInv == MenuTypeOK /\ RowsInv /\ DraftInv

-----------------------------------------------------------------------------
\* Whatever menu the owners have built, the invariant holds of it.
LEMMA MenuStarts == MenuInit => MenuInv
  <1>1. SUFFICES ASSUME MenuInit PROVE MenuInv
    OBVIOUS
  <1>2. MenuTypeOK
    <2>1. options \in [Items -> SUBSET OptionKind]
      BY <1>1 DEF MenuInit
    <2>2. item \in [Items -> MenuItem \cup {None, Gone}]
      BY <1>1 DEF MenuInit, MenuItem
    <2>3. QED
      BY <1>1, <2>1, <2>2 DEF MenuInit, MenuTypeOK
  <1>3. RowsInv
    BY <1>1 DEF MenuInit, RowsInv, Is, MenuItem
  <1>4. QED
    BY <1>1, <1>2, <1>3 DEF MenuInit, MenuInv, DraftInv

\* Option rows and the flags of an item touch nothing the invariant relates.
LEMMA OptionKeeps ==
    ASSUME NEW i \in Items, NEW kind \in OptionKind, MenuInv, AddOption(i, kind)
    PROVE  MenuInv'
  BY DEF MenuInv, MenuTypeOK, RowsInv, DraftInv, AddOption, Edit, Is

LEMMA MenuKept == MenuInv /\ [MenuNext]_menuVars => MenuInv'
  <1> SUFFICES ASSUME MenuInv, [MenuNext]_menuVars PROVE MenuInv'
    OBVIOUS
  <1> USE DEF MenuInv
  <1>1. ASSUME NEW k \in Categories, NEW x \in Restaurants, CreateCategory(k, x)
        PROVE  MenuInv'
    <2>1. MenuTypeOK'
      BY <1>1 DEF CreateCategory, Edit, MenuTypeOK
    <2>2. RowsInv'
      BY <1>1 DEF CreateCategory, RowsInv, MenuTypeOK, MenuItem, Is
    <2>3. DraftInv'
      BY <1>1 DEF CreateCategory, DraftInv, MenuTypeOK, Draft, Is
    <2>4. QED
      BY <2>1, <2>2, <2>3
  <1>2. ASSUME NEW k \in Categories, DeleteCategory(k, {})
        PROVE  MenuInv'
    <2>1. MenuTypeOK'
      BY <1>2 DEF DeleteCategory, Edit, MenuTypeOK
    <2>2. RowsInv'
      BY <1>2 DEF DeleteCategory, RowsInv, MenuTypeOK, MenuItem, Is
    <2>3. DraftInv'
      BY <1>2 DEF DeleteCategory, DraftInv, MenuTypeOK, Draft, Is
    <2>4. QED
      BY <2>1, <2>2, <2>3
  <1>3. ASSUME NEW i \in Items, NEW k \in Categories, NEW x \in Restaurants,
               BeginCreateItem(i, k, x)
        PROVE  MenuInv'
    BY <1>3 DEF BeginCreateItem, CategoryFits, Edit, MenuTypeOK, RowsInv, DraftInv, Draft, Is
  <1>4. ASSUME CreateItem PROVE MenuInv'
    <2>1. draft \in Draft
      BY <1>4 DEF CreateItem, MenuTypeOK
    <2>2. MenuTypeOK'
      BY <1>4, <2>1 DEF CreateItem, MenuTypeOK, MenuItem, Draft
    <2>3. RowsInv'
      BY <1>4, <2>1 DEF CreateItem, MenuTypeOK, RowsInv, DraftInv, MenuItem, Draft, Is
    <2>4. QED
      BY <1>4, <2>2, <2>3 DEF CreateItem, DraftInv
  <1>5. ASSUME NEW i \in Items, NEW k \in Categories, UpdateItem(i, k)
        PROVE  MenuInv'
    <2>1. item[i] \in MenuItem
      BY <1>5 DEF UpdateItem, Kept, Is, MenuTypeOK
    <2>2. [item[i] EXCEPT !.category = k] \in MenuItem
      BY <2>1 DEF MenuItem
    <2>3. MenuTypeOK'
      BY <1>5, <2>2 DEF UpdateItem, Edit, MenuTypeOK
    <2>4. RowsInv'
      BY <1>5, <2>1 DEF UpdateItem, MenuTypeOK, RowsInv, MenuItem, Is
    <2>5. QED
      BY <1>5, <2>3, <2>4 DEF UpdateItem, DraftInv, Is
  <1>6. ASSUME NEW i \in Items, SetItemAvailability(i) \/ DeleteItem(i)
        PROVE  MenuInv'
    <2>1. item[i] \in MenuItem
      BY <1>6 DEF SetItemAvailability, DeleteItem, Kept, Is, MenuTypeOK
    <2>2. /\ [item[i] EXCEPT !.available = ~ @] \in MenuItem
          /\ [item[i] EXCEPT !.deleted = TRUE] \in MenuItem
      BY <2>1 DEF MenuItem
    <2>3. CASE SetItemAvailability(i)
      <3>1. MenuTypeOK'
        BY <2>2, <2>3 DEF SetItemAvailability, Edit, MenuTypeOK
      <3>2. RowsInv'
        BY <2>1, <2>3 DEF SetItemAvailability, MenuTypeOK, RowsInv, MenuItem, Is
      <3>3. QED
        BY <2>3, <3>1, <3>2 DEF SetItemAvailability, DraftInv
    <2>4. CASE DeleteItem(i)
      <3>1. MenuTypeOK'
        BY <2>2, <2>4 DEF DeleteItem, Edit, MenuTypeOK
      <3>2. RowsInv'
        BY <2>1, <2>4 DEF DeleteItem, MenuTypeOK, RowsInv, MenuItem, Is
      <3>3. QED
        BY <2>4, <3>1, <3>2 DEF DeleteItem, DraftInv
    <2>5. QED
      BY <1>6, <2>3, <2>4
  <1>7. ASSUME NEW i \in Items,
               \/ CreateVariantGroup(i) \/ CreateVariant(i)
               \/ CreateAddonGroup(i) \/ CreateAddon(i)
        PROVE  MenuInv'
    BY <1>7, OptionKeeps
    DEF CreateVariantGroup, CreateVariant, CreateAddonGroup, CreateAddon, OptionKind
  <1>8. CASE UNCHANGED menuVars
    BY <1>8 DEF menuVars, MenuTypeOK, RowsInv, DraftInv, Is
  <1>9. QED
    BY <1>1, <1>2, <1>3, <1>4, <1>5, <1>6, <1>7, <1>8
    DEF MenuNext, CategoryStep, ItemStep, OptionStep

LEMMA MenuInvariant == MenuSpec => []MenuInv
  BY MenuStarts, MenuKept, PTL DEF MenuSpec

\* Every reachable menu is well formed.
THEOREM MenuTypeCorrect == MenuSpec => []MenuTypeOK
  BY MenuInvariant, PTL DEF MenuInv

\* An item its restaurant has not deleted is on the menu of its restaurant,
\* unless UpdateItem has moved it: CreateItem's check of a category it read
\* earlier is good enough.
THEOREM HiddenCorrect == MenuSpec => []HiddenOnlyIfMoved
  <1>1. MenuInv => HiddenOnlyIfMoved
    BY DEF MenuInv, RowsInv, HiddenOnlyIfMoved, Shown, Kept, Is
  <1>2. QED
    BY <1>1, MenuInvariant, PTL

-----------------------------------------------------------------------------
(***************************************************************************)
(* The storefront.                                                         *)
(***************************************************************************)

USE StorefrontAssumption

\* Carts and checkouts leave the menu alone; the restaurants' side of the
\* storefront takes steps of Menu.
LEMMA MenuSteps == [Next]_vars => [MenuNext]_menuVars
  <1>1. ASSUME NEW k \in Categories, NEW inUse, DeleteCategory(k, inUse)
        PROVE  DeleteCategory(k, {})
    BY <1>1 DEF DeleteCategory
  <1>2. MenuStep => MenuNext
    BY <1>1 DEF MenuStep, MenuNext, CategoryStep, ItemStep
  <1>3. ASSUME NEW r \in Requests, CartStep(r) PROVE UNCHANGED menuVars
    BY <1>3 DEF CartStep, AddItem, ClearItems, DropCart, CreateCart, InsertItem, AddItemAddon,
                ClearCart, DeleteCart
  <1>4. ASSUME NEW r \in Requests, CheckoutStep(r) \/ Abort(r) PROVE UNCHANGED menuVars
    BY <1>4 DEF CheckoutStep, Checkout, ListPricedItems, ListAddons, GetRestaurant, PlaceOrder, FindCart,
                EmptyCart, Abort
  <1>5. LineStep => UNCHANGED menuVars
    BY DEF LineStep, RemoveItem, UpdateItemQuantity
  <1>6. QED
    BY <1>2, <1>3, <1>4, <1>5 DEF Next, vars

\* Composed with carts and checkouts, Menu takes only its own steps: what is
\* proved of it holds in the storefront.
THEOREM StorefrontIsMenu == Spec => MenuSpec
  <1>1. Init => MenuInit
    BY DEF Init
  <1>2. QED
    BY <1>1, MenuSteps, PTL DEF Spec, MenuSpec

\* The steps of a request that hold what they have read of the lines, and those
\* of any checkout.
ReadSteps == {"addons", "restaurant", "order", "find", "empty"}

HasRead(r) == ~ Free(r) /\ job[r].step \in ReadSteps

Buys(r) == ~ Free(r) /\ job[r].step \in ReadSteps \cup {"list"}

\* What a request in flight holds.
LEMMA JobForms ==
    ASSUME TypeOK, NEW r \in Requests, ~ Free(r)
    PROVE  /\ job[r].step \in {"create", "clear", "drop", "insert"} => job[r].wish \in Wish
           /\ job[r].step \in {"clear", "drop", "insert", "delete", "list", "empty"} =>
                job[r].cart \in Carts
           /\ job[r].step = "addon" => job[r].line \in Lines
           /\ job[r].step \in ReadSteps => job[r].read \in Reading
           /\ job[r].step \in {"create", "clear", "drop", "insert", "addon", "delete", "list"}
                               \cup ReadSteps
  <1>1. job[r] \in Adding \cup Clearing \cup Buying
    BY DEF TypeOK, Free
  <1>2. CASE job[r] \in Adding
    BY <1>2 DEF Adding, ReadSteps
  <1>3. CASE job[r] \in Clearing
    BY <1>3 DEF Clearing, ReadSteps
  <1>4. CASE job[r] \in Buying
    BY <1>4 DEF Buying, ReadSteps
  <1>5. QED
    BY <1>1, <1>2, <1>3, <1>4

LEMMA Checkouts ==
    ASSUME TypeOK, NEW r \in Requests
    PROVE  /\ r \in CheckingOut <=> Buys(r)
           /\ r \in Committed <=> HasRead(r)
  <1>1. Free(r) => r \notin CheckingOut
    BY DEF Free, CheckingOut
  <1>2. ASSUME ~ Free(r) PROVE job[r] \in Buying <=> job[r].step \in ReadSteps \cup {"list"}
    <2>1. job[r] \in Adding \cup Clearing \cup Buying
      BY <1>2 DEF TypeOK, Free
    <2>2. job[r] \in Adding \cup Clearing => job[r].step \notin ReadSteps \cup {"list"}
      BY DEF Adding, Clearing, ReadSteps
    <2>3. job[r] \in Buying => job[r].step \in ReadSteps \cup {"list"}
      BY DEF Buying, ReadSteps
    <2>4. QED
      BY <2>1, <2>2, <2>3
  <1>3. QED
    BY <1>1, <1>2 DEF CheckingOut, Committed, Buys, HasRead, ReadSteps

-----------------------------------------------------------------------------
\* What a step may do to a line: delete it, change its total, or insert it for
\* an AddItem whose cart is still there; a checkout in flight that has read the
\* lines takes notice of the last two.
Noticed(l) == Committed = {} \/ l \in late'

Repriced(l) ==
    /\ Is(line[l]) /\ line'[l] \in Line
    /\ line'[l].cart = line[l].cart /\ line'[l].item = line[l].item
    /\ line'[l].wanted = line[l].wanted
    /\ Noticed(l)

Inserted(l) ==
    /\ line[l] = None /\ line'[l] \in Line
    /\ \E r \in Requests :
         /\ At(r, "insert")
         /\ line'[l].cart = job[r].cart /\ job[r].cart \in Mine
         /\ line'[l].item = job[r].wish.item /\ Is(item[job[r].wish.item])
         /\ line'[l].wanted = job[r].wish.restaurant
    /\ UNCHANGED <<cart, item>>
    /\ Noticed(l)

\* The total of a line with one more add-on is within the bound.
LEMMA TotalBounded ==
    ASSUME NEW total \in 1 .. MaxTotal
    PROVE  Min({total + 1, MaxTotal}) \in 1 .. MaxTotal
  <1>1. CASE total = MaxTotal
    <2>1. \A x \in {total + 1, MaxTotal} : MaxTotal <= x
      BY <1>1
    <2>2. PICK m \in {total + 1, MaxTotal} : \A x \in {total + 1, MaxTotal} : m <= x
      BY <2>1
    <2>3. Min({total + 1, MaxTotal}) \in {total + 1, MaxTotal}
      BY <2>2 DEF Min
    <2>4. \A x \in {total + 1, MaxTotal} : Min({total + 1, MaxTotal}) <= x
      BY <2>2 DEF Min
    <2>5. QED
      BY <1>1, <2>3, <2>4
  <1>2. CASE total < MaxTotal
    <2>1. Min({total + 1, MaxTotal}) \in {total + 1, MaxTotal}
      <3>1. \A x \in {total + 1, MaxTotal} : total + 1 <= x
        BY <1>2
      <3>2. QED
        BY <3>1 DEF Min
    <2>2. QED
      BY <1>2, <2>1
  <1>3. QED
    BY <1>1, <1>2

LEMMA LineSteps ==
    ASSUME TypeOK, [Next]_vars, NEW l \in Lines, line'[l] # line[l]
    PROVE  \/ Is(line[l]) /\ line'[l] = Gone
           \/ Repriced(l)
           \/ Inserted(l)
  <1>0. line \in [Lines -> Line \cup {None, Gone}]
    BY DEF TypeOK
  <1>1. ASSUME NEW gone \in SUBSET Lines, DeleteLines(gone), \A m \in gone : Is(line[m])
        PROVE  Is(line[l]) /\ line'[l] = Gone
    BY <1>1 DEF DeleteLines
  <1>2. ASSUME NEW c, Delete(c) PROVE Is(line[l]) /\ line'[l] = Gone
    BY <1>1, <1>2 DEF Delete, InCart
  <1>3. ASSUME NEW r \in Requests, ClearItems(r) PROVE Is(line[l]) /\ line'[l] = Gone
    BY <1>1, <1>3 DEF ClearItems, InCart
  <1>4. ASSUME NEW r \in Requests, DropCart(r) \/ DeleteCart(r) \/ EmptyCart(r)
        PROVE  Is(line[l]) /\ line'[l] = Gone
    BY <1>2, <1>4 DEF DropCart, DeleteCart, EmptyCart
  <1>5. ASSUME NEW r \in Requests, InsertItem(r) PROVE Inserted(l)
    <2>1. /\ IntoCart(r) # {} /\ Is(item[job[r].wish.item]) /\ At(r, "insert")
          /\ UNCHANGED <<cart, item>>
      BY <1>5 DEF InsertItem, menuVars
    <2>2. job[r].wish \in Wish
      BY <2>1, JobForms DEF At, Free
    <2>3. PICK m \in Lines, c \in IntoCart(r) :
            /\ line[m] = None
            /\ line' = [line EXCEPT ![m] = [cart |-> c, item |-> job[r].wish.item, total |-> 1,
                                            wanted |-> job[r].wish.restaurant]]
            /\ Changed(m)
      BY <1>5, <2>1 DEF InsertItem
    <2>4. m = l /\ c = job[r].cart /\ c \in Mine /\ c \in Carts
      BY <1>0, <2>3 DEF IntoCart, Mine
    <2>5. line'[l] = [cart |-> job[r].cart, item |-> job[r].wish.item, total |-> 1,
                      wanted |-> job[r].wish.restaurant]
      BY <1>0, <2>3, <2>4
    <2>6. line'[l] \in Line
      BY <2>2, <2>4, <2>5 DEF Line, Wish
    <2>7. Noticed(l)
      BY <2>3, <2>4 DEF Changed, Noticed
    <2>8. QED
      BY <2>1, <2>3, <2>4, <2>5, <2>6, <2>7 DEF Inserted
  <1>6. ASSUME Is(line[l]), Changed(l),
               NEW total \in 1 .. MaxTotal, line' = [line EXCEPT ![l].total = total]
        PROVE  Repriced(l)
    <2>1. line[l] \in Line
      BY <1>0, <1>6 DEF Is
    <2>2. line'[l] = [line[l] EXCEPT !.total = total]
      BY <1>0, <1>6
    <2>3. QED
      BY <1>6, <2>1, <2>2 DEF Line, Repriced, Changed, Noticed
  <1>7. ASSUME NEW r \in Requests, AddItemAddon(r) PROVE Repriced(l)
    <2>1. job[r].line = l /\ Is(line[l]) /\ Changed(l)
      BY <1>0, <1>7 DEF AddItemAddon
    <2>2. line[l].total \in 1 .. MaxTotal
      BY <1>0, <2>1 DEF Is, Line
    <2>3. line' = [line EXCEPT ![l].total = Min({line[l].total + 1, MaxTotal})]
      BY <1>0, <1>7, <2>1 DEF AddItemAddon
    <2>4. QED
      BY <1>6, <2>1, <2>2, <2>3, TotalBounded
  <1>8. ASSUME NEW m \in Lines, NEW total \in 1 .. MaxTotal, UpdateItemQuantity(m, total)
        PROVE  Repriced(l)
    <2>1. m = l
      BY <1>0, <1>8 DEF UpdateItemQuantity
    <2>2. QED
      BY <1>6, <1>8, <2>1 DEF UpdateItemQuantity
  <1>9. ASSUME NEW m \in Lines, RemoveItem(m) PROVE Is(line[l]) /\ line'[l] = Gone
    BY <1>1, <1>9 DEF RemoveItem
  <1>10. ASSUME NEW r \in Requests, CartStep(r), ~ UNCHANGED line
         PROVE  \/ ClearItems(r) \/ DropCart(r) \/ DeleteCart(r)
                \/ InsertItem(r) \/ AddItemAddon(r)
    BY <1>10 DEF CartStep, AddItem, CreateCart, ClearCart
  <1>11. ASSUME NEW r \in Requests, CheckoutStep(r) \/ Abort(r), ~ UNCHANGED line
         PROVE  EmptyCart(r)
    BY <1>11 DEF CheckoutStep, Checkout, ListPricedItems, ListAddons, GetRestaurant, PlaceOrder, FindCart,
                 Abort
  <1>12. QED
    BY <1>3, <1>4, <1>5, <1>7, <1>8, <1>9, <1>10, <1>11 DEF Next, LineStep, MenuStep, vars

-----------------------------------------------------------------------------
\* What the add-ons change of what a checkout has read: the totals of lines that
\* have changed since.
LEMMA Priced ==
    ASSUME TypeOK, NEW r \in Requests, ListAddons(r)
    PROVE  \E read \in Reading :
             /\ Become(r, [step |-> "restaurant", read |-> read])
             /\ \A l \in Lines : /\ read[l] # None <=> job[r].read[l] # None
                                 /\ job[r].read[l] = line[l] => read[l] = job[r].read[l]
  <1> DEFINE old == job[r].read
             changed == {l \in Taken(old) : line[l] # old[l]}
  <1>1. old \in Reading
    BY JobForms DEF ListAddons, At, Free, ReadSteps
  <1>2. PICK total \in [changed -> 1 .. MaxTotal] :
          Become(r, [step |-> "restaurant",
                     read |-> [l \in Lines |-> IF l \in DOMAIN total
                                               THEN [old[l] EXCEPT !.total = total[l]]
                                               ELSE old[l]]])
    BY DEF ListAddons
  <1> DEFINE read == [l \in Lines |-> IF l \in DOMAIN total
                                      THEN [old[l] EXCEPT !.total = total[l]] ELSE old[l]]
  <1>3. ASSUME NEW l \in Lines
        PROVE  /\ read[l] \in Line \cup {None}
               /\ read[l] # None <=> old[l] # None
               /\ old[l] = line[l] => read[l] = old[l]
    <2>1. CASE l \in changed
      <3>1. old[l] \in Line /\ line[l] # old[l] /\ total[l] \in 1 .. MaxTotal
        BY <1>1, <2>1 DEF Taken, Reading
      <3>2. [old[l] EXCEPT !.total = total[l]] \in Line
        BY <3>1 DEF Line
      <3>3. QED
        BY <2>1, <3>1, <3>2
    <2>2. CASE l \notin changed
      BY <1>1, <2>2 DEF Reading
    <2>3. QED
      BY <2>1, <2>2
  <1>4. read \in Reading
    BY <1>3 DEF Reading
  <1>5. QED
    BY <1>2, <1>3, <1>4

\* What a request becomes is again a request.
LEMMA JobTypes ==
    ASSUME TypeOK, [Next]_vars
    PROVE  job' \in [Requests -> Adding \cup Clearing \cup Buying \cup {NoJob}]
  <1> DEFINE AnyJob == Adding \cup Clearing \cup Buying \cup {NoJob}
  <1>0. /\ job \in [Requests -> AnyJob]
        /\ item \in [Items -> MenuItem \cup {None, Gone}]
        /\ line \in [Lines -> Line \cup {None, Gone}]
    BY DEF TypeOK, MenuTypeOK
  <1>1. ASSUME NEW r \in Requests, NEW newJob \in AnyJob, Become(r, newJob)
        PROVE  job' \in [Requests -> AnyJob]
    BY <1>0, <1>1 DEF Become
  <1>2. ASSUME NEW r \in Requests, Done(r) PROVE job' \in [Requests -> AnyJob]
    BY <1>1, <1>2 DEF Done
  <1> HIDE DEF AnyJob
  <1>3. ASSUME NEW r \in Requests, NEW i \in Items, NEW x \in Restaurants, AddItem(r, i, x)
        PROVE  job' \in [Requests -> AnyJob]
    <2>1. PICK wish \in Wish :
            IF Mine = {} THEN Become(r, [step |-> "create", wish |-> wish])
            ELSE \E c \in Mine :
                   Become(r, [step |-> IF cart[c] = wish.restaurant THEN "insert" ELSE "clear",
                              wish |-> wish, cart |-> c])
      BY <1>3 DEF AddItem, Wish
    <2>2. ASSUME Mine = {} PROVE job' \in [Requests -> AnyJob]
      <3>1. Become(r, [step |-> "create", wish |-> wish])
        BY <2>1, <2>2
      <3>2. [step |-> "create", wish |-> wish] \in AnyJob
        BY <2>1 DEF Adding, AnyJob
      <3>3. QED
        BY <1>1, <3>1, <3>2
    <2>3. ASSUME Mine # {} PROVE job' \in [Requests -> AnyJob]
      <3>1. PICK c \in Mine :
              Become(r, [step |-> IF cart[c] = wish.restaurant THEN "insert" ELSE "clear",
                         wish |-> wish, cart |-> c])
        BY <2>1, <2>3
      <3>2. c \in Carts
        BY DEF Mine
      <3>3. ASSUME NEW step \in {"insert", "clear"}
            PROVE  [step |-> step, wish |-> wish, cart |-> c] \in AnyJob
        BY <2>1, <3>2 DEF Adding, AnyJob
      <3>4. QED
        BY <1>1, <3>1, <3>3
    <2>4. QED
      BY <2>2, <2>3
  <1>4. ASSUME NEW r \in Requests, ClearItems(r) PROVE job' \in [Requests -> AnyJob]
    <2>1. job[r] \in [step : {"clear", "drop", "insert"}, wish : Wish, cart : Carts]
      <3>1. job[r] \in Adding \cup Clearing \cup Buying /\ job[r].step = "clear"
        BY <1>0, <1>4 DEF ClearItems, At, AnyJob
      <3>2. QED
        BY <3>1 DEF Adding, Clearing, Buying
    <2>2. [job[r] EXCEPT !.step = "drop"] \in AnyJob
      BY <2>1 DEF Adding, AnyJob
    <2>3. QED
      BY <1>1, <1>4, <2>2 DEF ClearItems
  <1>5. ASSUME NEW r \in Requests, DropCart(r) PROVE job' \in [Requests -> AnyJob]
    <2>1. job[r].wish \in Wish
      BY <1>5, JobForms DEF DropCart, At, Free
    <2>2. [step |-> "create", wish |-> job[r].wish] \in AnyJob
      BY <2>1 DEF Adding, AnyJob
    <2>3. QED
      BY <1>1, <1>5, <2>2 DEF DropCart
  <1>6. ASSUME NEW r \in Requests, CreateCart(r) PROVE job' \in [Requests -> AnyJob]
    <2>1. job[r].wish \in Wish
      BY <1>6, JobForms DEF CreateCart, At, Free
    <2>2. ASSUME NEW c \in Carts
          PROVE  [step |-> "insert", wish |-> job[r].wish, cart |-> c] \in AnyJob
      BY <2>1 DEF Adding, AnyJob
    <2>3. QED
      BY <1>1, <1>2, <1>6, <2>2 DEF CreateCart
  <1>7. ASSUME NEW r \in Requests, InsertItem(r) PROVE job' \in [Requests -> AnyJob]
    <2>1. ASSUME NEW l \in Lines PROVE [step |-> "addon", line |-> l] \in AnyJob
      BY DEF Adding, AnyJob
    <2>2. QED
      BY <1>1, <1>2, <1>7, <2>1 DEF InsertItem
  <1>8. ASSUME NEW r \in Requests, ClearCart(r) PROVE job' \in [Requests -> AnyJob]
    <2>1. ASSUME NEW c \in Carts PROVE [step |-> "delete", cart |-> c] \in AnyJob
      BY DEF Clearing, AnyJob
    <2>2. QED
      BY <1>1, <1>8, <2>1 DEF ClearCart, Mine
  <1>9. ASSUME NEW r \in Requests, Checkout(r) PROVE job' \in [Requests -> AnyJob]
    <2>1. ASSUME NEW c \in Carts PROVE [step |-> "list", cart |-> c] \in AnyJob
      BY DEF Buying, AnyJob
    <2>2. QED
      BY <1>1, <1>9, <2>1 DEF Checkout, Mine
  <1>10. ASSUME NEW r \in Requests, ListPricedItems(r) PROVE job' \in [Requests -> AnyJob]
    <2> DEFINE read == [l \in Lines |-> IF l \in InCart(job[r].cart) THEN line[l] ELSE None]
    <2>1. read \in Reading
      BY <1>0 DEF Reading, InCart, Is
    <2> HIDE DEF read
    <2>2. [step |-> "addons", read |-> read] \in AnyJob
      BY <2>1 DEF Buying, AnyJob
    <2>3. QED
      BY <1>1, <1>2, <1>10, <2>2 DEF ListPricedItems, read
  <1>11. ASSUME NEW r \in Requests, GetRestaurant(r) PROVE job' \in [Requests -> AnyJob]
    <2>1. job[r] \in [step : {"addons", "restaurant", "order", "find"}, read : Reading]
      <3>1. job[r] \in Adding \cup Clearing \cup Buying /\ job[r].step = "restaurant"
        BY <1>0, <1>11 DEF GetRestaurant, At, AnyJob
      <3>2. QED
        BY <3>1 DEF Adding, Clearing, Buying
    <2>2. [job[r] EXCEPT !.step = "order"] \in AnyJob
      BY <2>1 DEF Buying, AnyJob
    <2>3. QED
      BY <1>1, <1>2, <1>11, <2>2 DEF GetRestaurant, Finish
  <1>12. ASSUME NEW r \in Requests, PlaceOrder(r) \/ FindCart(r)
         PROVE  job' \in [Requests -> AnyJob]
    <2>1. job[r].read \in Reading
      BY <1>12, JobForms DEF PlaceOrder, FindCart, At, Free, ReadSteps
    <2>2. [step |-> "find", read |-> job[r].read] \in AnyJob
      BY <2>1 DEF Buying, AnyJob
    <2>3. ASSUME NEW c \in Carts
          PROVE  [step |-> "empty", cart |-> c, read |-> job[r].read] \in AnyJob
      BY <2>1 DEF Buying, AnyJob
    <2>4. CASE PlaceOrder(r)
      BY <1>1, <1>2, <2>2, <2>4 DEF PlaceOrder, Finish
    <2>5. CASE FindCart(r)
      BY <1>1, <1>2, <2>3, <2>5 DEF FindCart, Finish, Mine
    <2>6. QED
      BY <1>12, <2>4, <2>5
  <1>13. ASSUME NEW r \in Requests,
                \/ AddItemAddon(r) \/ DeleteCart(r) \/ EmptyCart(r) \/ Abort(r)
         PROVE  job' \in [Requests -> AnyJob]
    BY <1>2, <1>13 DEF AddItemAddon, DeleteCart, EmptyCart, Abort, Finish
  <1>14. MenuStep \/ LineStep \/ UNCHANGED vars => job' = job
    BY DEF MenuStep, LineStep, RemoveItem, UpdateItemQuantity, vars
  <1>141. ASSUME NEW r \in Requests, ListAddons(r) PROVE job' \in [Requests -> AnyJob]
    <2>1. PICK read \in Reading : Become(r, [step |-> "restaurant", read |-> read])
      BY <1>141, Priced
    <2>2. [step |-> "restaurant", read |-> read] \in AnyJob
      BY DEF Buying, AnyJob
    <2>3. QED
      BY <1>1, <2>1, <2>2
  <1>15. job' \in [Requests -> AnyJob]
    BY <1>0, <1>3, <1>4, <1>5, <1>6, <1>7, <1>8, <1>9, <1>10, <1>11, <1>12, <1>13, <1>14, <1>141
    DEF Next, CartStep, CheckoutStep
  <1>16. QED
    BY <1>15 DEF AnyJob

\* The rows keep their types.
LEMMA RowTypes ==
    ASSUME TypeOK, [Next]_vars
    PROVE  /\ cart' \in [Carts -> Restaurants \cup {None, Gone}]
           /\ line' \in [Lines -> Line \cup {None, Gone}]
           /\ ordered' \in [Lines -> Nat]
           /\ late' \subseteq Lines
           /\ mishaps' \subseteq Mishap
  <1>0. /\ cart \in [Carts -> Restaurants \cup {None, Gone}]
        /\ line \in [Lines -> Line \cup {None, Gone}]
        /\ ordered \in [Lines -> Nat] /\ late \subseteq Lines /\ mishaps \subseteq Mishap
    BY DEF TypeOK
  <1>1. line' = [l \in Lines |-> line'[l]]
    <2>1. ASSUME NEW gone, DeleteLines(gone) PROVE line' = [l \in Lines |-> line'[l]]
      BY <2>1 DEF DeleteLines
    <2>2. ASSUME NEW r \in Requests, CartStep(r) PROVE line' = [l \in Lines |-> line'[l]]
      BY <1>0, <2>1, <2>2
      DEF CartStep, AddItem, ClearItems, DropCart, CreateCart, InsertItem, AddItemAddon,
          ClearCart, DeleteCart, Delete
    <2>3. ASSUME NEW r \in Requests, CheckoutStep(r) \/ Abort(r)
          PROVE  line' = [l \in Lines |-> line'[l]]
      BY <1>0, <2>1, <2>3
      DEF CheckoutStep, Checkout, ListPricedItems, ListAddons, GetRestaurant, PlaceOrder, FindCart,
          EmptyCart, Delete, Abort
    <2>4. LineStep \/ MenuStep \/ UNCHANGED vars => line' = [l \in Lines |-> line'[l]]
      BY <1>0, <2>1 DEF LineStep, RemoveItem, UpdateItemQuantity, MenuStep, vars
    <2>5. QED
      BY <2>2, <2>3, <2>4 DEF Next
  <1>2. \A l \in Lines : line'[l] \in Line \cup {None, Gone}
    BY <1>0, LineSteps DEF Repriced, Inserted
  <1>3. cart' \in [Carts -> Restaurants \cup {None, Gone}]
    <2>1. ASSUME NEW r \in Requests, CreateCart(r)
          PROVE  cart' \in [Carts -> Restaurants \cup {None, Gone}]
      <3>1. job[r].wish.restaurant \in Restaurants
        BY <2>1, JobForms DEF CreateCart, At, Free, Wish
      <3>2. QED
        BY <1>0, <2>1, <3>1 DEF CreateCart
    <2>2. ASSUME NEW r \in Requests, CartStep(r), ~ CreateCart(r)
          PROVE  cart' \in [Carts -> Restaurants \cup {None, Gone}]
      BY <1>0, <2>2
      DEF CartStep, AddItem, ClearItems, DropCart, InsertItem, AddItemAddon, ClearCart,
          DeleteCart, Delete
    <2>3. ASSUME NEW r \in Requests, CheckoutStep(r) \/ Abort(r)
          PROVE  cart' \in [Carts -> Restaurants \cup {None, Gone}]
      BY <1>0, <2>3
      DEF CheckoutStep, Checkout, ListPricedItems, ListAddons, GetRestaurant, PlaceOrder, FindCart,
          EmptyCart, Delete, Abort
    <2>4. LineStep \/ MenuStep \/ UNCHANGED vars => cart' = cart
      BY DEF LineStep, RemoveItem, UpdateItemQuantity, MenuStep, vars
    <2>5. QED
      BY <1>0, <2>1, <2>2, <2>3, <2>4 DEF Next
  <1>4. ordered' \in [Lines -> Nat] /\ mishaps' \subseteq Mishap
    <2>1. ASSUME NEW r \in Requests, CartStep(r) PROVE UNCHANGED <<ordered, mishaps>>
      BY <2>1
      DEF CartStep, AddItem, ClearItems, DropCart, CreateCart, InsertItem, AddItemAddon,
          ClearCart, DeleteCart
    <2>2. ASSUME NEW r \in Requests, CheckoutStep(r) \/ Abort(r)
          PROVE  ordered' \in [Lines -> Nat] /\ mishaps' \subseteq Mishap
      <3>1. PlaceOrder(r) => ordered' \in [Lines -> Nat] /\ mishaps' = mishaps
        BY <1>0 DEF PlaceOrder
      <3>2. (CheckoutStep(r) /\ ~ PlaceOrder(r)) \/ Abort(r) => ordered' = ordered
        BY DEF CheckoutStep, Checkout, ListPricedItems, ListAddons, GetRestaurant, FindCart, EmptyCart, Abort
      <3>3. Checkout(r) \/ Abort(r) => mishaps' \subseteq Mishap
        BY <1>0 DEF Checkout, Abort, Mishap
      <3>4. CheckoutStep(r) /\ ~ Checkout(r) => mishaps' = mishaps
        BY DEF CheckoutStep, ListPricedItems, ListAddons, GetRestaurant, PlaceOrder, FindCart,
               EmptyCart
      <3>5. QED
        BY <1>0, <2>2, <3>1, <3>2, <3>3, <3>4
    <2>3. LineStep \/ MenuStep \/ UNCHANGED vars => UNCHANGED <<ordered, mishaps>>
      BY DEF LineStep, RemoveItem, UpdateItemQuantity, MenuStep, vars
    <2>4. QED
      BY <1>0, <2>1, <2>2, <2>3 DEF Next
  <1>5. late' \subseteq Lines
    <2>1. ASSUME NEW r \in Requests, CartStep(r) PROVE late' \subseteq Lines
      <3>1. ASSUME AddItemAddon(r) PROVE job[r].line \in Lines
        <4>1. ~ Free(r) /\ job[r].step = "addon"
          BY <3>1 DEF AddItemAddon, At, Free
        <4>2. QED
          BY <4>1, JobForms
      <3>2. AddItemAddon(r) => late' \subseteq Lines
        BY <1>0, <3>1 DEF AddItemAddon, Changed
      <3>3. InsertItem(r) => late' \subseteq Lines
        BY <1>0 DEF InsertItem, Changed
      <3>4. QED
        BY <1>0, <2>1, <3>2, <3>3
        DEF CartStep, AddItem, ClearItems, DropCart, CreateCart, ClearCart, DeleteCart
    <2>2. ASSUME NEW r \in Requests, CheckoutStep(r) \/ Abort(r) PROVE late' \subseteq Lines
      BY <1>0, <2>2
      DEF CheckoutStep, Checkout, ListPricedItems, ListAddons, GetRestaurant, PlaceOrder, FindCart,
          EmptyCart, Abort, Finish
    <2>3. LineStep \/ MenuStep \/ UNCHANGED vars => late' \subseteq Lines
      BY <1>0 DEF LineStep, RemoveItem, UpdateItemQuantity, MenuStep, vars, Changed
    <2>4. QED
      BY <2>1, <2>2, <2>3 DEF Next
  <1>6. QED
    BY <1>1, <1>2, <1>3, <1>4, <1>5

LEMMA StoreTypes == TypeOK /\ MenuInv /\ [Next]_vars => TypeOK' /\ MenuInv'
  <1>1. MenuInv /\ [Next]_vars => MenuInv'
    BY MenuSteps, MenuKept
  <1>2. QED
    BY <1>1, JobTypes, RowTypes DEF TypeOK, MenuInv

-----------------------------------------------------------------------------
(***************************************************************************)
(* One restaurant per cart.  It becomes inductive with what AddItem knows  *)
(* until it inserts: the cart it has found is the wanted restaurant's or   *)
(* gone, and rows are never reused.                                        *)
(***************************************************************************)

Wishing == {"create", "clear", "drop", "insert"}

WishInv ==
    \A r \in Requests : ~ Free(r) /\ job[r].step = "insert" =>
        cart[job[r].cart] \in {job[r].wish.restaurant, Gone}

OneCart == \A c, d \in Mine : c = d

\* An item stays what it is or is deleted, and not while it is in a cart.
LEMMA ItemSteps ==
    ASSUME TypeOK, [Next]_vars, NEW i \in Items
    PROVE  /\ Is(item'[i]) => Is(item[i]) /\ item'[i].restaurant = item[i].restaurant
           /\ Is(item[i]) /\ ~ Is(item'[i]) =>
                UNCHANGED <<line, cart>> /\ \A l \in Lines : Is(line[l]) => line[l].item # i
  <1>0. item \in [Items -> MenuItem \cup {None, Gone}]
    BY DEF TypeOK, MenuTypeOK
  <1>1. ASSUME NEW j \in Items, SetItemAvailability(j) \/ DeleteItem(j)
        PROVE  /\ Is(item[i]) <=> Is(item'[i])
               /\ Is(item[i]) => item'[i].restaurant = item[i].restaurant
    <2>1. item[j] \in MenuItem
      BY <1>0, <1>1 DEF SetItemAvailability, DeleteItem, Kept, Is
    <2>2. /\ [item[j] EXCEPT !.available = ~ @] \in MenuItem
          /\ [item[j] EXCEPT !.deleted = TRUE] \in MenuItem
      BY <2>1 DEF MenuItem
    <2>3. \/ item'[i] = item[i]
          \/ i = j /\ item'[i] = [item[j] EXCEPT !.available = ~ @]
          \/ i = j /\ item'[i] = [item[j] EXCEPT !.deleted = TRUE]
      BY <1>0, <1>1 DEF SetItemAvailability, DeleteItem
    <2>4. [item[j] EXCEPT !.available = ~ @].restaurant = item[j].restaurant
      BY <2>1 DEF MenuItem
    <2>5. [item[j] EXCEPT !.deleted = TRUE].restaurant = item[j].restaurant
      BY <2>1 DEF MenuItem
    <2>6. QED
      BY <2>1, <2>2, <2>3, <2>4, <2>5 DEF Is
  <1>2. ASSUME NEW k \in Categories, NEW inUse, DeleteCategory(k, inUse)
        PROVE  /\ item'[i] = item[i] \/ item'[i] = Gone
               /\ Is(item[i]) /\ ~ Is(item'[i]) => i \notin inUse
    BY <1>0, <1>2 DEF DeleteCategory, Is
  <1>3. ASSUME MenuStep
        PROVE  /\ Is(item'[i]) => Is(item[i]) /\ item'[i].restaurant = item[i].restaurant
               /\ Is(item[i]) /\ ~ Is(item'[i]) =>
                    UNCHANGED <<line, cart>> /\ \A l \in Lines : Is(line[l]) => line[l].item # i
    <2>1. CASE \E j \in Items : SetItemAvailability(j) \/ DeleteItem(j)
      BY <1>1, <2>1
    <2>2. ASSUME NEW k \in Categories,
                 DeleteCategory(k, {line[l].item : l \in {m \in Lines : Is(line[m])}})
          PROVE  /\ Is(item'[i]) => Is(item[i]) /\ item'[i].restaurant = item[i].restaurant
                 /\ Is(item[i]) /\ ~ Is(item'[i]) =>
                      \A l \in Lines : Is(line[l]) => line[l].item # i
      BY <1>2, <2>2 DEF Is
    <2>3. QED
      BY <1>3, <2>1, <2>2 DEF MenuStep
  <1>4. ~ MenuStep => item' = item
    <2>1. ASSUME NEW r \in Requests, CartStep(r) PROVE item' = item
      BY <2>1 DEF CartStep, AddItem, ClearItems, DropCart, CreateCart, InsertItem, AddItemAddon,
                  ClearCart, DeleteCart, menuVars
    <2>2. ASSUME NEW r \in Requests, CheckoutStep(r) \/ Abort(r) PROVE item' = item
      BY <2>2 DEF CheckoutStep, Checkout, ListPricedItems, ListAddons, GetRestaurant, PlaceOrder, FindCart,
                  EmptyCart, Abort, menuVars
    <2>3. LineStep \/ UNCHANGED vars => item' = item
      BY DEF LineStep, RemoveItem, UpdateItemQuantity, vars, menuVars
    <2>4. QED
      BY <2>1, <2>2, <2>3 DEF Next
  <1>5. QED
    BY <1>3, <1>4

\* A cart is deleted with its lines, or created where there is none.
LEMMA CartSteps ==
    ASSUME TypeOK, [Next]_vars, NEW c \in Carts, cart'[c] # cart[c]
    PROVE  \/ /\ Is(cart[c]) /\ cart'[c] = Gone
              /\ \A l \in InCart(c) : line'[l] = Gone
           \/ /\ cart[c] = None /\ Mine = {} /\ line' = line
              /\ \A d \in Carts : d # c => cart'[d] = cart[d]
  <1>0. cart \in [Carts -> Restaurants \cup {None, Gone}]
    BY DEF TypeOK
  <1>1. ASSUME NEW d, Delete(d)
        PROVE  Is(cart[c]) /\ cart'[c] = Gone /\ \A l \in InCart(c) : line'[l] = Gone
    BY <1>0, <1>1 DEF Delete, DeleteLines, InCart, Mine
  <1>2. ASSUME NEW r \in Requests, CreateCart(r)
        PROVE  /\ cart[c] = None /\ Mine = {} /\ line' = line
               /\ \A d \in Carts : d # c => cart'[d] = cart[d]
    BY <1>0, <1>2 DEF CreateCart
  <1>3. ASSUME NEW r \in Requests, CartStep(r), ~ UNCHANGED cart
        PROVE  DropCart(r) \/ DeleteCart(r) \/ CreateCart(r)
    BY <1>3 DEF CartStep, AddItem, ClearItems, InsertItem, AddItemAddon, ClearCart
  <1>4. ASSUME NEW r \in Requests, CheckoutStep(r) \/ Abort(r), ~ UNCHANGED cart
        PROVE  EmptyCart(r)
    BY <1>4 DEF CheckoutStep, Checkout, ListPricedItems, ListAddons, GetRestaurant, PlaceOrder, FindCart,
                Abort
  <1>5. LineStep \/ MenuStep \/ UNCHANGED vars => cart' = cart
    BY DEF LineStep, RemoveItem, UpdateItemQuantity, MenuStep, vars
  <1>6. QED
    BY <1>1, <1>2, <1>3, <1>4, <1>5 DEF Next, DropCart, DeleteCart, EmptyCart

LEMMA OneCartKept == TypeOK /\ OneCart /\ [Next]_vars => OneCart'
  <1> SUFFICES ASSUME TypeOK, OneCart, [Next]_vars, NEW c \in Mine', NEW d \in Mine'
               PROVE  c = d
    BY DEF OneCart
  <1>1. /\ c \in Carts /\ d \in Carts
        /\ cart'[c] \notin {None, Gone} /\ cart'[d] \notin {None, Gone}
    BY DEF Mine, Is
  <1>2. CASE cart'[c] = cart[c] /\ cart'[d] = cart[d]
    BY <1>1, <1>2 DEF OneCart, Mine, Is
  <1>3. CASE cart'[c] # cart[c]
    BY <1>1, <1>3, CartSteps DEF Mine, Is
  <1>4. CASE cart'[d] # cart[d]
    BY <1>1, <1>4, CartSteps DEF Mine, Is
  <1>5. QED
    BY <1>2, <1>3, <1>4

\* How an AddItem in flight has come to its step.
LEMMA WishSteps ==
    ASSUME TypeOK, [Next]_vars, NEW r \in Requests,
           job'[r] # job[r], ~ Free(r)', job'[r].step \in Wishing
    PROVE  job'[r].step = "insert" => cart'[job'[r].cart] = job'[r].wish.restaurant
  <1>0. /\ job \in [Requests -> Adding \cup Clearing \cup Buying \cup {NoJob}]
        /\ cart \in [Carts -> Restaurants \cup {None, Gone}]
    BY DEF TypeOK
  <1>1. ASSUME NEW s \in Requests, NEW newJob, Become(s, newJob)
        PROVE  s = r /\ job'[r] = newJob
    BY <1>0, <1>1 DEF Become
  <1>2. ASSUME NEW s \in Requests, Done(s) PROVE FALSE
    BY <1>1, <1>2 DEF Done, Free
  <1>3. ASSUME NEW s \in Requests, NEW i \in Items, NEW x \in Restaurants, AddItem(s, i, x)
        PROVE  job'[r].step = "insert" => cart'[job'[r].cart] = job'[r].wish.restaurant
    <2>1. PICK wish :
            IF Mine = {} THEN Become(s, [step |-> "create", wish |-> wish])
            ELSE \E c \in Mine :
                   Become(s, [step |-> IF cart[c] = wish.restaurant THEN "insert" ELSE "clear",
                              wish |-> wish, cart |-> c])
      BY <1>3 DEF AddItem
    <2>2. cart' = cart
      BY <1>3 DEF AddItem
    <2>3. CASE Mine = {}
      <3>1. job'[r] = [step |-> "create", wish |-> wish]
        BY <1>1, <2>1, <2>3
      <3>2. QED
        BY <3>1
    <2>4. CASE Mine # {}
      <3>1. PICK c \in Mine :
              Become(s, [step |-> IF cart[c] = wish.restaurant THEN "insert" ELSE "clear",
                         wish |-> wish, cart |-> c])
        BY <2>1, <2>4
      <3>2. job'[r] = [step |-> IF cart[c] = wish.restaurant THEN "insert" ELSE "clear",
                       wish |-> wish, cart |-> c]
        BY <1>1, <3>1
      <3>3. QED
        BY <2>2, <3>2
    <2>5. QED
      BY <2>3, <2>4
  <1>4. ASSUME NEW s \in Requests, ClearItems(s) \/ DropCart(s) \/ CreateCart(s)
        PROVE  job'[r].step = "insert" => cart'[job'[r].cart] = job'[r].wish.restaurant
    <2>1. ~ Free(s)
      BY <1>4 DEF ClearItems, DropCart, CreateCart, At, Free
    <2>2. CASE ClearItems(s)
      <3>1. job[s] \in Adding /\ job[s].step = "clear"
        BY <1>0, <2>1, <2>2 DEF ClearItems, At, Free, Clearing, Buying
      <3>2. /\ [job[s] EXCEPT !.step = "drop"].wish = job[s].wish
            /\ [job[s] EXCEPT !.step = "drop"].step = "drop"
        BY <3>1 DEF Adding
      <3>3. s = r /\ job'[r] = [job[s] EXCEPT !.step = "drop"]
        BY <1>1, <2>2 DEF ClearItems
      <3>4. QED
        BY <2>1, <3>2, <3>3
    <2>3. CASE DropCart(s)
      <3>1. s = r /\ job'[r] = [step |-> "create", wish |-> job[s].wish]
        BY <1>1, <2>3 DEF DropCart
      <3>2. QED
        BY <2>1, <3>1
    <2>4. CASE CreateCart(s)
      <3>1. Mine = {}
        BY <1>2, <2>4 DEF CreateCart
      <3>2. PICK c \in Carts :
              /\ cart' = [cart EXCEPT ![c] = job[s].wish.restaurant]
              /\ Become(s, [step |-> "insert", wish |-> job[s].wish, cart |-> c])
        BY <2>4, <3>1 DEF CreateCart
      <3>3. s = r /\ job'[r] = [step |-> "insert", wish |-> job[s].wish, cart |-> c]
        BY <1>1, <3>2
      <3>4. cart'[c] = job[s].wish.restaurant
        BY <1>0, <3>2
      <3>5. QED
        BY <2>1, <3>3, <3>4
    <2>5. QED
      BY <1>4, <2>2, <2>3, <2>4
  <1>5. ASSUME NEW s \in Requests, NEW newJob, Become(s, newJob), newJob.step \notin Wishing
        PROVE  FALSE
    BY <1>1, <1>5
  <1>6. ASSUME NEW s \in Requests, CartStep(s),
               \A i \in Items, x \in Restaurants : ~ AddItem(s, i, x)
        PROVE  ClearItems(s) \/ DropCart(s) \/ CreateCart(s)
    <2>1. InsertItem(s) => FALSE
      BY <1>2, <1>5 DEF InsertItem, Wishing
    <2>2. AddItemAddon(s) \/ DeleteCart(s) => FALSE
      BY <1>2 DEF AddItemAddon, DeleteCart
    <2>3. ClearCart(s) => FALSE
      BY <1>5 DEF ClearCart, Wishing
    <2>4. QED
      BY <1>6, <2>1, <2>2, <2>3 DEF CartStep
  <1>7. ASSUME NEW s \in Requests, CheckoutStep(s) \/ Abort(s) PROVE FALSE
    <2>1. Checkout(s) => FALSE
      BY <1>5 DEF Checkout, Wishing
    <2>2. ListPricedItems(s) => FALSE
      BY <1>2, <1>5 DEF ListPricedItems, Wishing
    <2>3. ASSUME GetRestaurant(s) PROVE FALSE
      <3>1. job[s] \in Buying
        BY <1>0, <2>3 DEF GetRestaurant, At, Adding, Clearing
      <3>2. [job[s] EXCEPT !.step = "order"].step = "order"
        BY <3>1 DEF Buying
      <3>3. Done(s) \/ Become(s, [job[s] EXCEPT !.step = "order"])
        BY <2>3 DEF GetRestaurant, Finish
      <3>4. QED
        BY <1>2, <1>5, <3>2, <3>3 DEF Wishing
    <2>31. ASSUME ListAddons(s) PROVE FALSE
      <3>1. \E read : Become(s, [step |-> "restaurant", read |-> read])
        BY <2>31 DEF ListAddons
      <3>2. QED
        BY <1>5, <3>1 DEF Wishing
    <2>4. PlaceOrder(s) => FALSE
      BY <1>2, <1>5 DEF PlaceOrder, Finish, Wishing
    <2>5. FindCart(s) => FALSE
      BY <1>2, <1>5 DEF FindCart, Finish, Wishing
    <2>6. EmptyCart(s) \/ Abort(s) => FALSE
      BY <1>2 DEF EmptyCart, Abort, Finish
    <2>7. QED
      BY <1>7, <2>1, <2>2, <2>3, <2>31, <2>4, <2>5, <2>6 DEF CheckoutStep
  <1>8. LineStep \/ MenuStep \/ UNCHANGED vars => job' = job
    BY DEF LineStep, RemoveItem, UpdateItemQuantity, MenuStep, vars
  <1>9. QED
    BY <1>3, <1>4, <1>6, <1>7, <1>8 DEF Next, CartStep

LEMMA WishKept == TypeOK /\ WishInv /\ [Next]_vars => WishInv'
  <1> SUFFICES ASSUME TypeOK, WishInv, [Next]_vars,
                      NEW r \in Requests, ~ Free(r)', job'[r].step = "insert"
               PROVE  cart'[job'[r].cart] \in {job'[r].wish.restaurant, Gone}
    BY DEF WishInv
  <1>1. CASE job'[r] = job[r]
    <2>1. ~ Free(r) /\ job[r].step = "insert"
      BY <1>1 DEF Free
    <2>2. job[r].wish \in Wish /\ job[r].cart \in Carts
      BY <2>1, JobForms
    <2>3. job[r].wish.restaurant \in Restaurants
      BY <2>2 DEF Wish
    <2>4. cart[job[r].cart] \in {job[r].wish.restaurant, Gone}
      BY <2>1 DEF WishInv
    <2>5. cart'[job[r].cart] \in {job[r].wish.restaurant, Gone}
      BY <2>2, <2>3, <2>4, CartSteps
    <2>6. QED
      BY <1>1, <2>5
  <1>2. CASE job'[r] # job[r]
    BY <1>2, WishSteps DEF Wishing
  <1>3. QED
    BY <1>1, <1>2

LEMMA TogetherKept ==
    TypeOK /\ WishInv /\ OneRestaurantPerCart /\ [Next]_vars => OneRestaurantPerCart'
  <1> SUFFICES ASSUME TypeOK, WishInv, OneRestaurantPerCart, [Next]_vars,
                      NEW l \in Lines, Is(line'[l])
               PROVE  Is(item'[line'[l].item]) /\ cart'[line'[l].cart] = line'[l].wanted
    BY DEF OneRestaurantPerCart, Is
  <1>0. line \in [Lines -> Line \cup {None, Gone}]
    BY DEF TypeOK
  <1>1. ASSUME Is(line[l]), line'[l].cart = line[l].cart, line'[l].item = line[l].item,
               line'[l].wanted = line[l].wanted
        PROVE  Is(item'[line'[l].item]) /\ cart'[line'[l].cart] = line'[l].wanted
    <2>1. line[l].cart \in Carts /\ line[l].item \in Items /\ line[l].wanted \in Restaurants
      BY <1>0, <1>1 DEF Is, Line
    <2>2. Is(item[line[l].item]) /\ cart[line[l].cart] = line[l].wanted
      BY <1>1 DEF OneRestaurantPerCart
    <2>3. l \in InCart(line[l].cart)
      BY <1>1 DEF InCart
    <2>4. cart'[line[l].cart] = cart[line[l].cart]
      BY <2>1, <2>2, <2>3, CartSteps DEF Is
    <2>5. Is(item'[line[l].item])
      BY <1>1, <2>1, <2>2, ItemSteps
    <2>6. QED
      BY <1>1, <2>2, <2>4, <2>5
  <1>2. CASE line'[l] = line[l]
    BY <1>1, <1>2 DEF Is
  <1>3. CASE Repriced(l)
    BY <1>1, <1>3 DEF Repriced
  <1>4. CASE Inserted(l)
    <2>1. PICK r \in Requests :
            /\ At(r, "insert")
            /\ line'[l].cart = job[r].cart /\ job[r].cart \in Mine
            /\ line'[l].item = job[r].wish.item /\ Is(item[job[r].wish.item])
            /\ line'[l].wanted = job[r].wish.restaurant
      BY <1>4 DEF Inserted
    <2>2. cart' = cart /\ item' = item
      BY <1>4 DEF Inserted
    <2>3. Is(cart[job[r].cart])
      BY <2>1 DEF Mine
    <2>4. cart[job[r].cart] \in {job[r].wish.restaurant, Gone}
      BY <2>1 DEF WishInv, At, Free
    <2>5. QED
      BY <2>1, <2>2, <2>3, <2>4 DEF Is
  <1>5. QED
    BY <1>2, <1>3, <1>4, LineSteps DEF Is

-----------------------------------------------------------------------------
(***************************************************************************)
(* Checkout.  What a checkout has read of a line is what the line is, as   *)
(* long as the line is not among the late ones; what it has ordered, it    *)
(* has read.                                                               *)
(***************************************************************************)

ReadInv ==
    \A r \in Requests : HasRead(r) => \A l \in Lines :
        /\ Is(line[l]) /\ l \notin late => job[r].read[l] = line[l]
        /\ job[r].read[l] # None => line[l] # None
        /\ job[r].step \in {"find", "empty"} /\ job[r].read[l] # None => ordered[l] > 0

\* How a checkout in flight has come to its step, and what it holds then.
Started(r) == Checkout(r) /\ job'[r].step = "list"

Listed(r) ==
    /\ ~ Free(r) /\ job[r].step = "list" /\ job'[r].step = "addons"
    /\ InCart(job[r].cart) # {}
    /\ \A l \in Lines :
          job'[r].read[l] = IF l \in InCart(job[r].cart) THEN line[l] ELSE None
    /\ UNCHANGED <<cart, line, ordered, late, mishaps>>

\* The add-ons are read: a line that is as it was read keeps its total.
Summed(r) ==
    /\ HasRead(r) /\ job[r].step = "addons" /\ job'[r].step = "restaurant"
    /\ \A l \in Lines : /\ job'[r].read[l] # None <=> job[r].read[l] # None
                        /\ job[r].read[l] = line[l] => job'[r].read[l] = line[l]
    /\ UNCHANGED <<cart, line, ordered, late, mishaps>>

WentOn(r) ==
    /\ HasRead(r) /\ job'[r].read = job[r].read
    /\ UNCHANGED <<cart, line, late, mishaps>>
    /\ \/ job[r].step = "restaurant" /\ job'[r].step = "order" /\ UNCHANGED ordered
       \/ /\ job[r].step = "order" /\ job'[r].step = "find"
          /\ \A l \in Lines :
                ordered'[l] = IF job[r].read[l] # None THEN ordered[l] + 1 ELSE ordered[l]
       \/ /\ job[r].step = "find" /\ job'[r].step = "empty" /\ UNCHANGED ordered
          /\ job'[r].cart \in Mine

LEMMA CheckoutSteps ==
    ASSUME TypeOK, [Next]_vars, NEW r \in Requests, job'[r] # job[r], Buys(r)'
    PROVE  Started(r) \/ Listed(r) \/ Summed(r) \/ WentOn(r)
  <1>0. /\ job \in [Requests -> Adding \cup Clearing \cup Buying \cup {NoJob}]
        /\ ordered \in [Lines -> Nat]
    BY DEF TypeOK
  <1>1. ASSUME NEW s \in Requests, NEW newJob, Become(s, newJob)
        PROVE  s = r /\ job'[r] = newJob /\ newJob.step \in ReadSteps \cup {"list"}
    <2>1. s = r /\ job'[r] = newJob
      BY <1>0, <1>1 DEF Become
    <2>2. QED
      BY <2>1 DEF Buys
  <1>2. ASSUME NEW s \in Requests, Done(s) PROVE FALSE
    BY <1>1, <1>2 DEF Done, Buys, Free
  <1>3. ASSUME NEW s \in Requests, NEW newJob, Become(s, newJob),
               newJob.step \notin ReadSteps \cup {"list"}
        PROVE  FALSE
    BY <1>1, <1>3
  <1>4. ASSUME NEW s \in Requests, CartStep(s) PROVE FALSE
    <2>1. ASSUME NEW i \in Items, NEW x \in Restaurants, AddItem(s, i, x) PROVE FALSE
      <3>1. PICK newJob : Become(s, newJob) /\ newJob.step \in {"create", "insert", "clear"}
        <4>1. CASE Mine = {}
          BY <2>1, <4>1 DEF AddItem
        <4>2. CASE Mine # {}
          <5>1. PICK c \in Mine :
                  \E wish :
                    Become(s, [step |-> IF cart[c] = wish.restaurant THEN "insert" ELSE "clear",
                               wish |-> wish, cart |-> c])
            BY <2>1, <4>2 DEF AddItem
          <5>2. QED
            BY <5>1
        <4>3. QED
          BY <4>1, <4>2
      <3>2. QED
        BY <1>3, <3>1 DEF ReadSteps
    <2>2. ClearItems(s) => FALSE
      <3>1. ASSUME ClearItems(s) PROVE FALSE
        <4>1. job[s] \in Adding
          BY <1>0, <3>1 DEF ClearItems, At, Clearing, Buying
        <4>2. [job[s] EXCEPT !.step = "drop"].step = "drop"
          BY <4>1 DEF Adding
        <4>3. QED
          BY <1>3, <3>1, <4>2 DEF ClearItems, ReadSteps
      <3>2. QED
        BY <3>1
    <2>3. DropCart(s) => FALSE
      BY <1>3 DEF DropCart, ReadSteps
    <2>4. CreateCart(s) => FALSE
      BY <1>2, <1>3 DEF CreateCart, ReadSteps
    <2>5. InsertItem(s) => FALSE
      BY <1>2, <1>3 DEF InsertItem, ReadSteps
    <2>6. AddItemAddon(s) \/ DeleteCart(s) => FALSE
      BY <1>2 DEF AddItemAddon, DeleteCart
    <2>7. ClearCart(s) => FALSE
      BY <1>3 DEF ClearCart, ReadSteps
    <2>8. QED
      BY <1>4, <2>1, <2>2, <2>3, <2>4, <2>5, <2>6, <2>7 DEF CartStep
  <1>5. ASSUME NEW s \in Requests, CheckoutStep(s)
        PROVE  Started(r) \/ Listed(r) \/ Summed(r) \/ WentOn(r)
    <2>1. ASSUME Checkout(s) PROVE Started(r)
      <3>1. PICK c \in Mine : Become(s, [step |-> "list", cart |-> c])
        BY <2>1 DEF Checkout
      <3>2. s = r /\ job'[r] = [step |-> "list", cart |-> c]
        BY <1>1, <3>1
      <3>3. QED
        BY <2>1, <3>2 DEF Started
    <2>2. ASSUME ListPricedItems(s) PROVE Listed(r)
      <3> DEFINE lines == InCart(job[s].cart)
                 read == [l \in Lines |-> IF l \in lines THEN line[l] ELSE None]
      <3>1. lines # {} /\ Become(s, [step |-> "addons", read |-> read])
        BY <1>2, <2>2 DEF ListPricedItems
      <3>2. \A l \in Lines : read[l] = IF l \in lines THEN line[l] ELSE None
        OBVIOUS
      <3> HIDE DEF lines, read
      <3>3. s = r /\ job'[r] = [step |-> "addons", read |-> read]
        BY <1>1, <3>1
      <3>4. At(s, "list") /\ UNCHANGED <<cart, line, ordered, late, mishaps>>
        BY <2>2 DEF ListPricedItems
      <3>5. job'[r].step = "addons" /\ job'[r].read = read
        BY <3>3
      <3>6. QED
        BY <3>1, <3>2, <3>3, <3>4, <3>5 DEF Listed, lines, At, Free
    <2>21. ASSUME ListAddons(s) PROVE Summed(r)
      <3>1. PICK read \in Reading :
              /\ Become(s, [step |-> "restaurant", read |-> read])
              /\ \A l \in Lines : /\ read[l] # None <=> job[s].read[l] # None
                                  /\ job[s].read[l] = line[l] => read[l] = job[s].read[l]
        BY <2>21, Priced
      <3>2. s = r /\ job'[r] = [step |-> "restaurant", read |-> read]
        BY <1>1, <3>1
      <3>3. job'[r].step = "restaurant" /\ job'[r].read = read
        BY <3>2
      <3>4. At(s, "addons") /\ UNCHANGED <<cart, line, ordered, late, mishaps>>
        BY <2>21 DEF ListAddons
      <3>5. HasRead(r) /\ job[r].step = "addons"
        BY <3>2, <3>4 DEF At, HasRead, Free, ReadSteps
      <3>6. QED
        BY <3>1, <3>2, <3>3, <3>4, <3>5 DEF Summed
    <2>3. ASSUME GetRestaurant(s) PROVE WentOn(r)
      <3>1. job[s] \in Buying /\ job[s].step = "restaurant"
        BY <1>0, <2>3 DEF GetRestaurant, At, Adding, Clearing
      <3>2. /\ [job[s] EXCEPT !.step = "order"].step = "order"
            /\ [job[s] EXCEPT !.step = "order"].read = job[s].read
        BY <3>1 DEF Buying
      <3>3. /\ Become(s, [job[s] EXCEPT !.step = "order"])
            /\ UNCHANGED <<cart, line, ordered, late, mishaps>>
        BY <1>2, <2>3 DEF GetRestaurant, Finish
      <3>4. s = r /\ job'[r] = [job[s] EXCEPT !.step = "order"]
        BY <1>1, <3>3
      <3>5. HasRead(r)
        BY <2>3, <3>4 DEF GetRestaurant, At, HasRead, Free, ReadSteps
      <3>6. QED
        BY <3>1, <3>2, <3>3, <3>4, <3>5 DEF WentOn
    <2>4. ASSUME PlaceOrder(s) PROVE WentOn(r)
      <3>1. /\ At(s, "order") /\ Become(s, [step |-> "find", read |-> job[s].read])
            /\ UNCHANGED <<cart, line, late, mishaps>>
            /\ ordered' = [l \in Lines |-> IF l \in Taken(job[s].read) THEN ordered[l] + 1
                                           ELSE ordered[l]]
        BY <1>2, <2>4 DEF PlaceOrder, Finish
      <3>2. s = r /\ job'[r] = [step |-> "find", read |-> job[s].read]
        BY <1>1, <3>1
      <3>3. HasRead(r) /\ job[r].step = "order"
        BY <3>1, <3>2 DEF At, HasRead, Free, ReadSteps
      <3>4. job'[r].step = "find" /\ job'[r].read = job[r].read
        BY <3>2
      <3>5. \A l \in Lines :
              ordered'[l] = IF job[r].read[l] # None THEN ordered[l] + 1 ELSE ordered[l]
        BY <3>1, <3>2 DEF Taken
      <3>6. QED
        BY <3>1, <3>3, <3>4, <3>5 DEF WentOn
    <2>5. ASSUME FindCart(s) PROVE WentOn(r)
      <3>1. PICK c \in Mine :
              Become(s, [step |-> "empty", cart |-> c, read |-> job[s].read]) /\ UNCHANGED late
        BY <1>2, <2>5 DEF FindCart, Finish
      <3>2. s = r /\ job'[r] = [step |-> "empty", cart |-> c, read |-> job[s].read]
        BY <1>1, <3>1
      <3>3. At(s, "find") /\ UNCHANGED <<cart, line, ordered, mishaps>>
        BY <2>5 DEF FindCart
      <3>4. HasRead(r) /\ job[r].step = "find"
        BY <3>2, <3>3 DEF At, HasRead, Free, ReadSteps
      <3>5. job'[r].step = "empty" /\ job'[r].read = job[r].read /\ job'[r].cart = c
        BY <3>2
      <3>6. QED
        BY <3>1, <3>3, <3>4, <3>5 DEF WentOn
    <2>6. EmptyCart(s) => FALSE
      BY <1>2 DEF EmptyCart, Finish
    <2>7. QED
      BY <1>5, <2>1, <2>2, <2>21, <2>3, <2>4, <2>5, <2>6 DEF CheckoutStep
  <1>6. ASSUME NEW s \in Requests, Abort(s) PROVE FALSE
    BY <1>2, <1>6 DEF Abort, Finish
  <1>7. LineStep \/ MenuStep \/ UNCHANGED vars => job' = job
    BY DEF LineStep, RemoveItem, UpdateItemQuantity, MenuStep, vars
  <1>8. QED
    BY <1>4, <1>5, <1>6, <1>7 DEF Next

\* While a checkout goes on, what is late stays late.
LEMMA LateSteps ==
    ASSUME TypeOK, [Next]_vars, NEW r \in Requests, HasRead(r), HasRead(r)'
    PROVE  late \subseteq late'
  <1>0. r \in Committed /\ job \in [Requests -> Adding \cup Clearing \cup Buying \cup {NoJob}]
    BY Checkouts DEF TypeOK
  <1>1. ASSUME NEW s \in Requests, Finish(s) PROVE late \subseteq late'
    <2>1. s # r
      BY <1>0, <1>1 DEF Finish, Done, Become, HasRead, Free
    <2>2. QED
      BY <1>0, <1>1, <2>1 DEF Finish
  <1>2. ASSUME NEW l, Changed(l) PROVE late \subseteq late'
    BY <1>2 DEF Changed
  <1>3. ASSUME NEW s \in Requests, CartStep(s) PROVE late \subseteq late'
    <2>1. InsertItem(s) \/ AddItemAddon(s) => late \subseteq late'
      BY <1>2 DEF InsertItem, AddItemAddon
    <2>2. QED
      BY <1>3, <2>1 DEF CartStep, AddItem, ClearItems, DropCart, CreateCart, ClearCart, DeleteCart
  <1>4. ASSUME NEW s \in Requests, CheckoutStep(s) \/ Abort(s) PROVE late \subseteq late'
    BY <1>1, <1>4
    DEF CheckoutStep, Checkout, ListPricedItems, ListAddons, GetRestaurant, PlaceOrder, FindCart, EmptyCart,
        Abort
  <1>5. LineStep \/ MenuStep \/ UNCHANGED vars => late \subseteq late'
    BY <1>2 DEF LineStep, RemoveItem, UpdateItemQuantity, MenuStep, vars
  <1>6. QED
    BY <1>3, <1>4, <1>5 DEF Next

\* Only a checkout that has read a line orders it.
LEMMA OrderedSteps ==
    ASSUME TypeOK, [Next]_vars, NEW l \in Lines, ordered'[l] # ordered[l]
    PROVE  \E r \in Requests :
             /\ HasRead(r) /\ job[r].step = "order" /\ job[r].read[l] # None
             /\ ordered'[l] = ordered[l] + 1
             /\ job'[r] = [step |-> "find", read |-> job[r].read]
             /\ UNCHANGED line
  <1>0. /\ job \in [Requests -> Adding \cup Clearing \cup Buying \cup {NoJob}]
        /\ ordered \in [Lines -> Nat]
    BY DEF TypeOK
  <1>1. ASSUME NEW r \in Requests, CartStep(r) PROVE FALSE
    BY <1>1
    DEF CartStep, AddItem, ClearItems, DropCart, CreateCart, InsertItem, AddItemAddon,
        ClearCart, DeleteCart
  <1>2. ASSUME NEW r \in Requests, CheckoutStep(r) \/ Abort(r) PROVE PlaceOrder(r)
    BY <1>2
    DEF CheckoutStep, Checkout, ListPricedItems, ListAddons, GetRestaurant, FindCart, EmptyCart, Abort
  <1>3. LineStep \/ MenuStep \/ UNCHANGED vars => FALSE
    BY DEF LineStep, RemoveItem, UpdateItemQuantity, MenuStep, vars
  <1>4. PICK r \in Requests : PlaceOrder(r)
    BY <1>1, <1>2, <1>3 DEF Next
  <1>5. /\ ordered'[l] = ordered[l] + 1 /\ l \in Taken(job[r].read)
        /\ Become(r, [step |-> "find", read |-> job[r].read])
    BY <1>0, <1>4 DEF PlaceOrder
  <1>6. At(r, "order") /\ UNCHANGED line
    BY <1>4 DEF PlaceOrder
  <1>7. job'[r] = [step |-> "find", read |-> job[r].read]
    BY <1>0, <1>5 DEF Become
  <1>8. QED
    BY <1>5, <1>6, <1>7 DEF Taken, At, HasRead, Free, ReadSteps

\* Every line in the cart is in the customer's one cart.
LEMMA InTheCart ==
    ASSUME TypeOK, OneRestaurantPerCart, NEW l \in Lines, Is(line[l])
    PROVE  line[l].cart \in Mine
  <1>1. line[l] \in Line
    BY DEF TypeOK, Is
  <1>2. QED
    BY <1>1 DEF OneRestaurantPerCart, Mine, Line, Is

LEMMA ReadKept ==
    TypeOK /\ OneCart /\ OneRestaurantPerCart /\ ReadInv /\ [Next]_vars => ReadInv'
  <1> SUFFICES ASSUME TypeOK, OneCart, OneRestaurantPerCart, ReadInv, [Next]_vars,
                      NEW r \in Requests, HasRead(r)', NEW l \in Lines
               PROVE  /\ Is(line'[l]) /\ l \notin late' => job'[r].read[l] = line'[l]
                      /\ job'[r].read[l] # None => line'[l] # None
                      /\ job'[r].step \in {"find", "empty"} /\ job'[r].read[l] # None =>
                           ordered'[l] > 0
    BY DEF ReadInv, Is
  <1>0. ordered \in [Lines -> Nat]
    BY DEF TypeOK
  <1>1. CASE job'[r] = job[r]
    <2>1. HasRead(r) /\ r \in Committed
      BY <1>1, Checkouts DEF HasRead, Free
    <2>2. /\ Is(line[l]) /\ l \notin late => job[r].read[l] = line[l]
          /\ job[r].read[l] # None => line[l] # None
          /\ job[r].step \in {"find", "empty"} /\ job[r].read[l] # None => ordered[l] > 0
      BY <2>1 DEF ReadInv
    <2>3. late \subseteq late'
      BY <2>1, LateSteps
    <2>4. line'[l] # line[l] => line'[l] = Gone \/ (line'[l] \in Line /\ l \in late')
      <3>1. Noticed(l) => l \in late'
        BY <2>1 DEF Noticed
      <3>2. Repriced(l) \/ Inserted(l) => line'[l] \in Line /\ Noticed(l)
        BY DEF Repriced, Inserted
      <3>3. QED
        BY <3>1, <3>2, LineSteps
    <2>5. ordered'[l] = ordered[l] \/ ordered'[l] = ordered[l] + 1
      BY OrderedSteps
    <2>6. QED
      BY <1>0, <1>1, <2>2, <2>3, <2>4, <2>5 DEF Is
  <1>2. CASE Listed(r)
    <2>1. PICK m \in Lines : Is(line[m]) /\ line[m].cart = job[r].cart
      BY <1>2 DEF Listed, InCart
    <2>2. job[r].cart \in Mine
      BY <2>1, InTheCart
    <2>3. Is(line[l]) => l \in InCart(job[r].cart)
      BY <2>2, InTheCart DEF OneCart, InCart
    <2>4. /\ job'[r].read[l] = IF l \in InCart(job[r].cart) THEN line[l] ELSE None
          /\ line' = line /\ job'[r].step = "addons"
      BY <1>2 DEF Listed
    <2>5. QED
      BY <2>3, <2>4 DEF Is
  <1>3. CASE WentOn(r)
    <2>1. /\ Is(line[l]) /\ l \notin late => job[r].read[l] = line[l]
          /\ job[r].read[l] # None => line[l] # None
          /\ job[r].step \in {"find", "empty"} /\ job[r].read[l] # None => ordered[l] > 0
      BY <1>3 DEF WentOn, ReadInv
    <2>2. job'[r].read = job[r].read /\ line' = line /\ late' = late
      BY <1>3 DEF WentOn
    <2>3. ordered[l] \in Nat
      BY <1>0
    <2>4. job'[r].step \in {"find", "empty"} /\ job[r].read[l] # None => ordered'[l] > 0
      BY <1>3, <2>1, <2>3 DEF WentOn
    <2>5. QED
      BY <2>1, <2>2, <2>4
  <1>4. CASE Summed(r)
    <2>1. /\ Is(line[l]) /\ l \notin late => job[r].read[l] = line[l]
          /\ job[r].read[l] # None => line[l] # None
      BY <1>4 DEF Summed, ReadInv
    <2>2. QED
      BY <1>4, <2>1 DEF Summed
  <1>5. Buys(r)' /\ ~ Started(r)
    BY DEF HasRead, Buys, ReadSteps, Started
  <1>6. QED
    BY <1>1, <1>2, <1>3, <1>4, <1>5, CheckoutSteps

\* Where no checkouts have overlapped and every order's cart was emptied, a
\* line that is ordered and still there is one the checkout in flight is
\* about to delete.
Holds(r, l) ==
    /\ HasRead(r) /\ job[r].step \in {"find", "empty"} /\ job[r].read[l] # None
    /\ job[r].step = "empty" => line[l].cart = job[r].cart

Undisturbed ==
    /\ \A r, s \in Requests : Buys(r) /\ Buys(s) => r = s
    /\ \A l \in Lines : ordered[l] <= 1
    /\ \A r \in Requests, l \in Lines :
         HasRead(r) /\ job[r].step \in {"addons", "restaurant", "order"} /\ job[r].read[l] # None =>
           ordered[l] = 0
    /\ \A l \in Lines : ordered[l] > 0 /\ Is(line[l]) => \E r \in Requests : Holds(r, l)

OnceInv ==
    /\ \A l \in Lines : ordered[l] > 0 => line[l] # None
    /\ mishaps = {} => Undisturbed

\* A mishap is not forgotten.
LEMMA MishapSteps ==
    ASSUME [Next]_vars
    PROVE  mishaps \subseteq mishaps'
  <1>1. ASSUME NEW r \in Requests, CartStep(r) PROVE mishaps' = mishaps
    BY <1>1
    DEF CartStep, AddItem, ClearItems, DropCart, CreateCart, InsertItem, AddItemAddon,
        ClearCart, DeleteCart
  <1>2. ASSUME NEW r \in Requests, CheckoutStep(r) \/ Abort(r) PROVE mishaps \subseteq mishaps'
    BY <1>2
    DEF CheckoutStep, Checkout, ListPricedItems, ListAddons, GetRestaurant, PlaceOrder, FindCart, EmptyCart,
        Abort
  <1>3. LineStep \/ MenuStep \/ UNCHANGED vars => mishaps' = mishaps
    BY DEF LineStep, RemoveItem, UpdateItemQuantity, MenuStep, vars
  <1>4. QED
    BY <1>1, <1>2, <1>3 DEF Next

\* A checkout that has ordered ends with the cart it has emptied, without a
\* cart, or in a mishap.
LEMMA EndSteps ==
    ASSUME TypeOK, [Next]_vars, NEW r \in Requests,
           HasRead(r), job[r].step \in {"find", "empty"}, ~ HasRead(r)'
    PROVE  \/ mishaps' # {}
           \/ job[r].step = "find" /\ Mine = {}
           \/ job[r].step = "empty" /\ DeleteLines(InCart(job[r].cart))
  <1>0. /\ job \in [Requests -> Adding \cup Clearing \cup Buying \cup {NoJob}]
        /\ ~ Free(r)
    BY DEF TypeOK, HasRead
  <1>1. ASSUME NEW s \in Requests, NEW newJob, Become(s, newJob)
        PROVE  s = r
    <2>1. job'[r] # job[r]
      BY DEF HasRead, Free
    <2>2. QED
      BY <1>0, <1>1, <2>1 DEF Become
  <1>2. ASSUME NEW s \in Requests, CartStep(s) PROVE FALSE
    <2>1. job[r].step \notin {"create", "clear", "drop", "insert", "addon", "delete"}
      OBVIOUS
    <2>2. s = r
      BY <1>1, <1>2
      DEF CartStep, AddItem, ClearItems, DropCart, CreateCart, InsertItem, AddItemAddon,
          ClearCart, DeleteCart, Done
    <2>3. QED
      BY <1>0, <1>2, <2>1, <2>2
      DEF CartStep, AddItem, ClearItems, DropCart, CreateCart, InsertItem, AddItemAddon,
          ClearCart, DeleteCart, At
  <1>3. ASSUME NEW s \in Requests, CheckoutStep(s)
        PROVE  \/ job[r].step = "find" /\ Mine = {}
               \/ job[r].step = "empty" /\ DeleteLines(InCart(job[r].cart))
    <2>1. Checkout(s) => FALSE
      BY <1>0, <1>1 DEF Checkout
    <2>2. ListPricedItems(s) \/ ListAddons(s) \/ GetRestaurant(s) \/ PlaceOrder(s) => FALSE
      BY <1>1 DEF ListPricedItems, ListAddons, GetRestaurant, PlaceOrder, At, Finish, Done
    <2>3. ASSUME FindCart(s) PROVE job[r].step = "find" /\ Mine = {}
      <3>1. s = r
        BY <1>1, <2>3 DEF FindCart, Finish, Done
      <3>2. ASSUME NEW c \in Mine,
                   Become(r, [step |-> "empty", cart |-> c, read |-> job[r].read])
            PROVE  FALSE
        <4>1. job'[r] = [step |-> "empty", cart |-> c, read |-> job[r].read]
          BY <1>0, <3>2 DEF Become
        <4>2. job[r].read \in Reading
          BY <1>0, JobForms DEF HasRead
        <4>3. [step |-> "empty", cart |-> c, read |-> job[r].read] \in Buying
          BY <4>2 DEF Mine, Buying
        <4>4. QED
          BY <4>1, <4>3 DEF HasRead, Free, ReadSteps
      <3>3. QED
        BY <2>3, <3>1, <3>2 DEF FindCart, At
    <2>4. ASSUME EmptyCart(s) PROVE job[r].step = "empty" /\ DeleteLines(InCart(job[r].cart))
      <3>1. s = r
        BY <1>1, <2>4 DEF EmptyCart, Finish, Done
      <3>2. QED
        BY <2>4, <3>1 DEF EmptyCart, Delete, At
    <2>5. QED
      BY <1>3, <2>1, <2>2, <2>3, <2>4 DEF CheckoutStep
  <1>4. ASSUME NEW s \in Requests, Abort(s) PROVE mishaps' # {}
    <2>1. s = r
      BY <1>1, <1>4 DEF Abort, Finish, Done
    <2>2. job[r] \in Buying
      BY Checkouts DEF CheckingOut, Buys, HasRead
    <2>3. QED
      BY <1>4, <2>1, <2>2 DEF Abort
  <1>5. LineStep \/ MenuStep \/ UNCHANGED vars => job' = job
    BY DEF LineStep, RemoveItem, UpdateItemQuantity, MenuStep, vars
  <1>6. QED
    BY <1>2, <1>3, <1>4, <1>5 DEF Next, HasRead, Free

LEMMA OnceKept ==
    /\ TypeOK /\ OneCart /\ OneRestaurantPerCart /\ ReadInv /\ OnceInv
    /\ [Next]_vars
    => OnceInv'
  <1> SUFFICES ASSUME TypeOK, OneCart, OneRestaurantPerCart, ReadInv, OnceInv, [Next]_vars
               PROVE  OnceInv'
    OBVIOUS
  <1>0. ordered \in [Lines -> Nat] /\ line \in [Lines -> Line \cup {None, Gone}]
    BY DEF TypeOK
  <1>1. ASSUME NEW l \in Lines, ordered'[l] > 0 PROVE line'[l] # None
    <2>1. line[l] # None
      <3>1. CASE ordered'[l] = ordered[l]
        BY <1>1, <3>1 DEF OnceInv
      <3>2. CASE ordered'[l] # ordered[l]
        BY <3>2, OrderedSteps DEF ReadInv
      <3>3. QED
        BY <3>1, <3>2
    <2>2. QED
      BY <2>1, LineSteps DEF Repriced, Inserted
  <1>2. ASSUME mishaps' = {} PROVE Undisturbed'
    <2>1. mishaps = {} /\ Undisturbed
      BY <1>2, MishapSteps DEF OnceInv
    <2>2. ASSUME NEW r \in Requests, NEW s \in Requests, Buys(r)', Buys(s)', r # s
          PROVE  FALSE
      <3>1. ASSUME NEW x \in Requests, Buys(x)', ~ Buys(x)
            PROVE  CheckingOut = {} /\ \A y \in Requests : y # x => job'[y] = job[y]
        <4>1. Checkout(x)
          <5>1. job'[x] # job[x]
            BY <3>1 DEF Buys, Free
          <5>2. Listed(x) \/ Summed(x) \/ WentOn(x) => Buys(x)
            BY DEF Listed, Summed, WentOn, Buys, HasRead
          <5>3. QED
            BY <3>1, <5>1, <5>2, CheckoutSteps DEF Started
        <4>2. QED
          BY <1>2, <4>1 DEF Checkout, Become, TypeOK
      <3>2. CASE Buys(r) /\ Buys(s)
        BY <2>1, <2>2, <3>2 DEF Undisturbed
      <3>3. ASSUME NEW x \in Requests, NEW y \in Requests, x # y, Buys(x)', ~ Buys(x), Buys(y)'
            PROVE  FALSE
        <4>1. CheckingOut = {} /\ job'[y] = job[y]
          BY <3>1, <3>3
        <4>2. Buys(y)
          BY <3>3, <4>1 DEF Buys, Free
        <4>3. QED
          BY <4>1, <4>2, Checkouts
      <3>4. QED
        BY <2>2, <3>2, <3>3
    <2>3. ASSUME NEW l \in Lines PROVE ordered'[l] <= 1
      <3>1. CASE ordered'[l] = ordered[l]
        BY <2>1, <3>1 DEF Undisturbed
      <3>2. CASE ordered'[l] # ordered[l]
        <4>1. ordered'[l] = ordered[l] + 1 /\ ordered[l] = 0
          BY <2>1, <3>2, OrderedSteps DEF Undisturbed
        <4>2. QED
          BY <4>1
      <3>3. QED
        BY <3>1, <3>2
    <2>4. ASSUME NEW l \in Lines, ordered[l] > 0, Is(line'[l])
          PROVE  \E r \in Requests : Holds(r, l)'
      <3>1. line[l] # None /\ ~ Inserted(l)
        BY <2>4 DEF OnceInv, Inserted
      <3>2. Is(line[l]) /\ line'[l].cart = line[l].cart
        BY <2>4, <3>1, LineSteps DEF Repriced, Is
      <3>3. PICK r \in Requests : Holds(r, l)
        BY <2>1, <2>4, <3>2 DEF Undisturbed
      <3>4. line[l].cart \in Mine
        BY <3>2, InTheCart
      <3>5. HasRead(r)'
        <4>1. ~ (job[r].step = "find" /\ Mine = {})
          BY <3>4
        <4>2. ~ (job[r].step = "empty" /\ DeleteLines(InCart(job[r].cart)))
          BY <2>4, <3>2, <3>3 DEF Holds, DeleteLines, InCart, Is
        <4>3. QED
          BY <1>2, <3>3, <4>1, <4>2, EndSteps DEF Holds
      <3>6. CASE job'[r] = job[r]
        BY <3>2, <3>3, <3>5, <3>6 DEF Holds
      <3>7. CASE job'[r] # job[r]
        <4>1. WentOn(r)
          <5>1. Buys(r)' /\ ~ Started(r)
            BY <3>5 DEF HasRead, Buys, ReadSteps, Started
          <5>2. ~ Listed(r) /\ ~ Summed(r)
            BY <3>3 DEF Holds, Listed, Summed
          <5>3. QED
            BY <3>7, <5>1, <5>2, CheckoutSteps
        <4>2. /\ job'[r].step = "empty" /\ job'[r].read = job[r].read
              /\ job'[r].cart \in Mine
          BY <3>3, <4>1 DEF WentOn, Holds
        <4>3. line'[l].cart = job'[r].cart
          BY <3>2, <3>4, <4>2 DEF OneCart
        <4>4. QED
          BY <3>3, <3>5, <4>2, <4>3 DEF Holds
      <3>8. QED
        BY <3>6, <3>7
    <2>5. ASSUME NEW l \in Lines, ordered'[l] > 0, Is(line'[l])
          PROVE  \E r \in Requests : Holds(r, l)'
      <3>1. CASE ordered'[l] = ordered[l]
        BY <2>4, <2>5, <3>1
      <3>2. CASE ordered'[l] # ordered[l]
        <4>1. PICK r \in Requests :
                /\ HasRead(r) /\ job[r].read[l] # None
                /\ job'[r] = [step |-> "find", read |-> job[r].read]
          BY <3>2, OrderedSteps
        <4>2. job'[r].step = "find" /\ job'[r].read[l] # None
          BY <4>1
        <4>3. ~ Free(r)'
          <5>1. job[r].read \in Reading
            BY <4>1, JobForms DEF HasRead
          <5>2. [step |-> "find", read |-> job[r].read] \in Buying
            BY <5>1 DEF Buying
          <5>3. QED
            BY <4>1, <5>2 DEF Free
        <4>4. QED
          BY <4>2, <4>3 DEF Holds, HasRead, ReadSteps
      <3>3. QED
        BY <3>1, <3>2
    <2>6. ASSUME NEW r \in Requests, NEW l \in Lines,
                 HasRead(r)', job'[r].step \in {"addons", "restaurant", "order"},
                 job'[r].read[l] # None
          PROVE  ordered'[l] = 0
      <3>1. Buys(r)
        <4>1. CASE job'[r] = job[r]
          BY <2>6, <4>1 DEF HasRead, Buys, Free
        <4>2. CASE job'[r] # job[r]
          BY <2>6, <4>2, CheckoutSteps
          DEF Started, Listed, Summed, WentOn, HasRead, Buys, ReadSteps
        <4>3. QED
          BY <4>1, <4>2
      <3>2. ordered'[l] = ordered[l]
        <4>1. ASSUME ordered'[l] # ordered[l] PROVE FALSE
          <5>1. PICK s \in Requests :
                  HasRead(s) /\ job'[s] = [step |-> "find", read |-> job[s].read]
            BY <4>1, OrderedSteps
          <5>2. s = r
            BY <2>1, <3>1, <5>1 DEF Undisturbed, Buys, HasRead
          <5>3. QED
            BY <2>6, <5>1, <5>2
        <4>2. QED
          BY <4>1
      <3>3. ordered[l] = 0
        <4>1. CASE job'[r] = job[r]
          BY <2>1, <2>6, <4>1 DEF Undisturbed, HasRead, Free
        <4>2. CASE Listed(r)
          <5>1. Is(line[l])
            BY <2>6, <4>2 DEF Listed, InCart
          <5>2. ASSUME ordered[l] > 0 PROVE FALSE
            <6>1. PICK s \in Requests : Holds(s, l)
              BY <2>1, <5>1, <5>2 DEF Undisturbed
            <6>2. s = r
              BY <2>1, <3>1, <6>1 DEF Undisturbed, Holds, Buys, HasRead
            <6>3. QED
              BY <4>2, <6>1, <6>2 DEF Holds, Listed
          <5>3. QED
            BY <1>0, <5>2
        <4>3. CASE WentOn(r)
          BY <2>1, <2>6, <4>3 DEF WentOn, Undisturbed
        <4>4. CASE Summed(r)
          BY <2>1, <2>6, <4>4 DEF Summed, Undisturbed
        <4>5. Buys(r)' /\ ~ Started(r)
          BY <2>6 DEF HasRead, Buys, ReadSteps, Started
        <4>6. QED
          BY <4>1, <4>2, <4>3, <4>4, <4>5, CheckoutSteps
      <3>4. QED
        BY <3>2, <3>3
    <2>7. QED
      BY <2>2, <2>3, <2>5, <2>6 DEF Undisturbed, Is
  <1>3. QED
    BY <1>1, <1>2 DEF OnceInv

-----------------------------------------------------------------------------
\* The inductive invariant of the storefront.
StoreInv ==
    /\ TypeOK /\ MenuInv
    /\ OneCart /\ WishInv /\ OneRestaurantPerCart
    /\ ReadInv /\ OnceInv

LEMMA StoreInvariant == Spec => []StoreInv
  <1>1. Init => StoreInv
    <2> SUFFICES ASSUME Init PROVE StoreInv
      OBVIOUS
    <2>1. MenuInv
      BY MenuStarts DEF Init
    <2>2. TypeOK
      BY <2>1 DEF Init, TypeOK, MenuInv
    <2>3. \A r \in Requests : Free(r)
      BY DEF Init, Free
    <2>4. OneCart /\ WishInv /\ OneRestaurantPerCart
      BY <2>3 DEF Init, OneCart, Mine, WishInv, OneRestaurantPerCart, Is
    <2>5. ReadInv /\ OnceInv
      BY <2>3 DEF Init, ReadInv, OnceInv, Undisturbed, HasRead, Buys
    <2>6. QED
      BY <2>1, <2>2, <2>4, <2>5 DEF StoreInv
  <1>2. StoreInv /\ [Next]_vars => StoreInv'
    BY StoreTypes, OneCartKept, WishKept, TogetherKept, ReadKept, OnceKept DEF StoreInv
  <1>3. QED
    BY <1>1, <1>2, PTL DEF Spec

\* Every reachable state of the storefront is well typed.
THEOREM StorefrontTypeCorrect == Spec => []TypeOK
  BY StoreInvariant, PTL DEF StoreInv

\* A cart holds only what was asked for from its restaurant, of rows that are
\* there, however requests, checkouts and changes of the menu interleave.
THEOREM CartCorrect == Spec => []OneRestaurantPerCart
  BY StoreInvariant, PTL DEF StoreInv

\* A line is ordered at most once, except where checkouts have overlapped or a
\* cart was not emptied after its order.
THEOREM OrderedOnceCorrect == Spec => []OrderedOnce
  <1>1. StoreInv => OrderedOnce
    BY DEF StoreInv, OnceInv, Undisturbed, OrderedOnce
  <1>2. QED
    BY <1>1, StoreInvariant, PTL

\* What the emptying of the cart removes is ordered as it is, except for the
\* lines that came or changed after the checkout had read the cart.
THEOREM VanishingCorrect == Spec => NothingVanishes
  <1>1. ASSUME StoreInv, NEW r \in Requests, EmptyCart(r),
               NEW l \in InCart(job[r].cart) \ late
        PROVE  ordered[l] > 0 /\ job[r].read[l] = line[l]
    <2>1. HasRead(r) /\ job[r].step = "empty"
      BY <1>1 DEF EmptyCart, At, HasRead, Free, ReadSteps
    <2>2. l \in Lines /\ Is(line[l]) /\ l \notin late
      BY DEF InCart
    <2>3. job[r].read[l] = line[l]
      BY <1>1, <2>1, <2>2 DEF StoreInv, ReadInv
    <2>4. QED
      BY <1>1, <2>1, <2>2, <2>3 DEF StoreInv, ReadInv, Is
  <1>2. StoreInv /\ [Next]_vars =>
          [\A r \in Requests : EmptyCart(r) =>
             \A l \in InCart(job[r].cart) \ late :
                ordered[l] > 0 /\ job[r].read[l] = line[l]]_vars
    BY <1>1
  <1>3. QED
    BY <1>2, StoreInvariant, PTL DEF Spec, NothingVanishes
=============================================================================

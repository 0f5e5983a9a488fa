------------------------------ MODULE Figures ------------------------------
(***************************************************************************)
(* What is computed from the items of an invoice: totals and VAT in whole  *)
(* cents, the VAT regimes, and the Peppol XML with the application's own   *)
(* validation of it.  Quantities are in hundredths and prices in cents, as *)
(* the columns Numeric(10, 2) hold them, so an item's exact amount is a    *)
(* whole number of hundredths of a cent.  The company and the customer are *)
(* read when a document is shown or exported, not when it was made.        *)
(***************************************************************************)
EXTENDS Integers, Sequences, Functions

CONSTANTS
  Quantities,  \* of an item, in hundredths
  Prices,      \* of a unit, in cents
  VatRates,    \* VAT_RATES, in per cent
  MaxItems,    \* bound: items of an invoice
  Absent       \* no invoice yet, no customer yet

ASSUME FiguresAssumption ==
  /\ Quantities \subseteq Nat \ {0} /\ Prices \subseteq Nat /\ VatRates \subseteq 0..100
  /\ MaxItems \in Nat

VARIABLES
  form,      \* the items of the form for a new invoice
  invoice,   \* the invoice saved from it, Absent before
  company,   \* what the settings say
  customer   \* the customer of the invoice, Absent before there is one

figuresVars == <<form, invoice, company, customer>>

Item == [quantity : Quantities, price : Prices, rate : VatRates]
Company == [name : BOOLEAN, payer : BOOLEAN, vatId : BOOLEAN, endpoint : BOOLEAN]
Customer == [vatId : BOOLEAN, endpoint : BOOLEAN]

SumOver(S, Value(_)) == FoldFunctionOnSet(+, 0, [x \in S |-> Value(x)], S)

-----------------------------------------------------------------------------
(* Decimal.quantize of x/d to whole numbers, for x >= 0                    *)
RoundHalfUp(x, d) == (2 * x + d) \div (2 * d)

(* Without rounding=, the context's ROUND_HALF_EVEN.                       *)
Quantize(x, d) ==
  LET down == x \div d IN
    IF 2 * (x % d) > d \/ (2 * (x % d) = d /\ down % 2 = 1) THEN down + 1 ELSE down

(* In hundredths of a cent.                                                *)
Exact(item) == item.quantity * item.price

-----------------------------------------------------------------------------
(* invoice_utils                                                           *)

(* Mutation of LineBase: amounts are cut off.                              *)
LineBase_CutOff(item) == Exact(item) \div 100

LineBase(item) == RoundHalfUp(Exact(item), 100)

(* calculate_invoice_totals                                                *)
WithRate(items, r) == {i \in DOMAIN items : items[i].rate = r}
Rates(items) == {items[i].rate : i \in DOMAIN items}

BaseOf(items, r) == SumOver(WithRate(items, r), LAMBDA i : LineBase(items[i]))

(* Mutation of VatOf: the tax is rounded line by line and then added up.   *)
VatOf_ByLine(items, r) ==
  SumOver(WithRate(items, r), LAMBDA i : RoundHalfUp(LineBase(items[i]) * r, 100))

VatOf(items, r) == RoundHalfUp(BaseOf(items, r) * r, 100)

Breakdown(items) == [r \in Rates(items) |-> [base |-> BaseOf(items, r), vat |-> VatOf(items, r)]]

InvoiceTotals(items) ==
  LET rows == Breakdown(items)
      base == SumOver(DOMAIN rows, LAMBDA r : rows[r].base)
      vat == SumOver(DOMAIN rows, LAMBDA r : rows[r].vat)
  IN  [base |-> base, vat |-> vat, gross |-> base + vat]

(* validate_vat_regime                                                     *)
RegimeAllows(payer, items) == payer \/ Rates(items) \subseteq {0}

(* validate_reverse_charge_eligibility                                     *)
ReverseChargeAllowed == company.payer /\ customer.vatId

(* Mutation of ValidVat: reverse charge is checked like any invoice.       *)
ValidVat_OneRegime(reverse, items) ==
  /\ RegimeAllows(company.payer, items)
  /\ reverse => ReverseChargeAllowed

(* validate_invoice_vat                                                    *)
ValidVat(reverse, items) ==
  IF reverse THEN ReverseChargeAllowed /\ RegimeAllows(FALSE, items)
             ELSE RegimeAllows(company.payer, items)

-----------------------------------------------------------------------------
(* generate_peppol_xml, as far as the validation looks                     *)

Category(r, reverse) == IF reverse THEN "AE" ELSE IF r = 0 THEN "Z" ELSE "S"

(* build_party: an endpoint has its scheme; the country is always there.   *)
Supplier == [name |-> company.name, vatId |-> company.vatId, endpoint |-> company.endpoint]
Buyer == [name |-> TRUE, vatId |-> customer.vatId, endpoint |-> customer.endpoint]

XmlSubtotals(inv) ==
  LET rows == Breakdown(inv.items) IN
  [r \in DOMAIN rows |->
     [category |-> Category(r, inv.reverse), percent |-> r,
      taxable |-> rows[r].base, tax |-> rows[r].vat, reason |-> inv.reverse]]

XmlLine(inv, item) ==
  [category |-> Category(item.rate, inv.reverse), percent |-> item.rate,
   amount |-> Quantize(Exact(item), 100)]

Xml(inv) ==
  LET totals == InvoiceTotals(inv.items) IN
  [supplier |-> Supplier, buyer |-> Buyer,
   subtotals |-> XmlSubtotals(inv), tax |-> totals.vat,
   lineExtension |-> totals.base, exclusive |-> totals.base,
   inclusive |-> totals.gross, payable |-> totals.gross,
   lines |-> [i \in DOMAIN inv.items |-> XmlLine(inv, inv.items[i])]]

-----------------------------------------------------------------------------
(* validate_peppol_invoice_xml: the rules broken                           *)

Unless(ok, rule) == IF ok THEN {} ELSE {rule}
Amounts(x, S) == SumOver(S, LAMBDA l : x.lines[l].amount)
LinesOf(x, c) == {l \in DOMAIN x.lines : x.lines[l].category = c}
SubtotalsOf(x, c) == {s \in DOMAIN x.subtotals : x.subtotals[s].category = c}

PartyIssues(x) ==
  Unless(x.supplier.name, "BR-06") \union Unless(x.buyer.name, "BR-07")
    \union Unless(x.supplier.endpoint, "R020") \union Unless(x.buyer.endpoint, "R010")

LineIssues(x) ==
  Unless(x.lines # <<>>, "BR-16")
    \union Unless(\A l \in LinesOf(x, "Z") \union LinesOf(x, "AE") : x.lines[l].percent = 0, "BR-05")

SumIssues(x) ==
  Unless(x.lineExtension = Amounts(x, DOMAIN x.lines), "BR-CO-10")
    \union Unless(x.exclusive = x.lineExtension, "BR-CO-13")
    \union Unless(x.tax = SumOver(DOMAIN x.subtotals, LAMBDA s : x.subtotals[s].tax), "BR-CO-14")
    \union Unless(x.inclusive = x.exclusive + x.tax, "BR-CO-15")
    \union Unless(x.payable = x.inclusive, "PayableAmount")

(* In the two categories without tax; rules 01, 08, 09 and 10 of each.     *)
UntaxedIssues(x, c) ==
  LET used == LinesOf(x, c) # {}
      rows == SubtotalsOf(x, c)
  IN  Unless(used => \E s \in rows : rows = {s}, "BR-01")
        \union Unless(\A s \in rows : used => x.subtotals[s].taxable = Amounts(x, LinesOf(x, c)),
                      "BR-08")
        \union Unless(\A s \in rows : x.subtotals[s].tax = 0, "BR-09")
        \union Unless(\A s \in rows : x.subtotals[s].reason <=> c = "AE", "BR-10")

RateIssues(x) ==
  Unless(\A r \in DOMAIN x.subtotals :
           LET s == x.subtotals[r] IN s.tax = RoundHalfUp(s.taxable * s.percent, 100), "BR-CO-17")

VatIdIssues(x) ==
  Unless(SubtotalsOf(x, "AE") # {} => x.supplier.vatId /\ x.buyer.vatId, "BR-AE-02")
    \union Unless(SubtotalsOf(x, "Z") # {} => x.supplier.vatId, "BR-Z-02")

Issues(x) ==
  PartyIssues(x) \union LineIssues(x) \union SumIssues(x) \union UntaxedIssues(x, "Z")
    \union UntaxedIssues(x, "AE") \union RateIssues(x) \union VatIdIssues(x)

-----------------------------------------------------------------------------
AddItem ==
  /\ invoice = Absent /\ Len(form) < MaxItems
  /\ \E item \in Item : form' = Append(form, item)
  /\ UNCHANGED <<invoice, company, customer>>

(* create_invoice with the settings of now.                                *)
SaveInvoice ==
  /\ invoice = Absent /\ form # <<>> /\ customer # Absent
  /\ \E reverse \in BOOLEAN :
       /\ ValidVat(reverse, form)
       /\ invoice' = [items |-> form, reverse |-> reverse, payer |-> company.payer]
  /\ form' = <<>>
  /\ UNCHANGED <<company, customer>>

(* settings_save; update_customer below: an invoice that is there keeps    *)
(* its items.                                                              *)
SaveSettings ==
  /\ company' \in Company
  /\ UNCHANGED <<form, invoice, customer>>

(* create_customer: an invoice is made for a customer there is.            *)
CreateCustomer ==
  /\ customer = Absent
  /\ customer' \in Customer
  /\ UNCHANGED <<form, invoice, company>>

UpdateCustomer ==
  /\ customer # Absent
  /\ customer' \in Customer
  /\ UNCHANGED <<form, invoice, company>>

FiguresInit ==
  /\ form = <<>> /\ invoice = Absent
  /\ company = [name |-> FALSE, payer |-> FALSE, vatId |-> FALSE, endpoint |-> FALSE]
  /\ customer = Absent

FiguresNext == AddItem \/ SaveInvoice \/ SaveSettings \/ CreateCustomer \/ UpdateCustomer

FiguresSpec == FiguresInit /\ [][FiguresNext]_figuresVars

-----------------------------------------------------------------------------
(* Totals differ from the exact amounts by half a cent per line at most,   *)
(* and the tax of a rate by half a cent from the tax of its base; what is  *)
(* shown adds up.                                                          *)
Near(x, y, tolerance) == x - y \in -tolerance..tolerance

TotalsAreNear ==
  invoice # Absent =>
    LET items == invoice.items  totals == InvoiceTotals(items) IN
      /\ Near(100 * totals.base, SumOver(DOMAIN items, LAMBDA i : Exact(items[i])), 50 * Len(items))
      /\ \A r \in Rates(items) : Near(100 * VatOf(items, r), BaseOf(items, r) * r, 50)
      /\ totals.base = SumOver(DOMAIN items, LAMBDA i : LineBase(items[i]))

(* No invoice carries VAT that its maker must not charge: made by a        *)
(* non-payer or under reverse charge (validate_invoice_vat).               *)
NoUnlawfulVat ==
  invoice # Absent => (invoice.reverse \/ ~invoice.payer => InvoiceTotals(invoice.items).vat = 0)

HalfCent(item) == Exact(item) % 100 = 50

(* The application's own validation finds nothing wrong with an export but *)
(* what the parties have not filled in, or no longer have, and sums where  *)
(* a line's exact amount ends in half a cent.                              *)
OnlyPartiesAndHalfCents ==
  invoice # Absent =>
    LET items == invoice.items  zero == 0 \in Rates(items) IN
    Issues(Xml(invoice)) \subseteq
      Unless(company.name, "BR-06")
        \union Unless(company.endpoint, "R020") \union Unless(customer.endpoint, "R010")
        \union Unless(invoice.reverse => company.vatId /\ customer.vatId, "BR-AE-02")
        \union Unless(~invoice.reverse /\ zero => company.vatId, "BR-Z-02")
        \union Unless(\A i \in DOMAIN items : ~HalfCent(items[i]), "BR-CO-10")
        \union Unless(\A i \in WithRate(items, 0) : ~HalfCent(items[i]), "BR-08")
=============================================================================

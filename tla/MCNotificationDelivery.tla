----------------------- MODULE MCNotificationDelivery -----------------------
(* Small instances of NotificationDelivery.  A delivery is a pair of its    *)
(* chain and its priority.                                                  *)
EXTENDS NotificationDelivery, TLC

CONSTANTS w1, w2   \* workers

(* One chain of three routes, one of two, two chains of one route.          *)
ThreeRoutes == {<<1, 1>>, <<1, 2>>, <<1, 3>>}
TwoRoutes == {<<1, 1>>, <<1, 2>>}
TwoChains == {<<1, 1>>, <<1, 2>>, <<2, 1>>}
TwoSingles == {<<1, 1>>, <<2, 1>>}

MCChainOf == [d \in Delivery |-> d[1]]
MCPriorityOf == [d \in Delivery |-> d[2]]

AllTelegram == [d \in Delivery |-> "TELEGRAM"]
WhatsAppFirst == [d \in Delivery |-> IF d[2] = 1 THEN "WHATSAPP" ELSE "TELEGRAM"]
AllWhatsApp == [d \in Delivery |-> "WHATSAPP"]

(* WhatsApp ids are unique; Telegram counts messages in each chat.          *)
UniqueId == [d \in Delivery |-> [n \in 1..MaxAttempts |-> <<d, n>>]]
UniqueIds == Delivery \X (1..MaxAttempts)
PerChatId == [d \in Delivery |-> [n \in 1..MaxAttempts |-> <<"chat message", n>>]]
PerChatIds == {<<"chat message", n>> : n \in 1..MaxAttempts}

Workers == Permutations(Worker)
FirstRoute == {<<1, 1>>}
=============================================================================
